-------------------------- MODULE TokenBillingProofs --------------------------
(***************************************************************************)
(* Proofs about TokenBilling, for any number of tokens, requests and       *)
(* administrators, any limits and any capacity of the queue.               *)
(***************************************************************************)
EXTENDS TokenBilling, FiniteSetTheorems, TLAPS

-----------------------------------------------------------------------------
(* Type correctness, actor by actor *)

LEMMA ListTyped ==
    ASSUME row \in [Tokens -> Rows]
    PROVE  ListActiveAuthTokens \in [Tokens -> Entries \cup {NoEntry}]
BY BillingAssumption DEF ListActiveAuthTokens, Rows, Entries

LEMMA ChargeTyped ==
    ASSUME BillingTypeOK, NEW u \in Updates, ChargeRow(u) \/ ChargeFails(u)
    PROVE  /\ row' \in [Tokens -> Rows]
           /\ charged' \subseteq Updates
           /\ lost' \subseteq Updates
<1>1. Billed(u) \subseteq Updates /\ Cardinality(Billed(u)) \in Nat
  <2>1. Cardinality({}) = 0 /\ Cardinality({u}) = 1
    BY FS_EmptySet, FS_Singleton
  <2> QED BY <2>1 DEF Billed
<1>2. CASE ChargeRow(u)
  <2>1. row[u.token] \in Rows /\ u.token \in Tokens
    BY DEF BillingTypeOK, Updates
  <2>2. [row[u.token] EXCEPT !.used = @ + Cardinality(Billed(u))] \in Rows
    BY <1>1, <2>1 DEF Rows
  <2> QED BY <1>1, <1>2, <2>2 DEF ChargeRow, BillingTypeOK
<1>3. CASE ChargeFails(u)
  BY <1>1, <1>3 DEF ChargeFails, BillingTypeOK
<1> QED BY <1>2, <1>3

LEMMA CreditTyped ==
    ASSUME BillingTypeOK, NEW t \in Tokens, AddCostToCache(t)
    PROVE  entry' \in [Tokens -> Entries \cup {NoEntry}]
<1>1. CASE entry[t] = NoEntry \/ Unlimited(entry[t])
  BY <1>1 DEF AddCostToCache, BillingTypeOK
<1>2. CASE ~(entry[t] = NoEntry \/ Unlimited(entry[t]))
  <2>1. entry[t] \in Entries
    BY <1>2 DEF BillingTypeOK
  <2>2. [entry[t] EXCEPT !.used = @ + 1] \in Entries
    BY <2>1 DEF Entries
  <2> QED BY <1>2, <2>2 DEF AddCostToCache, BillingTypeOK
<1> QED BY <1>1, <1>2

LEMMA RequestTyped ==
    ASSUME BillingTypeOK, NEW r \in Requests, Arrive(r) \/ RequestStep(r)
    PROVE  BillingTypeOK'
<1>1. /\ req[r] \in RequestStates
      /\ req[r].pc # "idle" => req[r].upd \in Updates
      /\ statsCh \in Seq(Updates) /\ StatsCap \in Nat /\ issued \in Nat
  BY BillingAssumption DEF BillingTypeOK
<1>2. /\ UNCHANGED <<now, worker, admin, edits, server, behind>>
  BY DEF Arrive, RequestStep
<1> DEFINE ReqGood(x) == x \in RequestStates /\ (x.pc # "idle" => x.upd \in Updates)
           Good == /\ row' \in [Tokens -> Rows]
                   /\ entry' \in [Tokens -> Entries \cup {NoEntry}]
                   /\ \E x : ReqGood(x) /\ req' = [req EXCEPT ![r] = x]
                   /\ statsCh' \in Seq(Updates) /\ Len(statsCh') <= StatsCap
                   /\ issued' \in Nat
                   /\ charged' \subseteq Updates /\ lost' \subseteq Updates
<1>3. ASSUME NEW x, ReqGood(x)
      PROVE  [req EXCEPT ![r] = x] \in [Requests -> RequestStates]
                /\ \A q \in Requests : [req EXCEPT ![r] = x][q].pc # "idle" =>
                      [req EXCEPT ![r] = x][q].upd \in Updates
  BY <1>3 DEF BillingTypeOK
<1>4. Good => BillingTypeOK'
  BY <1>2, <1>3 DEF BillingTypeOK
<1>5. ReqGood(AtRest)
  BY DEF AtRest, RequestStates
<1>6. ASSUME NEW pc \in {"upstream", "finished", "send", "apply", "credit"}, req[r].pc # "idle"
      PROVE  ReqGood([req[r] EXCEPT !.pc = pc])
  BY <1>1, <1>6 DEF RequestStates
<1>7. ASSUME req[r].pc # "idle", Reported(r)
      PROVE  \E x : ReqGood(x) /\ req' = [req EXCEPT ![r] = x]
  BY <1>5, <1>6, <1>7 DEF Reported, Finish
<1> HIDE DEF ReqGood
<1>8. ASSUME NEW t \in Tokens, Authenticate(r, t)
      PROVE  Good
  <2> DEFINE x == [pc |-> IF Expired(entry[t]) THEN "evict" ELSE "check",
                   upd |-> [token |-> t, bill |-> NoBill]]
  <2>1. ReqGood(x)
    BY DEF ReqGood, RequestStates, Updates, NoBill
  <2> HIDE DEF x
  <2>2. req' = [req EXCEPT ![r] = x]
    BY <1>8 DEF Authenticate, x
  <2> QED BY <1>8, <2>1, <2>2 DEF Authenticate, BillingTypeOK, dbVars
<1>9. CASE Evict(r)
  <2>1. req' = [req EXCEPT ![r] = AtRest] /\ req[r].upd.token \in Tokens
    BY <1>1, <1>9 DEF Evict, Finish, Updates
  <2> QED BY <1>4, <1>5, <1>9, <2>1 DEF Evict, BillingTypeOK, dbVars
<1>10. CASE CheckLimit(r)
  <2>1. \E x : ReqGood(x) /\ req' = [req EXCEPT ![r] = x]
    BY <1>5, <1>6, <1>10 DEF CheckLimit, Finish, Goto
  <2> QED BY <1>4, <1>10, <2>1 DEF CheckLimit, BillingTypeOK, dbVars
<1>11. CASE Answered(r)
  <2>1. ReqGood([pc |-> "finished", upd |-> [token |-> req[r].upd.token, bill |-> issued + 1]])
    BY <1>1, <1>11 DEF Answered, Updates, RequestStates, ReqGood
  <2>2. \E x : ReqGood(x) /\ req' = [req EXCEPT ![r] = x]
    BY <1>5, <1>6, <1>11, <2>1 DEF Answered, Finish, Goto
  <2>3. issued' \in Nat
    BY <1>1, <1>11 DEF Answered
  <2> QED BY <1>4, <1>11, <2>2, <2>3 DEF Answered, BillingTypeOK, dbVars
<1>12. CASE LookAtShutdown(r)
  <2>1. \E x : ReqGood(x) /\ req' = [req EXCEPT ![r] = x]
    BY <1>6, <1>12 DEF LookAtShutdown, Goto
  <2> QED BY <1>4, <1>12, <2>1 DEF LookAtShutdown, BillingTypeOK, dbVars
<1>13. CASE Send(r)
  <2>1. \E x : ReqGood(x) /\ req' = [req EXCEPT ![r] = x]
    BY <1>7, <1>13 DEF Send
  <2>2. req[r].upd \in Updates /\ Billed(req[r].upd) \subseteq Updates
    BY <1>1, <1>13 DEF Send, Billed
  <2>3. statsCh' \in Seq(Updates) /\ Len(statsCh') <= StatsCap /\ lost' \subseteq Updates
    <3>1. /\ statsCh \in Seq(Updates) /\ Len(statsCh) \in Nat /\ Len(statsCh) <= StatsCap
          /\ lost \subseteq Updates
      BY DEF BillingTypeOK
    <3>2. Append(statsCh, req[r].upd) \in Seq(Updates)
             /\ Len(Append(statsCh, req[r].upd)) = Len(statsCh) + 1
      BY <2>2, <3>1
    <3>3. /\ statsCh' = statsCh \/ (Len(statsCh) < StatsCap /\ statsCh' = Append(statsCh, req[r].upd))
          /\ lost' = lost \/ lost' = lost \cup Billed(req[r].upd)
      BY <1>13 DEF Send
    <3> QED BY <1>1, <2>2, <3>1, <3>2, <3>3
  <2> QED BY <1>4, <1>13, <2>1, <2>3 DEF Send, BillingTypeOK, dbVars
<1>14. CASE ApplyItself(r)
  <2>1. \E x : ReqGood(x) /\ req' = [req EXCEPT ![r] = x]
    BY <1>6, <1>7, <1>14 DEF ApplyItself, Goto
  <2>2. /\ row' \in [Tokens -> Rows]
        /\ charged' \subseteq Updates /\ lost' \subseteq Updates
    BY <1>1, <1>14, ChargeTyped DEF ApplyItself
  <2> QED BY <1>4, <1>14, <2>1, <2>2 DEF ApplyItself, BillingTypeOK
<1>15. CASE CreditItself(r)
  <2>1. req' = [req EXCEPT ![r] = AtRest] /\ req[r].upd.token \in Tokens
    BY <1>1, <1>15 DEF CreditItself, Finish, Updates
  <2>2. entry' \in [Tokens -> Entries \cup {NoEntry}]
    BY <1>15, <2>1, CreditTyped DEF CreditItself
  <2> QED BY <1>4, <1>5, <1>15, <2>1, <2>2 DEF CreditItself, BillingTypeOK, dbVars
<1> HIDE DEF Good
<1> QED BY <1>4, <1>8, <1>9, <1>10, <1>11, <1>12, <1>13, <1>14, <1>15 DEF Arrive, RequestStep

LEMMA WorkerTyped ==
    ASSUME BillingTypeOK, WorkerStep
    PROVE  BillingTypeOK'
<1>1. /\ worker \in WorkerStates
      /\ worker.pc \in {"apply", "credit"} => worker.upd \in Updates
      /\ statsCh \in Seq(Updates) /\ Len(statsCh) <= StatsCap /\ StatsCap \in Nat
  BY BillingAssumption DEF BillingTypeOK
<1>2. UNCHANGED <<now, req, admin, edits, server, issued, behind>>
  BY DEF WorkerStep
<1>3. Back => /\ worker' \in WorkerStates
              /\ worker'.pc \notin {"apply", "credit"}
  BY <1>1 DEF Back, WorkerStates
<1>4. ASSUME NEW pc \in {"drain", "credit", "stopped"},
             worker' = [worker EXCEPT !.pc = pc] \/ worker' = [worker EXCEPT !.pc = pc, !.back = "drain"]
      PROVE  worker' \in WorkerStates /\ worker'.pc = pc /\ worker'.upd = worker.upd
  BY <1>1, <1>4 DEF WorkerStates
<1>5. CASE Takes
  <2>1. /\ Head(statsCh) \in Updates /\ Tail(statsCh) \in Seq(Updates)
        /\ Len(Tail(statsCh)) <= StatsCap
    BY <1>1, <1>5 DEF Takes
  <2>2. worker' \in WorkerStates /\ worker'.upd \in Updates
    BY <1>1, <1>5, <2>1 DEF Takes, WorkerStates
  <2> QED BY <1>2, <1>5, <2>1, <2>2 DEF Takes, BillingTypeOK, dbVars
<1>6. CASE Applies
  <2>1. worker' \in WorkerStates /\ (worker'.pc \in {"apply", "credit"} => worker'.upd \in Updates)
    BY <1>1, <1>3, <1>4, <1>6 DEF Applies
  <2>2. /\ row' \in [Tokens -> Rows]
        /\ charged' \subseteq Updates /\ lost' \subseteq Updates
    BY <1>1, <1>6, ChargeTyped DEF Applies
  <2> QED BY <1>2, <1>6, <2>1, <2>2 DEF Applies, BillingTypeOK
<1>7. CASE Credits
  <2>1. entry' \in [Tokens -> Entries \cup {NoEntry}]
    BY <1>1, <1>7, CreditTyped DEF Credits, Updates
  <2> QED BY <1>2, <1>3, <1>7, <2>1 DEF Credits, BillingTypeOK, dbVars
<1>8. CASE SeesShutdown
  BY <1>2, <1>4, <1>8 DEF SeesShutdown, BillingTypeOK, dbVars
<1>9. CASE Stops
  BY <1>2, <1>4, <1>9 DEF Stops, BillingTypeOK, dbVars
<1> QED BY <1>5, <1>6, <1>7, <1>8, <1>9 DEF WorkerStep

LEMMA AdminTyped ==
    ASSUME BillingTypeOK, NEW a \in Admins, AdminBegins(a) \/ AdminStep(a)
    PROVE  BillingTypeOK'
<1>1. /\ admin[a] \in AdminStates
      /\ admin[a].pc = "write" => admin[a].token \in Tokens
      /\ AdminIdle \in AdminStates
  BY DEF BillingTypeOK, AdminStates, AdminIdle, NoRow, Rows
<1>2. /\ UNCHANGED <<now, req, statsCh, worker, server, issued>>
      /\ edits' \in Nat
  BY DEF AdminBegins, AdminStep, BillingTypeOK
<1>3. ASSUME NEW x \in AdminStates, x.pc = "write" => x.token \in Tokens,
             admin' = [admin EXCEPT ![a] = x]
      PROVE  /\ admin' \in [Admins -> AdminStates]
             /\ \A b \in Admins : admin'[b].pc = "write" => admin'[b].token \in Tokens
  BY <1>3 DEF BillingTypeOK
<1>4. ASSUME NEW pc \in {"idle", "select", "replace"}
      PROVE  [admin[a] EXCEPT !.pc = pc] \in AdminStates /\ [admin[a] EXCEPT !.pc = pc].pc = pc
  BY <1>1 DEF AdminStates
<1>5. [AdminIdle EXCEPT !.pc = "select"] \in AdminStates /\ [AdminIdle EXCEPT !.pc = "select"].pc = "select"
  BY <1>1 DEF AdminStates
<1>6. AdminIdle.pc = "idle"
  BY DEF AdminIdle
<1>7. ASSUME NEW t \in Tokens, NEW s \in {"present", "deleted"}
      PROVE  [row EXCEPT ![t].state = s] \in [Tokens -> Rows]
  <2>1. row[t] \in Rows /\ row \in [Tokens -> Rows]
    BY DEF BillingTypeOK
  <2>2. [row[t] EXCEPT !.state = s] \in Rows
    BY <2>1 DEF Rows
  <2> QED BY <2>1, <2>2
<1>8. ASSUME NEW t \in Tokens, CreatesToken(a, t) \/ DeletesToken(a, t)
      PROVE  BillingTypeOK'
  <2>1. row' \in [Tokens -> Rows]
    BY <1>7, <1>8 DEF CreatesToken, DeletesToken
  <2>2. admin' = [admin EXCEPT ![a] = [admin[a] EXCEPT !.pc = "select"]]
    BY <1>8 DEF CreatesToken, DeletesToken, AdminGoto
  <2>3. /\ admin' \in [Admins -> AdminStates]
        /\ \A b \in Admins : admin'[b].pc = "write" => admin'[b].token \in Tokens
    BY <1>3, <1>4, <2>2
  <2> QED BY <1>2, <1>8, <2>1, <2>3 DEF CreatesToken, DeletesToken, BillingTypeOK
<1>9. ASSUME NEW t \in Tokens, ReadsToken(a, t)
      PROVE  BillingTypeOK'
  <2> DEFINE x == [AdminIdle EXCEPT !.pc = "write", !.token = t, !.old = row[t]]
  <2>1. x \in AdminStates /\ x.token \in Tokens
    BY <1>1 DEF BillingTypeOK, AdminStates
  <2>2. admin' = [admin EXCEPT ![a] = x]
    BY <1>9 DEF ReadsToken
  <2> HIDE DEF x
  <2> QED BY <1>2, <1>3, <1>9, <2>1, <2>2 DEF ReadsToken, BillingTypeOK, dbVars
<1>10. CASE WritesToken(a)
  <2>1. admin[a].token \in Tokens /\ admin[a].old \in Rows
    BY <1>1, <1>10 DEF WritesToken, AdminStates
  <2>2. row' \in [Tokens -> Rows]
    <3>1. ASSUME NEW b \in BOOLEAN, NEW l \in Limits \cup {admin[a].old.limit},
                 NEW e \in Expiries \cup {admin[a].old.expires}
          PROVE  [row[admin[a].token] EXCEPT !.active = b, !.limit = l, !.expires = e] \in Rows
      <4>1. row[admin[a].token] \in Rows
        BY <2>1 DEF BillingTypeOK
      <4>2. l \in Limits \cup {0} /\ e \in Expiries \cup {0}
        BY <2>1, <3>1 DEF Rows
      <4> QED BY <3>1, <4>1, <4>2 DEF Rows
    <3>2. row \in [Tokens -> Rows]
      BY DEF BillingTypeOK
    <3> DEFINE new(b, l, e) ==
                 [row[admin[a].token] EXCEPT !.active = b, !.limit = l, !.expires = e]
    <3>3. \/ row' = row
          \/ \E b \in BOOLEAN, l \in Limits \cup {admin[a].old.limit},
                e \in Expiries \cup {admin[a].old.expires} :
                 row' = [row EXCEPT ![admin[a].token] = new(b, l, e)]
      BY <1>10 DEF WritesToken
    <3>4. ASSUME NEW x \in Rows PROVE [row EXCEPT ![admin[a].token] = x] \in [Tokens -> Rows]
      BY <3>2
    <3> HIDE DEF new
    <3>5. \A b \in BOOLEAN, l \in Limits \cup {admin[a].old.limit},
             e \in Expiries \cup {admin[a].old.expires} : new(b, l, e) \in Rows
      BY <3>1 DEF new
    <3> QED BY <3>2, <3>3, <3>4, <3>5
  <2>3. /\ admin' \in [Admins -> AdminStates]
        /\ \A b \in Admins : admin'[b].pc = "write" => admin'[b].token \in Tokens
    BY <1>1, <1>3, <1>5, <1>6, <1>10 DEF WritesToken
  <2> QED BY <1>2, <1>10, <2>2, <2>3 DEF WritesToken, BillingTypeOK
<1>11. CASE SelectsTokens(a)
  <2> DEFINE x == [admin[a] EXCEPT !.pc = "replace", !.new = ListActiveAuthTokens]
  <2>1. x \in AdminStates /\ x.pc = "replace"
    BY <1>1, ListTyped DEF BillingTypeOK, AdminStates
  <2>2. admin' = [admin EXCEPT ![a] = x] \/ admin' = [admin EXCEPT ![a] = AdminIdle]
    BY <1>11 DEF SelectsTokens
  <2> HIDE DEF x
  <2>3. /\ admin' \in [Admins -> AdminStates]
        /\ \A b \in Admins : admin'[b].pc = "write" => admin'[b].token \in Tokens
    BY <1>1, <1>3, <1>6, <2>1, <2>2
  <2> QED BY <1>2, <1>11, <2>3 DEF SelectsTokens, BillingTypeOK, dbVars
<1>12. CASE ReplacesEntries(a)
  <2>1. /\ admin' \in [Admins -> AdminStates]
        /\ \A b \in Admins : admin'[b].pc = "write" => admin'[b].token \in Tokens
    BY <1>1, <1>3, <1>6, <1>12 DEF ReplacesEntries
  <2>2. entry' \in [Tokens -> Entries \cup {NoEntry}]
    BY <1>1, <1>12 DEF ReplacesEntries, AdminStates
  <2> QED BY <1>2, <1>12, <2>1, <2>2 DEF ReplacesEntries, BillingTypeOK, dbVars
<1> QED BY <1>8, <1>9, <1>10, <1>11, <1>12 DEF AdminBegins, AdminStep

LEMMA TypeInit == BillingInit => BillingTypeOK
<1> SUFFICES ASSUME BillingInit PROVE BillingTypeOK
  OBVIOUS
<1>1. row \in [Tokens -> Rows]
  BY DEF BillingInit, Rows
<1>2. entry \in [Tokens -> Entries \cup {NoEntry}]
  BY <1>1, ListTyped DEF BillingInit
<1>3. AtRest \in RequestStates /\ AtRest.pc = "idle"
  BY DEF AtRest, RequestStates
<1>4. AdminIdle \in AdminStates /\ AdminIdle.pc = "idle"
  BY DEF AdminIdle, AdminStates, NoRow, Rows
<1>5. worker \in WorkerStates /\ worker.pc = "idle"
  BY DEF BillingInit, WorkerStates
<1>6. statsCh \in Seq(Updates) /\ Len(statsCh) <= StatsCap
  BY BillingAssumption DEF BillingInit
<1> QED BY <1>1, <1>2, <1>3, <1>4, <1>5, <1>6 DEF BillingInit, BillingTypeOK

LEMMA TypeStep == BillingTypeOK /\ [BillingNext]_billingVars => BillingTypeOK'
<1> SUFFICES ASSUME BillingTypeOK, [BillingNext]_billingVars PROVE BillingTypeOK'
  OBVIOUS
<1>1. CASE Shutdown \/ CloseShutdownCh \/ CloseStore
  BY <1>1 DEF Shutdown, CloseShutdownCh, CloseStore, SetsFlag, ClosesCh, ClosesStore,
              Unattended, BillingTypeOK
<1>2. CASE Tick
  BY <1>2 DEF Tick, BillingTypeOK
<1>3. CASE UNCHANGED billingVars
  BY <1>3 DEF billingVars, BillingTypeOK
<1> QED BY <1>1, <1>2, <1>3, RequestTyped, WorkerTyped, AdminTyped DEF BillingNext

(* Type correctness of the rows, the entries, the queue and everybody who  *)
(* has an update in hand (TokenBilling).                                   *)
THEOREM BillingTypeCorrect == BillingSpec => []BillingTypeOK
BY TypeInit, TypeStep, PTL DEF BillingSpec

-----------------------------------------------------------------------------
(* One holder for every bill.  A request has a bill in hand from its       *)
(* answer until the bill is queued, written or dropped, the worker while   *)
(* it writes.                                                              *)

Holding(r) == req[r].pc \in {"finished", "send", "apply"} /\ req[r].upd.bill # NoBill
Writing    == worker.pc = "apply" /\ worker.upd.bill # NoBill
Bill(i)    == statsCh[i].bill

Outstanding == HeldBills \cup QueuedBills \cup WorkerBills

InHand(u) ==
    /\ u.bill # NoBill
    /\ \/ \E r \in Requests : Holding(r) /\ req[r].upd = u
       \/ \E i \in DOMAIN statsCh : statsCh[i] = u
       \/ Writing /\ worker.upd = u

(* Nothing is in hand before the answer, and every bill has a number that  *)
(* was issued.                                                             *)
Numbered ==
    /\ issued <= MaxBills
    /\ \A r \in Requests :
         /\ req[r].pc \in {"evict", "check", "upstream"} => req[r].upd.bill = NoBill
         /\ Holding(r) => req[r].upd.bill <= issued
    /\ \A i \in DOMAIN statsCh : Bill(i) <= issued
    /\ Writing => worker.upd.bill <= issued
    /\ \A v \in charged \cup lost : v.bill # NoBill /\ v.bill <= issued

OneHolder ==
    /\ \A q, r \in Requests :
         Holding(q) /\ Holding(r) /\ req[q].upd.bill = req[r].upd.bill => q = r
    /\ \A i, j \in DOMAIN statsCh : Bill(i) # NoBill /\ Bill(i) = Bill(j) => i = j
    /\ \A r \in Requests, i \in DOMAIN statsCh : Holding(r) => req[r].upd.bill # Bill(i)
    /\ Writing =>
         /\ \A r \in Requests : Holding(r) => req[r].upd.bill # worker.upd.bill
         /\ \A i \in DOMAIN statsCh : Bill(i) # worker.upd.bill

NotSettled ==
    \A v \in charged \cup lost :
      /\ \A r \in Requests : Holding(r) => req[r].upd.bill # v.bill
      /\ \A i \in DOMAIN statsCh : Bill(i) # v.bill
      /\ Writing => worker.upd.bill # v.bill

BillsInv == Numbered /\ OneHolder /\ NotSettled

LedgerStep == [Ledger!LedgerNext]_(Ledger!ledgerVars)

LEMMA OutstandingInHand == \A u : u \in Outstanding <=> InHand(u)
<1> TAKE u
<1>1. u \in HeldBills <=> u.bill # NoBill /\ \E r \in Requests : Holding(r) /\ req[r].upd = u
  BY DEF HeldBills, Billed, Holding
<1>2. u \in QueuedBills <=> u.bill # NoBill /\ \E i \in DOMAIN statsCh : statsCh[i] = u
  BY DEF QueuedBills, Billed
<1>3. u \in WorkerBills <=> u.bill # NoBill /\ Writing /\ worker.upd = u
  BY DEF WorkerBills, Billed, Writing
<1> QED BY <1>1, <1>2, <1>3 DEF Outstanding, InHand

LEMMA OutstandingInHandNext == (\A u : u \in Outstanding <=> InHand(u))'
BY OutstandingInHand, PTL

(* A step that leaves everything in the hands it was in.                   *)
LEMMA QuietStep ==
    ASSUME BillsInv,
           \A r \in Requests :
             /\ Holding(r)' <=> Holding(r)
             /\ Holding(r) => req'[r].upd = req[r].upd
             /\ req'[r].pc \in {"evict", "check", "upstream"} => req'[r].upd.bill = NoBill,
           Writing' <=> Writing,
           Writing => worker'.upd = worker.upd,
           UNCHANGED <<statsCh, issued, charged, lost>>
    PROVE  BillsInv' /\ LedgerStep
<1>1. Numbered'
  BY DEF BillsInv, Numbered, Bill
<1>2. OneHolder'
  BY DEF BillsInv, OneHolder, Bill
<1>3. NotSettled'
  BY DEF BillsInv, NotSettled, Bill
<1>4. \A u : InHand(u)' <=> InHand(u)
  BY DEF InHand
<1>5. Outstanding' = Outstanding
  BY <1>4, OutstandingInHand, OutstandingInHandNext
<1> QED BY <1>1, <1>2, <1>3, <1>5 DEF BillsInv, LedgerStep, Ledger!ledgerVars, Outstanding

(* A successful answer opens a bill with a number nobody has.              *)
LEMMA IssueStep ==
    ASSUME BillingTypeOK, BillsInv, NEW r \in Requests, req[r].pc = "upstream",
           issued < MaxBills, issued' = issued + 1,
           req' = [req EXCEPT ![r] = [pc  |-> "finished",
                                      upd |-> [token |-> @.upd.token, bill |-> issued + 1]]],
           UNCHANGED <<statsCh, worker, charged, lost>>
    PROVE  BillsInv' /\ LedgerStep
<1> DEFINE u == [token |-> req[r].upd.token, bill |-> issued + 1]
<1>1. /\ req'[r].pc = "finished" /\ req'[r].upd = u
      /\ \A q \in Requests \ {r} : req'[q] = req[q]
      /\ issued \in Nat /\ MaxBills \in Nat
      /\ req[r].upd.token \in Tokens
      /\ \A q \in Requests : Holding(q) => req[q].upd.bill \in Nat
      /\ \A i \in DOMAIN statsCh : Bill(i) \in Nat
      /\ Writing => worker.upd.bill \in Nat
      /\ \A v \in charged \cup lost : v.bill \in Nat
  <2>1. \A v \in Updates : v.bill \in Nat /\ v.token \in Tokens
    BY DEF Updates
  <2>2. \A q \in Requests : req[q].pc # "idle" => req[q].upd \in Updates
    BY DEF BillingTypeOK
  <2>3. \A i \in DOMAIN statsCh : statsCh[i] \in Updates
    BY DEF BillingTypeOK
  <2>4. Writing => worker.upd \in Updates
    BY DEF BillingTypeOK, Writing
  <2>5. charged \cup lost \subseteq Updates /\ issued \in Nat /\ MaxBills \in Nat
    BY BillingAssumption DEF BillingTypeOK
  <2>6. /\ req'[r].pc = "finished" /\ req'[r].upd = u
        /\ \A q \in Requests \ {r} : req'[q] = req[q]
    BY DEF BillingTypeOK
  <2> HIDE DEF u
  <2> QED BY <2>1, <2>2, <2>3, <2>4, <2>5, <2>6 DEF Holding, Bill
<1>2. /\ u.bill = issued + 1 /\ u.bill # NoBill
      /\ u \in [token : Tokens, bill : 1 .. MaxBills]
  BY <1>1 DEF NoBill
<1>3. /\ ~Holding(r) /\ Holding(r)'
      /\ \A q \in Requests \ {r} : Holding(q)' <=> Holding(q)
      /\ Writing' <=> Writing
      /\ \A i \in DOMAIN statsCh : Bill(i)' = Bill(i)
  BY <1>1, <1>2 DEF Holding, Writing, Bill
<1> HIDE DEF u
<1>4. Numbered'
  BY <1>1, <1>2, <1>3 DEF BillsInv, Numbered
<1>5. OneHolder'
  <2>1. \A q \in Requests : Holding(q) => req[q].upd.bill # u.bill
    BY <1>1, <1>2 DEF BillsInv, Numbered
  <2>2. \A i \in DOMAIN statsCh : Bill(i) # u.bill
    BY <1>1, <1>2 DEF BillsInv, Numbered
  <2>3. Writing => worker.upd.bill # u.bill
    BY <1>1, <1>2 DEF BillsInv, Numbered
  <2> QED BY <1>1, <1>3, <2>1, <2>2, <2>3 DEF BillsInv, OneHolder
<1>6. NotSettled'
  <2>1. \A v \in charged \cup lost : v.bill # u.bill
    BY <1>1, <1>2 DEF BillsInv, Numbered
  <2> QED BY <1>1, <1>3, <2>1 DEF BillsInv, NotSettled
<1>7. \A v : InHand(v)' <=> InHand(v) \/ v = u
  BY <1>1, <1>2, <1>3 DEF InHand
<1>8. Outstanding' = Outstanding \cup {u}
  BY <1>7, OutstandingInHand, OutstandingInHandNext
<1>9. \A v \in Outstanding \cup charged \cup lost : v.bill # u.bill
  <2>1. ASSUME NEW v, InHand(v) PROVE v.bill <= issued /\ v.bill \in Nat
    BY <1>1, <2>1 DEF InHand, BillsInv, Numbered, Bill
  <2> QED BY <1>1, <1>2, <2>1, OutstandingInHand DEF BillsInv, Numbered
<1>10. Ledger!Open(u)
  BY <1>8, <1>9 DEF Ledger!Open, Outstanding
<1> QED BY <1>2, <1>4, <1>5, <1>6, <1>10 DEF BillsInv, LedgerStep, Ledger!LedgerNext

(* A request's bill moves to the end of the queue.                         *)
LEMMA SendStep ==
    ASSUME BillingTypeOK, BillsInv, NEW r \in Requests, req[r].pc = "send",
           statsCh' = Append(statsCh, req[r].upd), Reported(r),
           UNCHANGED <<issued, worker, charged, lost>>
    PROVE  BillsInv' /\ LedgerStep
<1> DEFINE u == req[r].upd
<1>1. /\ \A q \in Requests \ {r} : req'[q] = req[q]
      /\ ~Holding(r)'
      /\ req'[r].pc = "idle" \/ req'[r].upd.bill = NoBill
  BY DEF BillingTypeOK, Reported, Finish, AtRest, Holding, RequestStates
<1>2. PICK last \in Nat : last = Len(statsCh) + 1
  BY DEF BillingTypeOK
<1>3. /\ \A q \in Requests \ {r} : Holding(q)' <=> Holding(q)
      /\ Writing' <=> Writing
      /\ Holding(r) <=> u.bill # NoBill
  BY <1>1 DEF Holding, Writing
<1>4. issued \in Nat
  BY DEF BillingTypeOK
<1>5. /\ \A i \in DOMAIN statsCh : i \in DOMAIN statsCh' /\ Bill(i)' = Bill(i) /\ statsCh'[i] = statsCh[i]
      /\ \A i \in DOMAIN statsCh' : i \in DOMAIN statsCh \/ i = last
      /\ last \notin DOMAIN statsCh /\ last \in DOMAIN statsCh'
      /\ statsCh'[last] = u /\ Bill(last)' = u.bill
  <2>1. statsCh \in Seq(Updates) /\ u \in Updates
    BY DEF BillingTypeOK
  <2> HIDE DEF u
  <2>2. statsCh' = Append(statsCh, u)
    BY DEF u
  <2> QED BY <1>2, <2>1, <2>2 DEF Bill
<1>6. req[r].upd = u
  OBVIOUS
<1> HIDE DEF u
<1>7. Numbered'
  <2>1. u.bill <= issued
    BY <1>3, <1>4, <1>6 DEF BillsInv, Numbered, NoBill
  <2> QED BY <1>1, <1>3, <1>5, <1>6, <2>1 DEF BillsInv, Numbered
<1>8. OneHolder'
  <2>1. \A i, j \in DOMAIN statsCh' : Bill(i)' # NoBill /\ Bill(i)' = Bill(j)' => i = j
    BY <1>3, <1>5, <1>6 DEF BillsInv, OneHolder
  <2>2. \A q \in Requests, i \in DOMAIN statsCh' : Holding(q)' => req'[q].upd.bill # Bill(i)'
    <3>1. \A q \in Requests : Holding(q)' => q # r /\ Holding(q) /\ req'[q] = req[q] /\ req[q].upd.bill # NoBill
      BY <1>1, <1>3 DEF Holding
    <3> QED BY <1>3, <1>5, <1>6, <3>1 DEF BillsInv, OneHolder
  <2>3. Writing' =>
          /\ \A q \in Requests : Holding(q)' => req'[q].upd.bill # worker'.upd.bill
          /\ \A i \in DOMAIN statsCh' : Bill(i)' # worker'.upd.bill
    <3>1. Writing => worker.upd.bill # NoBill
      BY DEF Writing
    <3> QED BY <1>1, <1>3, <1>5, <1>6, <3>1 DEF BillsInv, OneHolder
  <2> QED BY <1>1, <1>3, <2>1, <2>2, <2>3 DEF BillsInv, OneHolder
<1>9. NotSettled'
  <2>1. \A v \in charged \cup lost : v.bill # NoBill
    BY DEF BillsInv, Numbered
  <2> QED BY <1>1, <1>3, <1>5, <1>6, <2>1 DEF BillsInv, NotSettled
<1>10. \A v : InHand(v)' <=> InHand(v)
  BY <1>1, <1>3, <1>5, <1>6 DEF InHand
<1>11. Outstanding' = Outstanding
  BY <1>10, OutstandingInHand, OutstandingInHandNext
<1> QED BY <1>7, <1>8, <1>9, <1>11 DEF BillsInv, LedgerStep, Ledger!ledgerVars, Outstanding

(* The head of the queue moves to the worker.                              *)
LEMMA TakeStep ==
    ASSUME BillingTypeOK, BillsInv, Takes, UNCHANGED <<req, issued>>
    PROVE  BillsInv' /\ LedgerStep
<1>1. /\ statsCh \in Seq(Updates) /\ statsCh # <<>>
      /\ statsCh' = Tail(statsCh)
      /\ worker'.pc = "apply" /\ worker'.upd = Head(statsCh)
      /\ ~Writing
      /\ UNCHANGED <<charged, lost>>
  BY DEF Takes, BillingTypeOK, Writing, WorkerStates, dbVars
<1>2. /\ 1 \in DOMAIN statsCh /\ worker'.upd = statsCh[1]
      /\ \A i \in DOMAIN statsCh' : /\ i + 1 \in DOMAIN statsCh /\ i + 1 # 1
                                    /\ statsCh'[i] = statsCh[i + 1]
                                    /\ Bill(i)' = Bill(i + 1)
      /\ \A i \in DOMAIN statsCh : i # 1 => i - 1 \in DOMAIN statsCh' /\ statsCh'[i - 1] = statsCh[i]
      /\ \A i, j \in DOMAIN statsCh' : i + 1 = j + 1 => i = j
  BY <1>1 DEF Bill
<1>3. Writing' <=> worker'.upd.bill # NoBill
  BY <1>1 DEF Writing
<1>4. \A r \in Requests : Holding(r)' <=> Holding(r)
  BY DEF Holding
<1>5. Bill(1) = worker'.upd.bill
  BY <1>2 DEF Bill
<1>6. Numbered'
  BY <1>1, <1>2, <1>3, <1>4, <1>5 DEF BillsInv, Numbered
<1>7. OneHolder'
  BY <1>1, <1>2, <1>3, <1>4, <1>5 DEF BillsInv, OneHolder
<1>8. NotSettled'
  BY <1>1, <1>2, <1>3, <1>4, <1>5 DEF BillsInv, NotSettled
<1>9. \A v : InHand(v)' <=> InHand(v)
  <2>1. \A v : (\E i \in DOMAIN statsCh : statsCh[i] = v) <=>
                  (\E i \in DOMAIN statsCh' : statsCh'[i] = v) \/ statsCh[1] = v
    BY <1>2
  <2> QED BY <1>1, <1>2, <1>3, <1>4, <2>1 DEF InHand
<1>10. Outstanding' = Outstanding
  BY <1>9, OutstandingInHand, OutstandingInHandNext
<1> QED BY <1>1, <1>6, <1>7, <1>8, <1>10 DEF BillsInv, LedgerStep, Ledger!ledgerVars, Outstanding

(* A bill is charged or dropped by the request that has it ...             *)
LEMMA RequestSettles ==
    ASSUME BillingTypeOK, BillsInv, NEW r \in Requests, req[r].pc \in {"send", "apply"},
           \A q \in Requests \ {r} : req'[q] = req[q],
           ~Holding(r)',
           req'[r].pc \in {"evict", "check", "upstream"} => req'[r].upd.bill = NoBill,
           \/ charged' = charged \cup Billed(req[r].upd) /\ lost' = lost
           \/ lost' = lost \cup Billed(req[r].upd) /\ charged' = charged,
           UNCHANGED <<statsCh, issued, worker>>
    PROVE  BillsInv' /\ LedgerStep
<1>1. /\ \A q \in Requests \ {r} : Holding(q)' <=> Holding(q)
      /\ Writing' <=> Writing
      /\ \A i \in DOMAIN statsCh : Bill(i)' = Bill(i)
  BY DEF Holding, Writing, Bill
<1>2. CASE req[r].upd.bill = NoBill
  <2>1. ~Holding(r) /\ charged' = charged /\ lost' = lost
    BY <1>2 DEF Holding, Billed
  <2>2. \A q \in Requests : (Holding(q)' <=> Holding(q)) /\ (Holding(q) => req'[q].upd = req[q].upd)
    BY <1>1, <2>1
  <2>3. \A q \in Requests \ {r} : req'[q].pc \in {"evict", "check", "upstream"} => req'[q].upd.bill = NoBill
    BY DEF BillsInv, Numbered
  <2> QED BY <1>1, <2>1, <2>2, <2>3, QuietStep
<1>3. CASE req[r].upd.bill # NoBill
  <2> DEFINE u == req[r].upd
  <2>1. /\ Holding(r) /\ u.bill # NoBill /\ req[r].upd = u /\ u.bill <= issued
        /\ u \in Updates
        /\ \/ charged' = charged \cup {u} /\ lost' = lost
           \/ lost' = lost \cup {u} /\ charged' = charged
    BY <1>3 DEF Holding, Billed, BillsInv, Numbered, BillingTypeOK
  <2> HIDE DEF u
  <2>2. Numbered'
    BY <1>1, <2>1 DEF BillsInv, Numbered
  <2>3. OneHolder'
    BY <1>1 DEF BillsInv, OneHolder
  <2>4. NotSettled'
    BY <1>1, <2>1 DEF BillsInv, NotSettled, OneHolder
  <2>5. \A v : InHand(v)' <=> InHand(v) /\ v # u
    <3>1. /\ \A q \in Requests \ {r} : Holding(q) => req[q].upd # u
          /\ \A i \in DOMAIN statsCh : statsCh[i] # u
          /\ Writing => worker.upd # u
      BY <2>1 DEF BillsInv, OneHolder, Bill
    <3> QED BY <1>1, <2>1, <3>1 DEF InHand
  <2>6. u \in Outstanding /\ Outstanding' = Outstanding \ {u}
    <3>1. InHand(u)
      BY <2>1 DEF InHand
    <3> QED BY <2>5, <3>1, OutstandingInHand, OutstandingInHandNext
  <2>7. Ledger!Pay(u) \/ Ledger!Drop(u)
    BY <2>1, <2>6 DEF Ledger!Pay, Ledger!Drop, Outstanding
  <2>8. u \in [token : Tokens, bill : 1 .. MaxBills]
    <3>1. issued \in Nat /\ issued <= MaxBills /\ MaxBills \in Nat
      BY BillingAssumption DEF BillsInv, Numbered, BillingTypeOK
    <3> QED BY <2>1, <3>1 DEF Updates, NoBill
  <2> QED BY <2>2, <2>3, <2>4, <2>7, <2>8 DEF BillsInv, LedgerStep, Ledger!LedgerNext
<1> QED BY <1>2, <1>3

(* ... or by the worker.                                                   *)
LEMMA WorkerSettles ==
    ASSUME BillingTypeOK, BillsInv, worker.pc = "apply",
           worker'.pc # "apply",
           \/ charged' = charged \cup Billed(worker.upd) /\ lost' = lost
           \/ lost' = lost \cup Billed(worker.upd) /\ charged' = charged,
           UNCHANGED <<statsCh, issued, req>>
    PROVE  BillsInv' /\ LedgerStep
<1>1. /\ \A q \in Requests : Holding(q)' <=> Holding(q)
      /\ ~Writing'
      /\ \A i \in DOMAIN statsCh : Bill(i)' = Bill(i)
  BY DEF Holding, Writing, Bill
<1>2. CASE worker.upd.bill = NoBill
  <2>1. ~Writing /\ charged' = charged /\ lost' = lost
    BY <1>2 DEF Writing, Billed
  <2>2. \A q \in Requests : req'[q].pc \in {"evict", "check", "upstream"} => req'[q].upd.bill = NoBill
    BY DEF BillsInv, Numbered
  <2> QED BY <1>1, <2>1, <2>2, QuietStep
<1>3. CASE worker.upd.bill # NoBill
  <2> DEFINE u == worker.upd
  <2>1. /\ Writing /\ u.bill # NoBill /\ worker.upd = u /\ u.bill <= issued
        /\ u \in Updates
        /\ \/ charged' = charged \cup {u} /\ lost' = lost
           \/ lost' = lost \cup {u} /\ charged' = charged
    BY <1>3 DEF Writing, Billed, BillsInv, Numbered, BillingTypeOK
  <2> HIDE DEF u
  <2>2. Numbered'
    BY <1>1, <2>1 DEF BillsInv, Numbered
  <2>3. OneHolder'
    BY <1>1 DEF BillsInv, OneHolder
  <2>4. NotSettled'
    BY <1>1, <2>1 DEF BillsInv, NotSettled, OneHolder
  <2>5. \A v : InHand(v)' <=> InHand(v) /\ v # u
    <3>1. /\ \A q \in Requests : Holding(q) => req[q].upd # u
          /\ \A i \in DOMAIN statsCh : statsCh[i] # u
      BY <2>1 DEF BillsInv, OneHolder, Bill
    <3> QED BY <1>1, <2>1, <3>1 DEF InHand
  <2>6. u \in Outstanding /\ Outstanding' = Outstanding \ {u}
    <3>1. InHand(u)
      BY <2>1 DEF InHand
    <3> QED BY <2>5, <3>1, OutstandingInHand, OutstandingInHandNext
  <2>7. Ledger!Pay(u) \/ Ledger!Drop(u)
    BY <2>1, <2>6 DEF Ledger!Pay, Ledger!Drop, Outstanding
  <2>8. u \in [token : Tokens, bill : 1 .. MaxBills]
    <3>1. issued \in Nat /\ issued <= MaxBills /\ MaxBills \in Nat
      BY BillingAssumption DEF BillsInv, Numbered, BillingTypeOK
    <3> QED BY <2>1, <3>1 DEF Updates, NoBill
  <2> QED BY <2>2, <2>3, <2>4, <2>7, <2>8 DEF BillsInv, LedgerStep, Ledger!LedgerNext
<1> QED BY <1>2, <1>3

LEMMA RequestKeepsLedger ==
    ASSUME BillingTypeOK, BillsInv, NEW r \in Requests, Arrive(r) \/ RequestStep(r)
    PROVE  BillsInv' /\ LedgerStep
<1>1. /\ UNCHANGED worker
      /\ DOMAIN req = Requests
      /\ req[r].pc \in {"evict", "check", "upstream"} => req[r].upd.bill = NoBill
      /\ \A q \in Requests : req[q].pc \in {"evict", "check", "upstream"} => req[q].upd.bill = NoBill
  BY DEF Arrive, RequestStep, BillingTypeOK, BillsInv, Numbered
<1>2. ASSUME NEW x, req' = [req EXCEPT ![r] = x],
             x.pc \notin {"finished", "send", "apply"} \/ x.upd.bill = NoBill,
             ~Holding(r),
             x.pc \in {"evict", "check", "upstream"} => x.upd.bill = NoBill,
             UNCHANGED <<statsCh, issued, charged, lost>>
      PROVE  BillsInv' /\ LedgerStep
  <2>1. req'[r] = x /\ \A q \in Requests \ {r} : req'[q] = req[q]
    BY <1>1, <1>2
  <2>2. /\ \A q \in Requests :
             /\ Holding(q)' <=> Holding(q)
             /\ Holding(q) => req'[q].upd = req[q].upd
             /\ req'[q].pc \in {"evict", "check", "upstream"} => req'[q].upd.bill = NoBill
        /\ Writing' <=> Writing
    BY <1>1, <1>2, <2>1 DEF Holding, Writing
  <2> QED BY <1>1, <1>2, <2>2, QuietStep
<1>3. AtRest.pc = "idle"
  BY DEF AtRest
<1>4. ASSUME NEW t \in Tokens, Authenticate(r, t)
      PROVE  BillsInv' /\ LedgerStep
  <2>1. ~Holding(r)
    BY <1>4 DEF Authenticate, Holding
  <2> QED BY <1>2, <1>4, <2>1 DEF Authenticate, dbVars
<1>5. CASE Evict(r)
  <2>1. ~Holding(r)
    BY <1>5 DEF Evict, Holding
  <2> QED BY <1>2, <1>3, <1>5, <2>1 DEF Evict, Finish, dbVars
<1>6. CASE CheckLimit(r)
  <2>1. ~Holding(r) /\ req[r].upd.bill = NoBill
    BY <1>1, <1>6 DEF CheckLimit, Holding
  <2>2. /\ req' = [req EXCEPT ![r] = AtRest] \/ req' = [req EXCEPT ![r] = [req[r] EXCEPT !.pc = "upstream"]]
        /\ UNCHANGED <<statsCh, issued, charged, lost>>
    BY <1>6 DEF CheckLimit, Finish, Goto, dbVars
  <2>3. LET x == [req[r] EXCEPT !.pc = "upstream"]
        IN  x.upd.bill = NoBill
    BY <2>1 DEF BillingTypeOK, RequestStates
  <2> QED BY <1>2, <1>3, <2>1, <2>2, <2>3
<1>7. CASE Answered(r)
  <2>1. ~Holding(r) /\ req[r].upd.bill = NoBill /\ req[r].pc = "upstream"
        /\ UNCHANGED <<statsCh, charged, lost>>
    BY <1>1, <1>7 DEF Answered, Holding, dbVars
  <2>2. [req[r] EXCEPT !.pc = "finished"].pc = "finished" /\ [req[r] EXCEPT !.pc = "finished"].upd.bill = NoBill
    BY <2>1 DEF BillingTypeOK, RequestStates
  <2>3. CASE issued < MaxBills /\ issued' = issued + 1
             /\ req' = [req EXCEPT ![r] = [pc  |-> "finished",
                                           upd |-> [token |-> @.upd.token, bill |-> issued + 1]]]
    BY <1>1, <2>1, <2>3, IssueStep
  <2>4. CASE req' = [req EXCEPT ![r] = AtRest] /\ UNCHANGED issued
    BY <1>2, <1>3, <2>1, <2>4
  <2>5. CASE req' = [req EXCEPT ![r] = [req[r] EXCEPT !.pc = "finished"]] /\ UNCHANGED issued
    BY <1>2, <2>1, <2>2, <2>5
  <2> QED BY <1>7, <2>3, <2>4, <2>5 DEF Answered, Finish, Goto
<1>8. CASE LookAtShutdown(r)
  <2>1. /\ req'[r].pc \in {"send", "apply"} /\ req'[r].upd = req[r].upd /\ req[r].pc = "finished"
        /\ \A q \in Requests \ {r} : req'[q] = req[q]
        /\ UNCHANGED <<statsCh, issued, charged, lost>>
    BY <1>8 DEF LookAtShutdown, Goto, BillingTypeOK, RequestStates, dbVars
  <2>2. /\ \A q \in Requests :
             /\ Holding(q)' <=> Holding(q)
             /\ Holding(q) => req'[q].upd = req[q].upd
             /\ req'[q].pc \in {"evict", "check", "upstream"} => req'[q].upd.bill = NoBill
        /\ Writing' <=> Writing
    BY <1>1, <2>1 DEF Holding, Writing
  <2> QED BY <1>1, <2>1, <2>2, QuietStep
<1>9. ASSUME Reported(r), req[r].pc \in {"send", "apply"}
      PROVE  /\ \A q \in Requests \ {r} : req'[q] = req[q]
             /\ ~Holding(r)'
             /\ req'[r].pc \in {"evict", "check", "upstream"} => req'[r].upd.bill = NoBill
  BY <1>1, <1>9 DEF Reported, Finish, AtRest, Holding, BillingTypeOK, RequestStates
<1>10. CASE Send(r)
  <2>1. req[r].pc = "send" /\ Reported(r) /\ UNCHANGED <<issued, worker, charged>>
    BY <1>1, <1>10 DEF Send
  <2>2. CASE statsCh' = Append(statsCh, req[r].upd) /\ UNCHANGED lost
    BY <2>1, <2>2, SendStep
  <2>3. CASE lost' = lost \cup Billed(req[r].upd) /\ UNCHANGED statsCh
    BY <1>9, <2>1, <2>3, RequestSettles
  <2> QED BY <1>10, <2>2, <2>3 DEF Send
<1>11. CASE ApplyItself(r)
  <2>1. /\ req[r].pc = "apply" /\ UNCHANGED <<statsCh, issued, worker>>
        /\ \/ charged' = charged \cup Billed(req[r].upd) /\ lost' = lost
           \/ lost' = lost \cup Billed(req[r].upd) /\ charged' = charged
    BY <1>1, <1>11 DEF ApplyItself, ChargeRow, ChargeFails
  <2>2. CASE Reported(r)
    BY <1>9, <2>1, <2>2, RequestSettles
  <2>3. CASE Goto(r, "credit")
    <3>1. /\ \A q \in Requests \ {r} : req'[q] = req[q]
          /\ req'[r].pc = "credit"
      BY <1>1, <2>3 DEF Goto, BillingTypeOK, RequestStates
    <3> QED BY <2>1, <3>1, RequestSettles DEF Holding
  <2> QED BY <1>11, <2>2, <2>3 DEF ApplyItself
<1>12. CASE CreditItself(r)
  <2>1. ~Holding(r)
    BY <1>12 DEF CreditItself, Holding
  <2> QED BY <1>2, <1>3, <1>12, <2>1 DEF CreditItself, Finish, dbVars
<1> QED BY <1>4, <1>5, <1>6, <1>7, <1>8, <1>10, <1>11, <1>12 DEF Arrive, RequestStep

LEMMA OthersKeepLedger ==
    ASSUME BillsInv, UNCHANGED <<req, statsCh, issued, charged, lost>>,
           \/ UNCHANGED worker
           \/ worker.pc # "apply" /\ worker'.pc # "apply"
    PROVE  BillsInv' /\ LedgerStep
<1>1. /\ \A q \in Requests :
           /\ Holding(q)' <=> Holding(q)
           /\ Holding(q) => req'[q].upd = req[q].upd
           /\ req'[q].pc \in {"evict", "check", "upstream"} => req'[q].upd.bill = NoBill
      /\ Writing' <=> Writing
      /\ Writing => worker'.upd = worker.upd
  BY DEF Holding, Writing, BillsInv, Numbered
<1> QED BY <1>1, QuietStep

LEMMA WorkerKeepsLedger ==
    ASSUME BillingTypeOK, BillsInv, WorkerStep
    PROVE  BillsInv' /\ LedgerStep
<1>1. UNCHANGED <<req, issued>> /\ worker \in WorkerStates
  BY DEF WorkerStep, BillingTypeOK
<1>2. Back => worker'.pc # "apply"
  BY <1>1 DEF Back, WorkerStates
<1>3. CASE Takes
  BY <1>1, <1>3, TakeStep
<1>4. CASE Applies
  <2>1. /\ worker.pc = "apply" /\ worker'.pc # "apply"
        /\ UNCHANGED statsCh
        /\ \/ charged' = charged \cup Billed(worker.upd) /\ lost' = lost
           \/ lost' = lost \cup Billed(worker.upd) /\ charged' = charged
    BY <1>1, <1>2, <1>4 DEF Applies, ChargeRow, ChargeFails, WorkerStates
  <2> QED BY <1>1, <2>1, WorkerSettles
<1>5. CASE Credits \/ SeesShutdown \/ Stops
  <2>1. /\ worker.pc # "apply" /\ worker'.pc # "apply"
        /\ UNCHANGED <<statsCh, charged, lost>>
    BY <1>1, <1>2, <1>5 DEF Credits, SeesShutdown, Stops, WorkerStates, dbVars
  <2> QED BY <1>1, <2>1, OthersKeepLedger
<1> QED BY <1>3, <1>4, <1>5 DEF WorkerStep

LEMMA LedgerInitially == BillingInit => BillsInv /\ Ledger!LedgerInit
<1> SUFFICES ASSUME BillingInit PROVE BillsInv /\ Ledger!LedgerInit
  OBVIOUS
<1>1. /\ \A r \in Requests : ~Holding(r) /\ req[r].pc = "idle"
      /\ ~Writing /\ statsCh = <<>> /\ charged = {} /\ lost = {} /\ issued = 0
  BY DEF BillingInit, AtRest, Holding, Writing
<1>2. BillsInv
  BY <1>1, BillingAssumption DEF BillsInv, Numbered, OneHolder, NotSettled
<1>3. Outstanding = {}
  <2>1. \A u : ~InHand(u)
    BY <1>1 DEF InHand
  <2> QED BY <2>1, OutstandingInHand
<1> QED BY <1>1, <1>2, <1>3 DEF Ledger!LedgerInit, Outstanding

LEMMA LedgerNextStep ==
    BillingTypeOK /\ BillsInv /\ [BillingNext]_billingVars => BillsInv' /\ LedgerStep
<1> SUFFICES ASSUME BillingTypeOK, BillsInv, [BillingNext]_billingVars
             PROVE  BillsInv' /\ LedgerStep
  OBVIOUS
<1>1. ASSUME NEW a \in Admins, AdminBegins(a) \/ AdminStep(a)
      PROVE  UNCHANGED <<req, statsCh, issued, charged, lost, worker>>
  BY <1>1 DEF AdminBegins, AdminStep, CreatesToken, DeletesToken, ReadsToken, WritesToken,
              SelectsTokens, ReplacesEntries, dbVars
<1>2. ASSUME Shutdown \/ CloseShutdownCh \/ CloseStore \/ Tick \/ UNCHANGED billingVars
      PROVE  UNCHANGED <<req, statsCh, issued, charged, lost, worker>>
  BY <1>2 DEF Shutdown, CloseShutdownCh, CloseStore, Unattended, Tick, billingVars
<1> QED BY <1>1, <1>2, OthersKeepLedger, RequestKeepsLedger, WorkerKeepsLedger DEF BillingNext

(* Every bill is opened once, has one holder at a time and is charged to   *)
(* its token or dropped, once: the queue, the worker, the shutdown and the *)
(* administrators' handlers implement the ledger.                          *)
THEOREM BillingKeepsLedger == BillingSpec => KeepsLedger
<1>1. BillingInit => BillsInv /\ Ledger!LedgerInit
  BY LedgerInitially
<1>2. BillingTypeOK /\ BillsInv /\ [BillingNext]_billingVars
        => BillsInv' /\ [Ledger!LedgerNext]_(Ledger!ledgerVars)
  BY LedgerNextStep DEF LedgerStep
<1> QED BY <1>1, <1>2, BillingTypeCorrect, PTL DEF BillingSpec, KeepsLedger, Ledger!LedgerSpec

-----------------------------------------------------------------------------
(* The used cost of a row is the number of its bills: a bill is charged    *)
(* once, to a row that is there, and no other statement touches the cost.  *)

Of(t) == {u \in charged : u.token = t}

UsedInv == IsFiniteSet(charged) /\ ChargedOnce

LEMMA ChargeAdds ==
    ASSUME BillingTypeOK, UsedInv, NEW u \in Updates,
           u.bill # NoBill => u \notin charged,
           ChargeRow(u)
    PROVE  UsedInv'
<1>1. row[u.token] \in Rows /\ u.token \in Tokens /\ DOMAIN row = Tokens
  BY DEF BillingTypeOK, Updates
<1>2. \A t \in Tokens : IsFiniteSet(Of(t)) /\ row[t].used = Cardinality(Of(t)) /\ row[t].used \in Nat
  <2>1. \A t \in Tokens : Of(t) \in SUBSET charged
    BY DEF Of
  <2>2. \A t \in Tokens : row[t].used \in Nat
    BY DEF BillingTypeOK, Rows
  <2> QED BY <2>1, <2>2, FS_Subset DEF UsedInv, ChargedOnce, Of
<1>3. CASE u.bill = NoBill
  <2>1. Billed(u) = {} /\ Cardinality({}) = 0
    BY <1>3, FS_EmptySet DEF Billed
  <2>2. charged' = charged /\ row' = [row EXCEPT ![u.token].used = @ + 0]
    BY <2>1 DEF ChargeRow
  <2>3. \A t \in Tokens : row'[t].used = row[t].used
    BY <1>1, <1>2, <2>2 DEF Rows
  <2> QED BY <2>2, <2>3 DEF UsedInv, ChargedOnce
<1>4. CASE u.bill # NoBill
  <2>1. Billed(u) = {u} /\ Cardinality({u}) = 1
    BY <1>4, FS_Singleton DEF Billed
  <2>2. charged' = charged \cup {u} /\ row' = [row EXCEPT ![u.token].used = @ + 1]
    BY <2>1 DEF ChargeRow
  <2>3. /\ row'[u.token].used = row[u.token].used + 1
        /\ \A t \in Tokens \ {u.token} : row'[t].used = row[t].used
    BY <1>1, <1>2, <2>2 DEF Rows
  <2>4. Of(u.token)' = Of(u.token) \cup {u} /\ u \notin Of(u.token)
    BY <1>4, <2>2 DEF Of
  <2>5. \A t \in Tokens \ {u.token} : Of(t)' = Of(t)
    BY <2>2 DEF Of
  <2>6. Cardinality(Of(u.token)') = Cardinality(Of(u.token)) + 1
    BY <1>1, <1>2, <2>4, FS_AddElement
  <2>7. IsFiniteSet(charged')
    BY <2>2, FS_AddElement DEF UsedInv
  <2>8. \A t \in Tokens : row'[t].used = Cardinality(Of(t)')
    BY <1>1, <1>2, <2>3, <2>5, <2>6
  <2> QED BY <2>7, <2>8 DEF UsedInv, ChargedOnce, Of
<1> QED BY <1>3, <1>4

LEMMA CostUntouched ==
    ASSUME UsedInv, UNCHANGED charged, \A t \in Tokens : row'[t].used = row[t].used
    PROVE  UsedInv'
BY DEF UsedInv, ChargedOnce

LEMMA AdminLeavesCost ==
    ASSUME BillingTypeOK, NEW a \in Admins, AdminBegins(a) \/ AdminStep(a)
    PROVE  charged' = charged /\ \A t \in Tokens : row'[t].used = row[t].used
<1>1. row \in [Tokens -> Rows]
  BY DEF BillingTypeOK
<1>2. ASSUME NEW t \in Tokens, CreatesToken(a, t) \/ DeletesToken(a, t) \/ ReadsToken(a, t)
      PROVE  charged' = charged /\ \A s \in Tokens : row'[s].used = row[s].used
  BY <1>1, <1>2 DEF CreatesToken, DeletesToken, ReadsToken, dbVars, Rows
<1>3. CASE WritesToken(a)
  <2> DEFINE new(b, l, e) ==
               [row[admin[a].token] EXCEPT !.active = b, !.limit = l, !.expires = e]
  <2>1. \/ row' = row
        \/ \E b \in BOOLEAN, l \in Limits \cup {admin[a].old.limit},
              e \in Expiries \cup {admin[a].old.expires} :
               row' = [row EXCEPT ![admin[a].token] = new(b, l, e)]
    BY <1>3 DEF WritesToken
  <2>2. admin[a].token \in Tokens
    BY <1>3 DEF WritesToken, BillingTypeOK
  <2>3. row[admin[a].token] \in Rows
    BY <1>1, <2>2
  <2>4. \A b, l, e : new(b, l, e).used = row[admin[a].token].used
    BY <2>3 DEF Rows
  <2>5. ASSUME NEW x, x.used = row[admin[a].token].used
        PROVE  \A t \in Tokens : [row EXCEPT ![admin[a].token] = x][t].used = row[t].used
    BY <1>1, <2>5
  <2> HIDE DEF new
  <2>6. charged' = charged
    BY <1>3 DEF WritesToken
  <2>7. ASSUME NEW x, x.used = row[admin[a].token].used, row' = [row EXCEPT ![admin[a].token] = x]
        PROVE  \A t \in Tokens : row'[t].used = row[t].used
    BY <2>5, <2>7
  <2>8. CASE row' = row
    BY <2>6, <2>8
  <2>9. ASSUME NEW b \in BOOLEAN, NEW l \in Limits \cup {admin[a].old.limit},
               NEW e \in Expiries \cup {admin[a].old.expires},
               row' = [row EXCEPT ![admin[a].token] = new(b, l, e)]
        PROVE  \A t \in Tokens : row'[t].used = row[t].used
    BY <2>4, <2>7, <2>9
  <2> QED BY <2>1, <2>6, <2>8, <2>9
<1>4. CASE SelectsTokens(a) \/ ReplacesEntries(a)
  BY <1>4 DEF SelectsTokens, ReplacesEntries, dbVars
<1> QED BY <1>2, <1>3, <1>4 DEF AdminBegins, AdminStep

LEMMA UsedStep ==
    BillingTypeOK /\ BillsInv /\ UsedInv /\ [BillingNext]_billingVars => UsedInv'
<1> SUFFICES ASSUME BillingTypeOK, BillsInv, UsedInv, [BillingNext]_billingVars PROVE UsedInv'
  OBVIOUS
<1>1. ASSUME NEW r \in Requests, Arrive(r) \/ RequestStep(r)
      PROVE  UsedInv'
  <2>1. CASE ApplyItself(r)
    <3>1. req[r].upd \in Updates /\ req[r].pc = "apply"
      BY <2>1 DEF ApplyItself, BillingTypeOK
    <3>2. req[r].upd.bill # NoBill => req[r].upd \notin charged
      BY <3>1 DEF BillsInv, NotSettled, Holding
    <3>3. ChargeRow(req[r].upd) \/ UNCHANGED <<row, charged>>
      BY <2>1 DEF ApplyItself, ChargeFails
    <3> QED BY <3>1, <3>2, <3>3, ChargeAdds, CostUntouched
  <2>2. CASE ~ApplyItself(r)
    <3>1. UNCHANGED <<row, charged>>
      BY <1>1, <2>2 DEF Arrive, RequestStep, Authenticate, Evict, CheckLimit, Answered,
                        LookAtShutdown, Send, CreditItself, dbVars
    <3> QED BY <3>1, CostUntouched
  <2> QED BY <2>1, <2>2
<1>2. CASE WorkerStep
  <2>1. CASE Applies
    <3>1. worker.upd \in Updates /\ worker.pc = "apply"
      BY <2>1 DEF Applies, BillingTypeOK
    <3>2. worker.upd.bill # NoBill => worker.upd \notin charged
      BY <3>1 DEF BillsInv, NotSettled, Writing
    <3>3. ChargeRow(worker.upd) \/ UNCHANGED <<row, charged>>
      BY <2>1 DEF Applies, ChargeFails
    <3> QED BY <3>1, <3>2, <3>3, ChargeAdds, CostUntouched
  <2>2. CASE ~Applies
    <3>1. UNCHANGED <<row, charged>>
      BY <1>2, <2>2 DEF WorkerStep, Takes, Credits, SeesShutdown, Stops, dbVars
    <3> QED BY <3>1, CostUntouched
  <2> QED BY <2>1, <2>2
<1>3. ASSUME NEW a \in Admins, AdminBegins(a) \/ AdminStep(a)
      PROVE  UsedInv'
  BY <1>3, AdminLeavesCost, CostUntouched
<1>4. CASE Shutdown \/ CloseShutdownCh \/ CloseStore \/ Tick \/ UNCHANGED billingVars
  <2>1. UNCHANGED <<row, charged>>
    BY <1>4 DEF Shutdown, CloseShutdownCh, CloseStore, Unattended, Tick, billingVars
  <2> QED BY <2>1, CostUntouched
<1> QED BY <1>1, <1>2, <1>3, <1>4 DEF BillingNext

LEMMA UsedInitially == BillingInit => UsedInv
<1> SUFFICES ASSUME BillingInit PROVE UsedInv
  OBVIOUS
<1>1. charged = {} /\ \A t \in Tokens : row[t].used = 0
  BY DEF BillingInit
<1>2. \A t \in Tokens : {u \in charged : u.token = t} = {}
  BY <1>1
<1> QED BY <1>1, <1>2, FS_EmptySet DEF UsedInv, ChargedOnce

(* The cost in a row is the number of bills of its token that were         *)
(* charged, whoever wrote them and whatever administrators write meanwhile.*)
THEOREM UsedIsCharged == BillingSpec => []ChargedOnce
<1>1. BillingInit => BillsInv
  BY LedgerInitially
<1>2. BillingTypeOK /\ BillsInv /\ [BillingNext]_billingVars => BillsInv'
  BY LedgerNextStep
<1>3. UsedInv => ChargedOnce
  BY DEF UsedInv
<1> QED BY <1>1, <1>2, <1>3, UsedInitially, UsedStep, BillingTypeCorrect, PTL DEF BillingSpec

-----------------------------------------------------------------------------
(* Revoked tokens.  With one handler at a time nothing changes a row       *)
(* between the SELECT of a reload and the replacement of the map.          *)

Accepted(map) == \A t \in Tokens : map[t] # NoEntry => Present(t) /\ row[t].active

ReloadInv ==
    /\ (\A a \in Admins : admin[a].pc \in {"idle", "write"}) /\ ~behind => Accepted(entry)
    /\ \A a \in Admins : admin[a].pc = "replace" => Accepted(admin[a].new)

(* Steps that revoke nothing and add no entry.                             *)
LEMMA NothingRevoked ==
    ASSUME ReloadInv, UNCHANGED <<admin, behind>>,
           \A t \in Tokens : /\ row'[t].state = row[t].state /\ row'[t].active = row[t].active
                             /\ entry'[t] # NoEntry => entry[t] # NoEntry
    PROVE  ReloadInv'
BY DEF ReloadInv, Accepted, Present

LEMMA ChargeRevokesNothing ==
    ASSUME BillingTypeOK, NEW u \in Updates, ChargeRow(u) \/ ChargeFails(u)
    PROVE  \A t \in Tokens : row'[t].state = row[t].state /\ row'[t].active = row[t].active
<1>1. row \in [Tokens -> Rows] /\ u.token \in Tokens
  BY DEF BillingTypeOK, Updates
<1>2. row[u.token] \in Rows
  BY <1>1
<1> DEFINE x == [row[u.token] EXCEPT !.used = @ + Cardinality(Billed(u))]
<1>3. x.state = row[u.token].state /\ x.active = row[u.token].active
  BY <1>2 DEF Rows
<1>4. row' = [row EXCEPT ![u.token] = x] \/ row' = row
  BY DEF ChargeRow, ChargeFails
<1> HIDE DEF x
<1> QED BY <1>1, <1>3, <1>4

LEMMA CreditAddsNoEntry ==
    ASSUME BillingTypeOK, NEW t \in Tokens, AddCostToCache(t)
    PROVE  \A s \in Tokens : entry'[s] # NoEntry => entry[s] # NoEntry
BY DEF AddCostToCache, BillingTypeOK

LEMMA ListedAreActive ==
    ASSUME BillingTypeOK
    PROVE  Accepted(ListActiveAuthTokens)
BY DEF Accepted, ListActiveAuthTokens

LEMMA ReloadStep ==
    ASSUME \A a, b \in Admins : a = b,
           BillingTypeOK, ReloadInv, [BillingNext]_billingVars
    PROVE  ReloadInv'
<1>1. ASSUME NEW r \in Requests, Arrive(r) \/ RequestStep(r)
      PROVE  ReloadInv'
  <2>0. UNCHANGED <<admin, behind>> /\ (req[r].pc # "idle" => req[r].upd \in Updates)
    BY <1>1 DEF Arrive, RequestStep, BillingTypeOK
  <2>1. CASE ApplyItself(r)
    <3>1. ChargeRow(req[r].upd) \/ ChargeFails(req[r].upd)
      BY <2>1 DEF ApplyItself
    <3>2. req[r].upd \in Updates /\ UNCHANGED entry
      BY <2>0, <2>1 DEF ApplyItself
    <3> QED BY <2>0, <3>1, <3>2, ChargeRevokesNothing, NothingRevoked
  <2>2. CASE CreditItself(r)
    <3>1. req[r].upd.token \in Tokens /\ AddCostToCache(req[r].upd.token) /\ UNCHANGED row
      BY <2>0, <2>2 DEF CreditItself, Updates, dbVars
    <3> QED BY <2>0, <3>1, CreditAddsNoEntry, NothingRevoked
  <2>3. CASE Evict(r)
    <3>1. req[r].upd.token \in Tokens /\ UNCHANGED row
          /\ entry' = [entry EXCEPT ![req[r].upd.token] = NoEntry]
      BY <2>0, <2>3 DEF Evict, Updates, dbVars
    <3> QED BY <2>0, <3>1, NothingRevoked DEF BillingTypeOK
  <2>4. CASE ~(ApplyItself(r) \/ CreditItself(r) \/ Evict(r))
    <3>1. UNCHANGED <<row, entry>>
      BY <1>1, <2>4 DEF Arrive, RequestStep, Authenticate, CheckLimit, Answered, LookAtShutdown,
                        Send, dbVars
    <3> QED BY <2>0, <3>1, NothingRevoked
  <2> QED BY <2>1, <2>2, <2>3, <2>4
<1>2. CASE WorkerStep
  <2>0. UNCHANGED <<admin, behind>>
    BY <1>2 DEF WorkerStep
  <2>1. CASE Applies
    <3>1. worker.upd \in Updates /\ UNCHANGED entry /\ (ChargeRow(worker.upd) \/ ChargeFails(worker.upd))
      BY <2>1 DEF Applies, BillingTypeOK
    <3> QED BY <2>0, <3>1, ChargeRevokesNothing, NothingRevoked
  <2>2. CASE Credits
    <3>1. worker.upd.token \in Tokens /\ AddCostToCache(worker.upd.token) /\ UNCHANGED row
      BY <2>2 DEF Credits, BillingTypeOK, Updates, dbVars
    <3> QED BY <2>0, <3>1, CreditAddsNoEntry, NothingRevoked
  <2>3. CASE ~(Applies \/ Credits)
    <3>1. UNCHANGED <<row, entry>>
      BY <1>2, <2>3 DEF WorkerStep, Takes, SeesShutdown, Stops, dbVars
    <3> QED BY <2>0, <3>1, NothingRevoked
  <2> QED BY <2>1, <2>2, <2>3
<1>3. ASSUME NEW a \in Admins, AdminBegins(a) \/ AdminStep(a)
      PROVE  ReloadInv'
  <2>0. admin \in [Admins -> AdminStates] /\ \A b \in Admins : b = a
    BY DEF BillingTypeOK
  <2>1. ASSUME admin'[a].pc = "select" PROVE ReloadInv'
    BY <2>0, <2>1 DEF ReloadInv
  <2>2. ASSUME NEW t \in Tokens, CreatesToken(a, t) \/ DeletesToken(a, t)
        PROVE  ReloadInv'
    <3>1. admin' = [admin EXCEPT ![a].pc = "select"]
      BY <2>2 DEF CreatesToken, DeletesToken, AdminGoto
    <3>2. admin'[a].pc = "select"
      BY <2>0, <3>1 DEF AdminStates
    <3> QED BY <2>1, <3>2
  <2>3. ASSUME NEW t \in Tokens, ReadsToken(a, t)
        PROVE  ReloadInv'
    <3>1. admin[a].pc = "idle" /\ admin'[a].pc = "write" /\ UNCHANGED <<row, entry, behind>>
      BY <2>0, <2>3 DEF ReadsToken, AdminIdle, dbVars
    <3> QED BY <2>0, <3>1 DEF ReloadInv, Accepted, Present
  <2>4. CASE WritesToken(a)
    <3>1. admin[a].pc = "write" /\ UNCHANGED <<entry, behind>>
      BY <2>4 DEF WritesToken
    <3>2. \/ admin' = [admin EXCEPT ![a] = [AdminIdle EXCEPT !.pc = "select"]]
          \/ admin' = [admin EXCEPT ![a] = AdminIdle] /\ UNCHANGED row
      BY <2>4 DEF WritesToken
    <3>3. admin'[a].pc = "select" \/ (admin'[a].pc = "idle" /\ UNCHANGED row)
      BY <2>0, <3>2 DEF AdminIdle
    <3> QED BY <2>0, <2>1, <3>1, <3>3 DEF ReloadInv, Accepted, Present
  <2>5. CASE SelectsTokens(a)
    <3>1. \/ admin'[a].pc = "replace" /\ admin'[a].new = ListActiveAuthTokens
          \/ admin'[a].pc = "idle" /\ behind'
      BY <2>0, <2>5 DEF SelectsTokens, AdminIdle, AdminStates
    <3>2. UNCHANGED row
      BY <2>5 DEF SelectsTokens, dbVars
    <3> QED BY <2>0, <3>1, <3>2, ListedAreActive DEF ReloadInv, Accepted, Present
  <2>6. CASE ReplacesEntries(a)
    <3>1. admin[a].pc = "replace" /\ admin'[a].pc = "idle" /\ entry' = admin[a].new /\ UNCHANGED row
      BY <2>0, <2>6 DEF ReplacesEntries, AdminIdle, dbVars
    <3> QED BY <2>0, <3>1 DEF ReloadInv, Accepted, Present
  <2> QED BY <1>3, <2>2, <2>3, <2>4, <2>5, <2>6 DEF AdminBegins, AdminStep
<1>4. CASE Shutdown \/ CloseShutdownCh \/ CloseStore \/ Tick \/ UNCHANGED billingVars
  <2>1. UNCHANGED <<row, entry, admin, behind>>
    BY <1>4 DEF Shutdown, CloseShutdownCh, CloseStore, Unattended, Tick, billingVars
  <2> QED BY <2>1, NothingRevoked
<1> QED BY <1>1, <1>2, <1>3, <1>4 DEF BillingNext

(* With one handler of administrators at a time, a token is accepted only  *)
(* while its row is there and active, once the reload has succeeded: for   *)
(* any number of tokens and requests, and whatever is charged meanwhile.   *)
THEOREM RevokedIsRefused ==
    ASSUME \A a, b \in Admins : a = b
    PROVE  BillingSpec => []RevokedStaysOut
<1>1. BillingInit => ReloadInv
  <2> SUFFICES ASSUME BillingInit PROVE ReloadInv
    OBVIOUS
  <2>1. Accepted(entry)
    BY DEF BillingInit, Accepted, ListActiveAuthTokens
  <2>2. \A a \in Admins : admin[a].pc = "idle"
    BY DEF BillingInit, AdminIdle
  <2> QED BY <2>1, <2>2 DEF ReloadInv
<1>2. BillingTypeOK /\ ReloadInv /\ [BillingNext]_billingVars => ReloadInv'
  BY ReloadStep
<1>3. ReloadInv => RevokedStaysOut
  BY DEF ReloadInv, Accepted, RevokedStaysOut
<1> QED BY <1>1, <1>2, <1>3, BillingTypeCorrect, PTL DEF BillingSpec

-----------------------------------------------------------------------------
(* The entry in memory.  A charge and a credit of one bill are steps of    *)
(* the same actor, and until an administrator writes nobody else touches   *)
(* the two counters.                                                       *)

Crediters(t) == {r \in Requests : req[r].pc = "credit" /\ req[r].upd.token = t}
WorkerCredits(t) == IF worker.pc = "credit" /\ worker.upd.token = t THEN 1 ELSE 0

FollowsAt(t) ==
    entry[t] # NoEntry /\ ~Unlimited(entry[t]) => entry[t].used + Crediting(t) = row[t].used

FollowInv ==
    edits = 0 => (\A a \in Admins : admin[a].pc = "idle") /\ \A t \in Tokens : FollowsAt(t)

LEMMA CreditingCounted ==
    ASSUME NEW t
    PROVE  /\ Crediting(t) = Cardinality(Crediters(t)) + WorkerCredits(t)
           /\ IsFiniteSet(Crediters(t)) /\ Cardinality(Crediters(t)) \in Nat
           /\ WorkerCredits(t) \in 0 .. 1 /\ Crediting(t) \in Nat
<1>1. Crediting(t) = Cardinality(Crediters(t)) + WorkerCredits(t)
  BY DEF Crediting, Crediters, WorkerCredits
<1>2. Crediters(t) \in SUBSET Requests
  BY DEF Crediters
<1>3. IsFiniteSet(Crediters(t)) /\ Cardinality(Crediters(t)) \in Nat
  BY <1>2, BillingAssumption, FS_Subset, FS_CardinalityType
<1>4. WorkerCredits(t) \in 0 .. 1
  BY DEF WorkerCredits
<1> QED BY <1>1, <1>3, <1>4

LEMMA CreditingCountedNext ==
    ASSUME NEW t
    PROVE  Crediting(t)' = Cardinality(Crediters(t)') + WorkerCredits(t)'
BY DEF Crediting, Crediters, WorkerCredits

(* A request that enters or leaves the set of those that credit t.         *)
LEMMA CreditersChange ==
    ASSUME NEW t, NEW r
    PROVE  /\ r \notin Crediters(t) /\ Crediters(t)' = Crediters(t) \cup {r}
                => Cardinality(Crediters(t)') = Cardinality(Crediters(t)) + 1
           /\ r \in Crediters(t) /\ Crediters(t)' = Crediters(t) \ {r}
                => Cardinality(Crediters(t)') = Cardinality(Crediters(t)) - 1
<1>1. IsFiniteSet(Crediters(t))
  BY CreditingCounted
<1> QED BY <1>1, FS_AddElement, FS_RemoveElement

LEMMA ChargeFollowed ==
    ASSUME BillingTypeOK, \A t \in Tokens : FollowsAt(t), NEW u \in Updates, ChargeRow(u),
           UNCHANGED entry,
           \A t \in Tokens : Crediting(t)' =
               Crediting(t) + (IF t = u.token /\ u.bill # NoBill THEN 1 ELSE 0)
    PROVE  \A t \in Tokens : FollowsAt(t)'
<1> DEFINE n == IF u.bill # NoBill THEN 1 ELSE 0
<1>1. Cardinality(Billed(u)) = n /\ n \in Nat
  BY FS_EmptySet, FS_Singleton DEF Billed
<1>2. row \in [Tokens -> Rows] /\ u.token \in Tokens /\ row[u.token] \in Rows
  BY DEF BillingTypeOK, Updates
<1>3. row' = [row EXCEPT ![u.token].used = @ + n]
  BY <1>1 DEF ChargeRow
<1>4. \A t \in Tokens : row'[t].used = row[t].used + (IF t = u.token THEN n ELSE 0)
  BY <1>1, <1>2, <1>3 DEF Rows
<1>5. TAKE t \in Tokens
<1>6. CASE entry[t] # NoEntry /\ ~Unlimited(entry[t])
  <2>1. entry[t].used \in Nat /\ row[t].used \in Nat /\ Crediting(t) \in Nat
    BY <1>2, <1>6, CreditingCounted DEF BillingTypeOK, Entries, Rows
  <2>2. entry[t].used + Crediting(t) = row[t].used
    BY <1>6 DEF FollowsAt
  <2>3. Crediting(t)' = Crediting(t) + (IF t = u.token THEN n ELSE 0)
    OBVIOUS
  <2>4. entry'[t].used + Crediting(t)' = row'[t].used
    BY <1>1, <1>4, <2>1, <2>2, <2>3
  <2> QED BY <2>4 DEF FollowsAt
<1>7. CASE ~(entry[t] # NoEntry /\ ~Unlimited(entry[t]))
  BY <1>7 DEF FollowsAt, Unlimited
<1> QED BY <1>6, <1>7

LEMMA CreditFollowed ==
    ASSUME BillingTypeOK, \A t \in Tokens : FollowsAt(t), NEW s \in Tokens, AddCostToCache(s),
           UNCHANGED row,
           \A t \in Tokens : Crediting(t)' = Crediting(t) - (IF t = s THEN 1 ELSE 0)
    PROVE  \A t \in Tokens : FollowsAt(t)'
<1>1. entry \in [Tokens -> Entries \cup {NoEntry}] /\ row \in [Tokens -> Rows]
  BY DEF BillingTypeOK
<1>2. TAKE t \in Tokens
<1>3. CASE t # s
  <2>1. entry'[t] = entry[t] /\ Crediting(t)' = Crediting(t)
    BY <1>1, <1>3, CreditingCounted DEF AddCostToCache
  <2> QED BY <2>1 DEF FollowsAt, Unlimited
<1>4. CASE t = s /\ (entry[t] = NoEntry \/ Unlimited(entry[t]))
  <2>1. entry' = entry
    BY <1>4 DEF AddCostToCache
  <2> QED BY <1>4, <2>1 DEF FollowsAt, Unlimited
<1>5. CASE t = s /\ ~(entry[t] = NoEntry \/ Unlimited(entry[t]))
  <2>1. entry' = [entry EXCEPT ![t].used = @ + 1] /\ entry[t] \in Entries
    BY <1>1, <1>5 DEF AddCostToCache
  <2>2. entry'[t].used = entry[t].used + 1
    BY <1>1, <2>1 DEF Entries
  <2>3. entry[t].used + Crediting(t) = row[t].used /\ Crediting(t)' = Crediting(t) - 1
    BY <1>5 DEF FollowsAt
  <2>4. entry[t].used \in Nat /\ Crediting(t) \in Nat
    BY <2>1, CreditingCounted DEF Entries
  <2> QED BY <2>2, <2>3, <2>4 DEF FollowsAt
<1> QED BY <1>3, <1>4, <1>5

LEMMA QuietFollowed ==
    ASSUME \A t \in Tokens : FollowsAt(t), UNCHANGED row,
           \A t \in Tokens : entry'[t] = entry[t] \/ entry'[t] = NoEntry,
           \A t \in Tokens : Crediting(t)' = Crediting(t)
    PROVE  \A t \in Tokens : FollowsAt(t)'
BY DEF FollowsAt, Unlimited

LEMMA SameCrediters ==
    ASSUME NEW r \in Requests, \A q \in Requests \ {r} : req'[q] = req[q],
           req[r].pc # "credit", req'[r].pc # "credit", UNCHANGED worker, NEW t
    PROVE  Crediting(t)' = Crediting(t)
<1>1. Crediters(t)' = Crediters(t) /\ WorkerCredits(t)' = WorkerCredits(t)
  BY DEF Crediters, WorkerCredits
<1> QED BY <1>1, CreditingCounted, CreditingCountedNext

LEMMA RequestCredits ==
    ASSUME BillingTypeOK, \A t \in Tokens : FollowsAt(t), NEW r \in Requests, CreditItself(r),
           UNCHANGED worker
    PROVE  \A t \in Tokens : FollowsAt(t)'
<1> DEFINE s == req[r].upd.token
<1>1. /\ req[r].pc = "credit" /\ s \in Tokens /\ AddCostToCache(s) /\ UNCHANGED row
      /\ req' = [req EXCEPT ![r] = AtRest] /\ DOMAIN req = Requests
  BY DEF BillingTypeOK, CreditItself, Finish, Updates, dbVars
<1>2. ASSUME NEW t \in Tokens
      PROVE  Crediting(t)' = Crediting(t) - (IF t = s THEN 1 ELSE 0)
  <2>1. WorkerCredits(t)' = WorkerCredits(t)
    BY DEF WorkerCredits
  <2>2. req'[r].pc # "credit" /\ \A q \in Requests \ {r} : req'[q] = req[q]
    BY <1>1 DEF AtRest
  <2>3. CASE t = s
    <3>1. r \in Crediters(t) /\ Crediters(t)' = Crediters(t) \ {r}
      BY <1>1, <2>2, <2>3 DEF Crediters
    <3>2. Cardinality(Crediters(t)') = Cardinality(Crediters(t)) - 1
      BY <3>1, CreditersChange
    <3> QED BY <2>1, <2>3, <3>2, CreditingCounted, CreditingCountedNext
  <2>4. CASE t # s
    <3>1. Crediters(t)' = Crediters(t)
      BY <1>1, <2>2, <2>4 DEF Crediters
    <3> QED BY <2>1, <2>4, <3>1, CreditingCounted, CreditingCountedNext
  <2> QED BY <2>3, <2>4
<1>3. \A t \in Tokens : Crediting(t)' = Crediting(t) - (IF t = s THEN 1 ELSE 0)
  BY <1>2
<1> HIDE DEF s
<1> QED BY <1>1, <1>3, CreditFollowed

LEMMA RequestCharges ==
    ASSUME BillingTypeOK, \A t \in Tokens : FollowsAt(t), NEW r \in Requests, ApplyItself(r),
           UNCHANGED worker
    PROVE  \A t \in Tokens : FollowsAt(t)'
<1> DEFINE u == req[r].upd
<1>1. /\ req[r].pc = "apply" /\ u \in Updates /\ DOMAIN req = Requests /\ UNCHANGED entry
      /\ req[r] \in RequestStates
  BY DEF BillingTypeOK, ApplyItself
<1>2. CASE ChargeRow(u) /\ u.bill # NoBill /\ Goto(r, "credit")
  <2>0. req' = [req EXCEPT ![r].pc = "credit"]
    BY <1>2 DEF Goto
  <2>1. req'[r].pc = "credit" /\ req'[r].upd = u /\ \A q \in Requests \ {r} : req'[q] = req[q]
    BY <1>1, <2>0 DEF RequestStates
  <2>2. ASSUME NEW t \in Tokens
        PROVE  Crediting(t)' = Crediting(t) + (IF t = u.token /\ u.bill # NoBill THEN 1 ELSE 0)
    <3>1. WorkerCredits(t)' = WorkerCredits(t)
      BY DEF WorkerCredits
    <3>2. CASE t = u.token
      <4>1. r \notin Crediters(t) /\ Crediters(t)' = Crediters(t) \cup {r}
        BY <1>1, <2>1, <3>2 DEF Crediters
      <4>2. Cardinality(Crediters(t)') = Cardinality(Crediters(t)) + 1
        BY <4>1, CreditersChange
      <4> QED BY <1>2, <3>1, <3>2, <4>2, CreditingCounted, CreditingCountedNext
    <3>3. CASE t # u.token
      <4>1. Crediters(t)' = Crediters(t)
        BY <1>1, <2>1, <3>3 DEF Crediters
      <4> QED BY <3>1, <3>3, <4>1, CreditingCounted, CreditingCountedNext
    <3> QED BY <3>2, <3>3
  <2>3. \A t \in Tokens : Crediting(t)' =
            Crediting(t) + (IF t = u.token /\ u.bill # NoBill THEN 1 ELSE 0)
    BY <2>2
  <2> HIDE DEF u
  <2> QED BY <1>1, <1>2, <2>3, ChargeFollowed
<1>3. CASE ~(ChargeRow(u) /\ u.bill # NoBill /\ Goto(r, "credit"))
  <2>1. req'[r].pc # "credit" /\ \A q \in Requests \ {r} : req'[q] = req[q]
    BY <1>1, <1>3 DEF ApplyItself, Reported, Finish, AtRest, RequestStates
  <2>2. \A t \in Tokens : Crediting(t)' = Crediting(t)
    BY <1>1, <2>1, SameCrediters
  <2>3. CASE ChargeRow(u) /\ u.bill = NoBill
    <3>1. \A t \in Tokens : Crediting(t)' =
              Crediting(t) + (IF t = u.token /\ u.bill # NoBill THEN 1 ELSE 0)
      BY <2>2, <2>3, CreditingCounted
    <3> HIDE DEF u
    <3> QED BY <1>1, <2>3, <3>1, ChargeFollowed
  <2>4. CASE UNCHANGED row
    BY <1>1, <2>2, <2>4, QuietFollowed
  <2>5. (ChargeRow(u) /\ u.bill = NoBill) \/ UNCHANGED row
    BY <1>3 DEF ApplyItself, ChargeFails
  <2> QED BY <2>3, <2>4, <2>5
<1> QED BY <1>2, <1>3

LEMMA RequestFollows ==
    ASSUME BillingTypeOK, \A t \in Tokens : FollowsAt(t), NEW r \in Requests,
           Arrive(r) \/ RequestStep(r)
    PROVE  \A t \in Tokens : FollowsAt(t)'
<1>0. UNCHANGED worker /\ DOMAIN req = Requests /\ DOMAIN entry = Tokens /\ req[r] \in RequestStates
  BY DEF Arrive, RequestStep, BillingTypeOK
<1>1. CASE ApplyItself(r)
  BY <1>0, <1>1, RequestCharges
<1>2. CASE CreditItself(r)
  BY <1>0, <1>2, RequestCredits
<1>3. CASE ~(ApplyItself(r) \/ CreditItself(r))
  <2>1. /\ req[r].pc # "credit" /\ req'[r].pc # "credit"
        /\ \A q \in Requests \ {r} : req'[q] = req[q]
    BY <1>0, <1>3 DEF Arrive, RequestStep, Authenticate, Evict, CheckLimit, Answered, LookAtShutdown,
                      Send, Reported, Goto, Finish, AtRest, RequestStates
  <2>2. UNCHANGED row /\ \A t \in Tokens : entry'[t] = entry[t] \/ entry'[t] = NoEntry
    BY <1>0, <1>3 DEF Arrive, RequestStep, Authenticate, Evict, CheckLimit, Answered, LookAtShutdown,
                      Send, dbVars
  <2>3. \A t \in Tokens : Crediting(t)' = Crediting(t)
    BY <1>0, <2>1, SameCrediters
  <2> QED BY <2>2, <2>3, QuietFollowed
<1> QED BY <1>1, <1>2, <1>3

LEMMA WorkerFollows ==
    ASSUME BillingTypeOK, \A t \in Tokens : FollowsAt(t), WorkerStep
    PROVE  \A t \in Tokens : FollowsAt(t)'
<1>0. UNCHANGED req /\ worker \in WorkerStates
      /\ (worker.pc \in {"apply", "credit"} => worker.upd \in Updates)
  BY DEF WorkerStep, BillingTypeOK
<1>1. ASSUME NEW t \in Tokens
      PROVE  Crediting(t)' = Crediting(t) - WorkerCredits(t) + WorkerCredits(t)'
             /\ Crediting(t) \in Nat /\ WorkerCredits(t) \in 0 .. 1
  <2>1. Crediters(t)' = Crediters(t)
    BY <1>0 DEF Crediters
  <2> QED BY <2>1, CreditingCounted, CreditingCountedNext DEF WorkerCredits
<1>2. CASE Applies /\ ChargeRow(worker.upd) /\ (worker.upd.bill # NoBill => worker'.pc = "credit")
  <2> DEFINE u == worker.upd
  <2>1. worker.pc = "apply" /\ u \in Updates /\ UNCHANGED entry /\ ChargeRow(u)
    BY <1>0, <1>2 DEF Applies
  <2>2. u.bill # NoBill => worker'.pc = "credit" /\ worker'.upd = u
    BY <1>0, <1>2, <2>1 DEF Applies, Back, WorkerStates
  <2>3. u.bill = NoBill => worker'.pc # "credit"
    BY <1>0, <1>2, <2>1 DEF Applies, Back, WorkerStates
  <2>4. \A t \in Tokens : Crediting(t)' =
            Crediting(t) + (IF t = u.token /\ u.bill # NoBill THEN 1 ELSE 0)
    BY <1>0, <1>1, <2>1, <2>2, <2>3 DEF WorkerCredits, WorkerStates
  <2> HIDE DEF u
  <2> QED BY <2>1, <2>4, ChargeFollowed
<1>3. CASE Credits
  <2> DEFINE s == worker.upd.token
  <2>1. worker.pc = "credit" /\ s \in Tokens /\ AddCostToCache(s) /\ UNCHANGED row
    BY <1>0, <1>3 DEF Credits, Updates, dbVars
  <2>2. worker'.pc # "credit"
    BY <1>0, <1>3 DEF Credits, Back, WorkerStates
  <2>3. \A t \in Tokens : Crediting(t)' = Crediting(t) - (IF t = s THEN 1 ELSE 0)
    BY <1>1, <2>1, <2>2 DEF WorkerCredits
  <2> HIDE DEF s
  <2> QED BY <2>1, <2>3, CreditFollowed
<1>4. CASE /\ ~(Applies /\ ChargeRow(worker.upd) /\ (worker.upd.bill # NoBill => worker'.pc = "credit"))
           /\ ~Credits
  <2>1. UNCHANGED <<row, entry>> /\ worker.pc # "credit" /\ worker'.pc # "credit"
    BY <1>0, <1>4 DEF WorkerStep, Takes, Applies, ChargeFails, SeesShutdown, Stops, Back, dbVars,
                      WorkerStates
  <2>2. \A t \in Tokens : Crediting(t)' = Crediting(t)
    BY <1>1, <2>1 DEF WorkerCredits
  <2> QED BY <2>1, <2>2, QuietFollowed
<1> QED BY <1>2, <1>3, <1>4

LEMMA FollowInit == BillingInit => FollowInv
<1> SUFFICES ASSUME BillingInit PROVE FollowInv
  OBVIOUS
<1>1. \A a \in Admins : admin[a].pc = "idle"
  BY DEF BillingInit, AdminIdle
<1>2. ASSUME NEW t \in Tokens, entry[t] # NoEntry PROVE entry[t].used = 0 /\ row[t].used = 0
  <2>1. row[t].used = 0
    BY DEF BillingInit
  <2>2. entry[t].used = (IF row[t].limit > 0 THEN row[t].used ELSE 0)
    BY <1>2 DEF BillingInit, ListActiveAuthTokens
  <2> QED BY <2>1, <2>2
<1>3. ASSUME NEW t \in Tokens PROVE Crediting(t) = 0
  <2>1. Crediters(t) = {} /\ WorkerCredits(t) = 0
    BY DEF BillingInit, Crediters, WorkerCredits, AtRest
  <2> QED BY <2>1, CreditingCounted, FS_EmptySet
<1> QED BY <1>1, <1>2, <1>3 DEF FollowInv, FollowsAt

LEMMA FollowStep ==
    ASSUME BillingTypeOK, FollowInv, [BillingNext]_billingVars
    PROVE  FollowInv'
<1>1. ASSUME NEW r \in Requests, Arrive(r) \/ RequestStep(r)
      PROVE  FollowInv'
  <2>1. UNCHANGED <<edits, admin>>
    BY <1>1 DEF Arrive, RequestStep
  <2>2. (\A t \in Tokens : FollowsAt(t)) => \A t \in Tokens : FollowsAt(t)'
    BY <1>1, RequestFollows
  <2> QED BY <2>1, <2>2 DEF FollowInv
<1>2. CASE WorkerStep
  <2>1. UNCHANGED <<edits, admin>>
    BY <1>2 DEF WorkerStep
  <2>2. (\A t \in Tokens : FollowsAt(t)) => \A t \in Tokens : FollowsAt(t)'
    BY <1>2, WorkerFollows
  <2> QED BY <2>1, <2>2 DEF FollowInv
<1>3. ASSUME NEW a \in Admins, AdminBegins(a)
      PROVE  FollowInv'
  <2>1. edits \in Nat /\ edits' = edits + 1
    BY <1>3 DEF AdminBegins, BillingTypeOK
  <2> QED BY <2>1 DEF FollowInv
<1>4. ASSUME NEW a \in Admins, AdminStep(a)
      PROVE  FollowInv'
  <2>1. admin[a].pc # "idle" /\ UNCHANGED edits
    BY <1>4 DEF AdminStep, WritesToken, SelectsTokens, ReplacesEntries
  <2> QED BY <2>1 DEF FollowInv
<1>5. CASE Shutdown \/ CloseShutdownCh \/ CloseStore \/ Tick \/ UNCHANGED billingVars
  <2>1. UNCHANGED <<row, entry, req, worker, admin, edits>>
    BY <1>5 DEF Shutdown, CloseShutdownCh, CloseStore, Unattended, Tick, billingVars
  <2>2. ASSUME NEW t \in Tokens PROVE Crediting(t)' = Crediting(t)
    <3>1. Crediters(t)' = Crediters(t) /\ WorkerCredits(t)' = WorkerCredits(t)
      BY <2>1 DEF Crediters, WorkerCredits
    <3> QED BY <3>1, CreditingCounted, CreditingCountedNext
  <2>3. (\A t \in Tokens : FollowsAt(t)) => \A t \in Tokens : FollowsAt(t)'
    BY <2>1, <2>2, QuietFollowed
  <2> QED BY <2>1, <2>3 DEF FollowInv
<1> QED BY <1>1, <1>2, <1>3, <1>4, <1>5 DEF BillingNext

(* Until an administrator changes a token, what its entry says is used     *)
(* (applyTokenStatsUpdate credits it after the row) is what the row says,  *)
(* up to the credits still on their way: for any number of requests that   *)
(* finish at once, before, in and after a shutdown.                        *)
THEOREM EntryFollows == BillingSpec => []EntryFollowsRow
<1>1. BillingTypeOK /\ FollowInv /\ [BillingNext]_billingVars => FollowInv'
  BY FollowStep
<1>2. FollowInv => EntryFollowsRow
  BY DEF FollowInv, FollowsAt, EntryFollowsRow
<1> QED BY <1>1, <1>2, FollowInit, BillingTypeCorrect, PTL DEF BillingSpec

-----------------------------------------------------------------------------
(* How far a token gets over its limit.  The bills of a token that exist   *)
(* and the requests that may still open one are counted together: only a   *)
(* check that passes adds to them, and then the row is below the limit but *)
(* for the credits on their way.                                           *)

Engaged(t) ==
    {r \in Requests : /\ req[r].upd.token = t /\ req[r].upd.bill = NoBill
                      /\ req[r].pc \in {"upstream", "finished", "send", "apply"}}

HoldersOf(t) == {r \in Requests : Holding(r) /\ req[r].upd.token = t}

Accounted(t) == {u \in Outstanding \cup charged : u.token = t}

OverrunAt(t) ==
    row[t].limit > 0 /\ row[t].expires = 0 =>
      Cardinality(Accounted(t)) + Cardinality(Engaged(t))
        <= row[t].limit + Cardinality(Requests) + StatsCap

(* The entry has the limit of the row, and a token that does not expire    *)
(* keeps its entry.                                                        *)
KnownAt(t) ==
    /\ entry[t] # NoEntry => entry[t].limit = row[t].limit /\ entry[t].expires = row[t].expires
    /\ row[t].expires = 0 =>
         \A r \in Requests : req[r].upd.token = t /\ req[r].pc # "idle" =>
                               req[r].pc # "evict" /\ entry[t] # NoEntry

OverrunInv == edits = 0 => \A t \in Tokens : KnownAt(t) /\ OverrunAt(t)

LEMMA RowNumbers ==
    ASSUME BillingTypeOK, NEW t \in Tokens
    PROVE  /\ row[t].used \in Nat /\ row[t].limit \in Nat
           /\ entry[t] # NoEntry => entry[t].used \in Nat /\ entry[t].limit \in Nat
           /\ StatsCap \in Nat /\ Cardinality(Requests) \in Nat
<1>1. Limits \subseteq Nat /\ StatsCap \in Nat /\ IsFiniteSet(Requests)
  BY BillingAssumption
<1>2. row[t].used \in Nat /\ row[t].limit \in Limits \cup {0}
  BY DEF BillingTypeOK, Rows
<1>3. entry[t] # NoEntry => entry[t].used \in Nat /\ entry[t].limit \in Limits \cup {0}
  BY DEF BillingTypeOK, Entries
<1>4. Cardinality(Requests) \in Nat
  BY <1>1, FS_CardinalityType
<1>5. \A l \in Limits \cup {0} : l \in Nat
  BY <1>1
<1> QED BY <1>1, <1>2, <1>3, <1>4, <1>5

LEMMA UnionAtMost ==
    ASSUME NEW S, NEW T, IsFiniteSet(S), IsFiniteSet(T)
    PROVE  /\ IsFiniteSet(S \cup T) /\ Cardinality(S \cup T) <= Cardinality(S) + Cardinality(T)
           /\ S \cap T = {} => Cardinality(S \cup T) = Cardinality(S) + Cardinality(T)
           /\ Cardinality(S) \in Nat /\ Cardinality(T) \in Nat /\ Cardinality(S \cup T) \in Nat
<1>1. IsFiniteSet(S \cap T) /\ IsFiniteSet(S \cup T)
  BY FS_Subset, FS_Union
<1>2. /\ Cardinality(S \cap T) \in Nat /\ Cardinality(S) \in Nat
      /\ Cardinality(T) \in Nat /\ Cardinality(S \cup T) \in Nat
  BY <1>1, FS_CardinalityType
<1>3. Cardinality(S \cup T) = Cardinality(S) + Cardinality(T) - Cardinality(S \cap T)
  BY FS_Union
<1>4. S \cap T = {} => Cardinality(S \cap T) = 0
  BY FS_EmptySet
<1> QED BY <1>1, <1>2, <1>3, <1>4

(* The values of a function are not more than its arguments.               *)
LEMMA ValuesAtMost ==
    ASSUME NEW S, IsFiniteSet(S), NEW f, DOMAIN f = S, f = [x \in S |-> f[x]]
    PROVE  /\ IsFiniteSet({f[x] : x \in S})
           /\ Cardinality({f[x] : x \in S}) <= Cardinality(S)
<1>1. f \in Surjection(S, {f[x] : x \in S})
  BY DEF Surjection
<1> QED BY <1>1, FS_Surjection

LEMMA AccountedAtMost ==
    ASSUME BillingTypeOK, UsedInv, NEW t \in Tokens
    PROVE  /\ IsFiniteSet(Accounted(t)) /\ row[t].used <= Cardinality(Accounted(t))
           /\ Cardinality(Accounted(t)) <=
                row[t].used + Cardinality(HoldersOf(t)) + StatsCap
                  + (IF worker.pc = "apply" THEN 1 ELSE 0)
<1>1. /\ IsFiniteSet(Of(t)) /\ Cardinality(Of(t)) = row[t].used /\ row[t].used \in Nat
  <2>1. Of(t) \in SUBSET charged /\ row[t] \in Rows
    BY DEF Of, BillingTypeOK
  <2> QED BY <2>1, FS_Subset DEF UsedInv, ChargedOnce, Of, Rows
<1> DEFINE H == {req[r].upd : r \in HoldersOf(t)}
           Q == {statsCh[i] : i \in 1 .. Len(statsCh)}
           W == IF worker.pc = "apply" THEN {worker.upd} ELSE {}
<1>2. IsFiniteSet(H) /\ Cardinality(H) <= Cardinality(HoldersOf(t))
      /\ Cardinality(HoldersOf(t)) \in Nat
  <2>1. HoldersOf(t) \in SUBSET Requests /\ IsFiniteSet(Requests)
    BY BillingAssumption DEF HoldersOf
  <2>2. IsFiniteSet(HoldersOf(t)) /\ Cardinality(HoldersOf(t)) \in Nat
    BY <2>1, FS_Subset, FS_CardinalityType
  <2> DEFINE f == [r \in HoldersOf(t) |-> req[r].upd]
  <2>3. H = {f[r] : r \in HoldersOf(t)} /\ DOMAIN f = HoldersOf(t) /\ f = [x \in HoldersOf(t) |-> f[x]]
    OBVIOUS
  <2> HIDE DEF f
  <2>4. IsFiniteSet({f[r] : r \in HoldersOf(t)})
         /\ Cardinality({f[r] : r \in HoldersOf(t)}) <= Cardinality(HoldersOf(t))
    BY <2>2, <2>3, ValuesAtMost
  <2> QED BY <2>2, <2>3, <2>4
<1>3. IsFiniteSet(Q) /\ Cardinality(Q) <= StatsCap
  <2>1. /\ statsCh \in Seq(Updates) /\ Len(statsCh) \in Nat /\ Len(statsCh) <= StatsCap
        /\ StatsCap \in Nat
    BY BillingAssumption DEF BillingTypeOK
  <2>2. IsFiniteSet(1 .. Len(statsCh)) /\ Cardinality(1 .. Len(statsCh)) = Len(statsCh)
    <3>1. PICK n \in Nat : n = Len(statsCh)
      BY <2>1
    <3>2. IsFiniteSet(1 .. n) /\ Cardinality(1 .. n) = IF 1 > n THEN 0 ELSE n - 1 + 1
      BY FS_Interval
    <3> QED BY <3>1, <3>2
  <2>3. DOMAIN statsCh = 1 .. Len(statsCh) /\ statsCh = [i \in 1 .. Len(statsCh) |-> statsCh[i]]
    BY <2>1
  <2>4. IsFiniteSet(Q) /\ Cardinality(Q) <= Cardinality(1 .. Len(statsCh))
    BY <2>2, <2>3, ValuesAtMost
  <2>5. Cardinality(Q) \in Nat
    BY <2>4, FS_CardinalityType
  <2> HIDE DEF Q
  <2> QED BY <2>1, <2>2, <2>4, <2>5
<1>4. IsFiniteSet(W) /\ Cardinality(W) = IF worker.pc = "apply" THEN 1 ELSE 0
  BY FS_EmptySet, FS_Singleton
<1>5. Accounted(t) \subseteq ((Of(t) \cup H) \cup Q) \cup W
  <2> SUFFICES ASSUME NEW u \in Accounted(t) PROVE u \in ((Of(t) \cup H) \cup Q) \cup W
    OBVIOUS
  <2>1. u.token = t /\ (InHand(u) \/ u \in charged)
    BY OutstandingInHand DEF Accounted
  <2>2. DOMAIN statsCh = 1 .. Len(statsCh)
    BY DEF BillingTypeOK
  <2> QED BY <2>1, <2>2 DEF InHand, Of, HoldersOf, Writing
<1>6. Of(t) \subseteq Accounted(t)
  BY DEF Of, Accounted
<1> HIDE DEF H, Q, W
<1>7. /\ IsFiniteSet(((Of(t) \cup H) \cup Q) \cup W)
      /\ Cardinality(((Of(t) \cup H) \cup Q) \cup W) <=
           ((Cardinality(Of(t)) + Cardinality(H)) + Cardinality(Q)) + Cardinality(W)
      /\ Cardinality(H) \in Nat /\ Cardinality(Q) \in Nat /\ Cardinality(W) \in Nat
      /\ Cardinality(((Of(t) \cup H) \cup Q) \cup W) \in Nat
  <2>1. /\ IsFiniteSet(Of(t) \cup H) /\ Cardinality(Of(t) \cup H) <= Cardinality(Of(t)) + Cardinality(H)
        /\ Cardinality(H) \in Nat /\ Cardinality(Of(t)) \in Nat /\ Cardinality(Of(t) \cup H) \in Nat
    BY <1>1, <1>2, UnionAtMost
  <2>2. /\ IsFiniteSet((Of(t) \cup H) \cup Q)
        /\ Cardinality((Of(t) \cup H) \cup Q) <= Cardinality(Of(t) \cup H) + Cardinality(Q)
        /\ Cardinality(Q) \in Nat /\ Cardinality((Of(t) \cup H) \cup Q) \in Nat
    BY <1>3, <2>1, UnionAtMost
  <2>3. /\ IsFiniteSet(((Of(t) \cup H) \cup Q) \cup W)
        /\ Cardinality(((Of(t) \cup H) \cup Q) \cup W) <= Cardinality((Of(t) \cup H) \cup Q) + Cardinality(W)
        /\ Cardinality(W) \in Nat /\ Cardinality(((Of(t) \cup H) \cup Q) \cup W) \in Nat
    BY <1>4, <2>2, UnionAtMost
  <2> QED BY <2>1, <2>2, <2>3
<1>8. /\ IsFiniteSet(Accounted(t)) /\ Cardinality(Accounted(t)) \in Nat
      /\ Cardinality(Accounted(t)) <= Cardinality(((Of(t) \cup H) \cup Q) \cup W)
  <2>1. IsFiniteSet(Accounted(t)) /\ Cardinality(Accounted(t)) <= Cardinality(((Of(t) \cup H) \cup Q) \cup W)
    BY <1>5, <1>7, FS_Subset
  <2> QED BY <2>1, FS_CardinalityType
<1>9. Cardinality(Of(t)) <= Cardinality(Accounted(t))
  BY <1>6, <1>8, FS_Subset
<1>10. StatsCap \in Nat
  BY BillingAssumption
<1> QED BY <1>1, <1>2, <1>3, <1>4, <1>7, <1>8, <1>9, <1>10

LEMMA EngagedCounted ==
    ASSUME NEW t
    PROVE  IsFiniteSet(Engaged(t)) /\ Cardinality(Engaged(t)) \in Nat
           /\ Cardinality(Requests) \in Nat
<1>1. Engaged(t) \in SUBSET Requests /\ IsFiniteSet(Requests)
  BY BillingAssumption DEF Engaged
<1> QED BY <1>1, FS_Subset, FS_CardinalityType

(* A step that opens no bill and lets no request past the check.           *)
LEMMA NothingMore ==
    ASSUME BillingTypeOK, UsedInv, NEW t \in Tokens, OverrunAt(t),
           row'[t].limit = row[t].limit, row'[t].expires = row[t].expires,
           Accounted(t)' \subseteq Accounted(t), Engaged(t)' \subseteq Engaged(t)
    PROVE  OverrunAt(t)'
<1>1. /\ IsFiniteSet(Accounted(t)) /\ Cardinality(Accounted(t)) \in Nat
      /\ IsFiniteSet(Engaged(t)) /\ Cardinality(Engaged(t)) \in Nat
  BY AccountedAtMost, EngagedCounted, FS_CardinalityType
<1>2. /\ Cardinality(Accounted(t)') <= Cardinality(Accounted(t)) /\ Cardinality(Accounted(t)') \in Nat
      /\ Cardinality(Engaged(t)') <= Cardinality(Engaged(t)) /\ Cardinality(Engaged(t)') \in Nat
  BY <1>1, FS_Subset, FS_CardinalityType
<1>3. row[t].limit \in Nat /\ Cardinality(Requests) \in Nat /\ StatsCap \in Nat
  BY RowNumbers
<1> QED BY <1>1, <1>2, <1>3 DEF OverrunAt

LEMMA AccountedShrinks ==
    ASSUME \A u : InHand(u)' => InHand(u), \A u \in charged' : u \in charged \/ InHand(u), NEW t
    PROVE  Accounted(t)' \subseteq Accounted(t)
<1>1. Outstanding' \subseteq Outstanding
  BY OutstandingInHand, OutstandingInHandNext
<1>2. charged' \subseteq charged \cup Outstanding
  BY OutstandingInHand
<1> QED BY <1>1, <1>2 DEF Accounted

(* A passed check: the entry and with it the row, but for the credits on   *)
(* their way, is below the limit, and the other requests, the queue and    *)
(* the worker have one bill each at most.                                  *)
LEMMA CheckBounds ==
    ASSUME BillingTypeOK, UsedInv, NEW t \in Tokens, FollowsAt(t), NEW r \in Requests,
           entry[t] # NoEntry, ~Unlimited(entry[t]), entry[t].used < entry[t].limit,
           entry[t].limit = row[t].limit,
           req[r].pc = "check", Accounted(t)' \subseteq Accounted(t),
           Engaged(t)' \subseteq Engaged(t) \cup {r}
    PROVE  Cardinality(Accounted(t)') + Cardinality(Engaged(t)')
             <= row[t].limit + Cardinality(Requests) + StatsCap
<1>1. /\ row[t].used \in Nat /\ row[t].limit \in Nat /\ entry[t].used \in Nat
      /\ StatsCap \in Nat
  BY RowNumbers
<1>2. /\ row[t].used + 1 <= row[t].limit + Crediting(t)
      /\ Crediting(t) = Cardinality(Crediters(t)) + WorkerCredits(t)
      /\ WorkerCredits(t) \in 0 .. 1 /\ Cardinality(Crediters(t)) \in Nat
      /\ IsFiniteSet(Crediters(t))
  BY <1>1, CreditingCounted DEF FollowsAt
<1>3. /\ IsFiniteSet(HoldersOf(t)) /\ IsFiniteSet(Engaged(t)) /\ IsFiniteSet(Requests)
      /\ Cardinality(HoldersOf(t)) \in Nat
  <2>1. HoldersOf(t) \in SUBSET Requests /\ IsFiniteSet(Requests)
    BY BillingAssumption DEF HoldersOf
  <2> QED BY <2>1, EngagedCounted, FS_Subset, FS_CardinalityType
<1>4. /\ IsFiniteSet(Engaged(t) \cup {r})
      /\ Cardinality(Engaged(t)') <= Cardinality(Engaged(t) \cup {r})
      /\ Cardinality(Engaged(t)') \in Nat /\ Cardinality(Engaged(t) \cup {r}) \in Nat
  <2>1. IsFiniteSet(Engaged(t) \cup {r})
    BY <1>3, FS_AddElement
  <2>2. IsFiniteSet(Engaged(t)') /\ Cardinality(Engaged(t)') <= Cardinality(Engaged(t) \cup {r})
    BY <2>1, FS_Subset
  <2> QED BY <2>1, <2>2, FS_CardinalityType
<1>5. /\ Cardinality(Engaged(t) \cup {r}) + Cardinality(HoldersOf(t)) + Cardinality(Crediters(t))
           <= Cardinality(Requests)
      /\ Cardinality(Requests) \in Nat
  <2>1. /\ (Engaged(t) \cup {r}) \cap HoldersOf(t) = {}
        /\ ((Engaged(t) \cup {r}) \cup HoldersOf(t)) \cap Crediters(t) = {}
        /\ ((Engaged(t) \cup {r}) \cup HoldersOf(t)) \cup Crediters(t) \in SUBSET Requests
    BY DEF Engaged, HoldersOf, Holding, Crediters
  <2>2. /\ IsFiniteSet((Engaged(t) \cup {r}) \cup HoldersOf(t))
        /\ Cardinality((Engaged(t) \cup {r}) \cup HoldersOf(t)) =
             Cardinality(Engaged(t) \cup {r}) + Cardinality(HoldersOf(t))
    BY <1>3, <1>4, <2>1, UnionAtMost
  <2>3. Cardinality(((Engaged(t) \cup {r}) \cup HoldersOf(t)) \cup Crediters(t)) =
             Cardinality((Engaged(t) \cup {r}) \cup HoldersOf(t)) + Cardinality(Crediters(t))
    BY <1>2, <2>1, <2>2, UnionAtMost
  <2>4. Cardinality(((Engaged(t) \cup {r}) \cup HoldersOf(t)) \cup Crediters(t)) <= Cardinality(Requests)
    BY <1>3, <2>1, FS_Subset
  <2>5. Cardinality(Requests) \in Nat
    BY EngagedCounted
  <2> QED BY <2>2, <2>3, <2>4, <2>5
<1> DEFINE w == IF worker.pc = "apply" THEN 1 ELSE 0
<1>6. /\ Cardinality(Accounted(t)') <= row[t].used + Cardinality(HoldersOf(t)) + StatsCap + w
      /\ Cardinality(Accounted(t)') \in Nat
  <2>1. IsFiniteSet(Accounted(t)) /\ Cardinality(Accounted(t)) \in Nat
    BY AccountedAtMost, FS_CardinalityType
  <2>2. Cardinality(Accounted(t)') <= Cardinality(Accounted(t)) /\ Cardinality(Accounted(t)') \in Nat
    BY <2>1, FS_Subset, FS_CardinalityType
  <2>3. Cardinality(Accounted(t)) <= row[t].used + Cardinality(HoldersOf(t)) + StatsCap + w
    BY AccountedAtMost
  <2> QED BY <1>1, <1>3, <2>1, <2>2, <2>3
<1>7. w + WorkerCredits(t) <= 1 /\ w \in 0 .. 1
  BY DEF WorkerCredits
<1> HIDE DEF w
<1> QED BY <1>1, <1>2, <1>3, <1>4, <1>5, <1>6, <1>7

(* A successful answer: the request turns into a bill.                     *)
LEMMA IssueBounds ==
    ASSUME BillingTypeOK, UsedInv, NEW t \in Tokens, OverrunAt(t), NEW r \in Engaged(t), NEW u,
           UNCHANGED row, Accounted(t)' \subseteq Accounted(t) \cup {u},
           Engaged(t)' \subseteq Engaged(t) \ {r}
    PROVE  OverrunAt(t)'
<1>1. /\ IsFiniteSet(Accounted(t)) /\ Cardinality(Accounted(t)) \in Nat
      /\ IsFiniteSet(Engaged(t)) /\ Cardinality(Engaged(t)) \in Nat
  BY AccountedAtMost, EngagedCounted, FS_CardinalityType
<1>2. /\ IsFiniteSet(Accounted(t) \cup {u})
      /\ Cardinality(Accounted(t) \cup {u}) <= Cardinality(Accounted(t)) + 1
      /\ IsFiniteSet(Engaged(t) \ {r})
      /\ Cardinality(Engaged(t) \ {r}) = Cardinality(Engaged(t)) - 1
  <2>1. /\ IsFiniteSet(Accounted(t) \cup {u})
        /\ Cardinality(Accounted(t) \cup {u}) =
             IF u \in Accounted(t) THEN Cardinality(Accounted(t)) ELSE Cardinality(Accounted(t)) + 1
    BY <1>1, FS_AddElement
  <2>2. IsFiniteSet(Engaged(t) \ {r}) /\ Cardinality(Engaged(t) \ {r}) = Cardinality(Engaged(t)) - 1
    BY <1>1, FS_RemoveElement
  <2> QED BY <1>1, <2>1, <2>2
<1>3. /\ Cardinality(Accounted(t)') <= Cardinality(Accounted(t) \cup {u})
      /\ Cardinality(Engaged(t)') <= Cardinality(Engaged(t) \ {r})
      /\ Cardinality(Accounted(t)') \in Nat /\ Cardinality(Engaged(t)') \in Nat
      /\ Cardinality(Accounted(t) \cup {u}) \in Nat /\ Cardinality(Engaged(t) \ {r}) \in Nat
  BY <1>2, FS_Subset, FS_CardinalityType
<1>4. row[t].limit \in Nat /\ Cardinality(Requests) \in Nat /\ StatsCap \in Nat
  BY RowNumbers
<1> QED BY <1>1, <1>2, <1>3, <1>4 DEF OverrunAt

-----------------------------------------------------------------------------
(* The steps *)

LEMMA ChargeKeepsLimits ==
    ASSUME BillingTypeOK, NEW u \in Updates, ChargeRow(u) \/ ChargeFails(u)
    PROVE  \A t \in Tokens : row'[t].limit = row[t].limit /\ row'[t].expires = row[t].expires
<1>1. row \in [Tokens -> Rows] /\ u.token \in Tokens
  BY DEF BillingTypeOK, Updates
<1>2. CASE ChargeRow(u)
  <2>1. row' = [row EXCEPT ![u.token].used = @ + Cardinality(Billed(u))]
    BY <1>2 DEF ChargeRow
  <2> QED BY <1>1, <2>1 DEF Rows
<1>3. CASE ChargeFails(u)
  BY <1>3 DEF ChargeFails
<1> QED BY <1>2, <1>3

LEMMA ChargesInHand ==
    ASSUME NEW u, ChargeRow(u) \/ ChargeFails(u), u.bill # NoBill => InHand(u)
    PROVE  \A v \in charged' : v \in charged \/ InHand(v)
BY DEF ChargeRow, ChargeFails, Billed

LEMMA CreditKeepsLimits ==
    ASSUME BillingTypeOK, NEW s \in Tokens, AddCostToCache(s)
    PROVE  \A t \in Tokens : /\ entry'[t] # NoEntry <=> entry[t] # NoEntry
                             /\ entry'[t].limit = entry[t].limit
                             /\ entry'[t].expires = entry[t].expires
<1>1. entry \in [Tokens -> Entries \cup {NoEntry}]
  BY DEF BillingTypeOK
<1>2. CASE entry[s] = NoEntry \/ Unlimited(entry[s])
  BY <1>2 DEF AddCostToCache
<1>3. CASE ~(entry[s] = NoEntry \/ Unlimited(entry[s]))
  <2>1. entry' = [entry EXCEPT ![s].used = @ + 1] /\ entry[s] \in Entries
    BY <1>1, <1>3 DEF AddCostToCache
  <2>2. entry'[s].limit = entry[s].limit /\ entry'[s].expires = entry[s].expires
    BY <1>1, <2>1 DEF Entries
  <2>3. entry'[s] # NoEntry
    BY <1>3, <2>2 DEF Unlimited, NoEntry
  <2>4. \A t \in Tokens \ {s} : entry'[t] = entry[t]
    BY <1>1, <2>1
  <2> QED BY <1>3, <2>2, <2>3, <2>4
<1> QED BY <1>2, <1>3

Bounded == \A t \in Tokens : KnownAt(t) /\ OverrunAt(t)

SameLimits == \A t \in Tokens : row'[t].limit = row[t].limit /\ row'[t].expires = row[t].expires

SameEntries ==
    \A t \in Tokens : /\ entry'[t] # NoEntry <=> entry[t] # NoEntry
                      /\ entry'[t].limit = entry[t].limit /\ entry'[t].expires = entry[t].expires

(* A step of a request that is not a check, a success or an eviction, and  *)
(* every step of the worker.                                               *)
LEMMA QuietBounds ==
    ASSUME BillingTypeOK, UsedInv, Bounded, SameLimits, SameEntries,
           \A u : InHand(u)' => InHand(u), \A u \in charged' : u \in charged \/ InHand(u),
           \A q \in Requests :
             \/ req'[q] = req[q]
             \/ req'[q].pc = "idle"
             \/ /\ req[q].pc # "idle" /\ req'[q].upd.token = req[q].upd.token
                /\ \/ req'[q].pc = "credit"
                   \/ /\ req[q].pc \in {"upstream", "finished", "send", "apply"}
                      /\ req'[q].pc \in {"upstream", "finished", "send", "apply"}
                      /\ req'[q].upd.bill = req[q].upd.bill
    PROVE  Bounded'
<1>1. ASSUME NEW t \in Tokens PROVE KnownAt(t)'
  BY DEF Bounded, KnownAt, SameLimits, SameEntries
<1>2. ASSUME NEW t \in Tokens PROVE OverrunAt(t)'
  <2>1. Accounted(t)' \subseteq Accounted(t)
    BY AccountedShrinks
  <2>2. Engaged(t)' \subseteq Engaged(t)
    BY DEF Engaged
  <2> QED BY <2>1, <2>2, NothingMore DEF Bounded, SameLimits
<1> QED BY <1>1, <1>2 DEF Bounded

LEMMA ArriveBounds ==
    ASSUME BillingTypeOK, UsedInv, Bounded, NEW r \in Requests, NEW s \in Tokens,
           Authenticate(r, s), UNCHANGED worker
    PROVE  Bounded'
<1>1. /\ req[r].pc = "idle" /\ entry[s] # NoEntry /\ UNCHANGED <<row, entry, statsCh, charged>>
      /\ req'[r].pc = (IF Expired(entry[s]) THEN "evict" ELSE "check")
      /\ req'[r].upd.token = s /\ \A q \in Requests \ {r} : req'[q] = req[q]
  BY DEF Authenticate, dbVars, BillingTypeOK
<1>2. \A u : InHand(u)' => InHand(u)
  BY <1>1 DEF InHand, Holding, Writing
<1>3. ASSUME NEW t \in Tokens PROVE KnownAt(t)'
  BY <1>1 DEF Bounded, KnownAt, Expired
<1>4. ASSUME NEW t \in Tokens PROVE OverrunAt(t)'
  <2>1. Accounted(t)' \subseteq Accounted(t)
    BY <1>1, <1>2, AccountedShrinks
  <2>2. Engaged(t)' \subseteq Engaged(t)
    BY <1>1 DEF Engaged
  <2> QED BY <1>1, <2>1, <2>2, NothingMore DEF Bounded
<1> QED BY <1>3, <1>4 DEF Bounded

LEMMA EvictBounds ==
    ASSUME BillingTypeOK, UsedInv, Bounded, NEW r \in Requests, Evict(r), UNCHANGED worker
    PROVE  Bounded'
<1> DEFINE s == req[r].upd.token
<1>1. /\ req[r].pc = "evict" /\ s \in Tokens /\ UNCHANGED <<row, statsCh, charged>>
      /\ entry'[s] = NoEntry /\ \A t \in Tokens \ {s} : entry'[t] = entry[t]
      /\ req'[r].pc = "idle" /\ \A q \in Requests \ {r} : req'[q] = req[q]
  BY DEF Evict, Finish, AtRest, dbVars, BillingTypeOK, Updates
<1>2. row[s].expires # 0
  BY <1>1 DEF Bounded, KnownAt
<1>3. \A u : InHand(u)' => InHand(u)
  BY <1>1 DEF InHand, Holding, Writing
<1>4. ASSUME NEW t \in Tokens PROVE KnownAt(t)'
  BY <1>1, <1>2 DEF Bounded, KnownAt
<1>5. ASSUME NEW t \in Tokens PROVE OverrunAt(t)'
  <2>1. Accounted(t)' \subseteq Accounted(t)
    BY <1>1, <1>3, AccountedShrinks
  <2>2. Engaged(t)' \subseteq Engaged(t)
    BY <1>1 DEF Engaged
  <2> QED BY <1>1, <2>1, <2>2, NothingMore DEF Bounded
<1> QED BY <1>4, <1>5 DEF Bounded

LEMMA CheckLimitBounds ==
    ASSUME BillingTypeOK, UsedInv, Bounded, \A t \in Tokens : FollowsAt(t),
           NEW r \in Requests, CheckLimit(r), UNCHANGED worker
    PROVE  Bounded'
<1> DEFINE s == req[r].upd.token
<1>1. /\ req[r].pc = "check" /\ s \in Tokens /\ UNCHANGED <<row, entry, statsCh, charged>>
      /\ \A q \in Requests \ {r} : req'[q] = req[q]
      /\ \/ req'[r].pc = "idle"
         \/ req'[r].pc = "upstream" /\ req'[r].upd = req[r].upd
            /\ (entry[s] # NoEntry /\ ~Unlimited(entry[s]) => ~(entry[s].used >= entry[s].limit))
  BY DEF CheckLimit, Goto, Finish, AtRest, dbVars, BillingTypeOK, Updates, RequestStates
<1>2. \A u : InHand(u)' => InHand(u)
  BY <1>1 DEF InHand, Holding, Writing
<1>3. ASSUME NEW t \in Tokens PROVE KnownAt(t)'
  BY <1>1 DEF Bounded, KnownAt
<1>4. ASSUME NEW t \in Tokens PROVE OverrunAt(t)'
  <2>1. Accounted(t)' \subseteq Accounted(t)
    BY <1>1, <1>2, AccountedShrinks
  <2>2. CASE t = s /\ req'[r].pc = "upstream" /\ row[t].limit > 0 /\ row[t].expires = 0
    <3>1. /\ entry[t] # NoEntry /\ entry[t].limit = row[t].limit
      BY <1>1, <2>2 DEF Bounded, KnownAt
    <3>2. ~Unlimited(entry[t]) /\ entry[t].used < entry[t].limit
      BY <1>1, <2>2, <3>1, RowNumbers DEF Unlimited
    <3>3. Engaged(t)' \subseteq Engaged(t) \cup {r}
      BY <1>1 DEF Engaged
    <3>4. FollowsAt(t) /\ req[r].pc = "check"
      BY <1>1
    <3> HIDE DEF s
    <3>5. Cardinality(Accounted(t)') + Cardinality(Engaged(t)')
             <= row[t].limit + Cardinality(Requests) + StatsCap
      BY <2>1, <3>1, <3>2, <3>3, <3>4, CheckBounds
    <3> QED BY <1>1, <3>5 DEF OverrunAt
  <2>3. CASE ~(t = s /\ req'[r].pc = "upstream")
    <3>1. Engaged(t)' \subseteq Engaged(t)
      BY <1>1, <2>3 DEF Engaged
    <3> QED BY <1>1, <2>1, <3>1, NothingMore DEF Bounded
  <2>4. CASE ~(row[t].limit > 0 /\ row[t].expires = 0)
    BY <1>1, <2>4 DEF OverrunAt
  <2> QED BY <2>2, <2>3, <2>4
<1> QED BY <1>3, <1>4 DEF Bounded

LEMMA AnswerBounds ==
    ASSUME BillingTypeOK, BillsInv, UsedInv, Bounded, NEW r \in Requests, Answered(r),
           UNCHANGED worker
    PROVE  Bounded'
<1> DEFINE s == req[r].upd.token
           b == [token |-> s, bill |-> issued + 1]
<1>1. /\ req[r].pc = "upstream" /\ s \in Tokens /\ UNCHANGED <<row, entry, statsCh, charged>>
      /\ \A q \in Requests \ {r} : req'[q] = req[q]
      /\ req[r].upd.bill = NoBill
  BY DEF Answered, Goto, Finish, dbVars, BillingTypeOK, Updates, BillsInv, Numbered
<1>2. CASE req' = [req EXCEPT ![r] = [pc |-> "finished", upd |-> b]] /\ issued' = issued + 1
  <2>1. /\ req'[r].pc = "finished" /\ req'[r].upd = b /\ b.token = s
        /\ b.bill = issued + 1 /\ issued \in Nat
    BY <1>2 DEF BillingTypeOK
  <2>2. b.bill # NoBill
    BY <2>1 DEF NoBill
  <2> HIDE DEF b
  <2>3. \A u : InHand(u)' => InHand(u) \/ u = b
    BY <1>1, <2>1 DEF InHand, Holding, Writing
  <2>4. ASSUME NEW t \in Tokens PROVE KnownAt(t)'
    BY <1>1, <2>1 DEF Bounded, KnownAt
  <2>5. ASSUME NEW t \in Tokens PROVE OverrunAt(t)'
    <3>1. Outstanding' \subseteq Outstanding \cup {b}
      BY <2>3, OutstandingInHand, OutstandingInHandNext
    <3>2. CASE t = s
      <4>1. Accounted(t)' \subseteq Accounted(t) \cup {b} /\ r \in Engaged(t)
            /\ Engaged(t)' \subseteq Engaged(t) \ {r}
        BY <1>1, <2>1, <2>2, <3>1, <3>2 DEF Accounted, Engaged
      <4> QED BY <1>1, <4>1, IssueBounds DEF Bounded
    <3>3. CASE t # s
      <4>1. Accounted(t)' \subseteq Accounted(t) /\ Engaged(t)' \subseteq Engaged(t)
        BY <1>1, <2>1, <3>1, <3>3 DEF Accounted, Engaged
      <4> QED BY <1>1, <4>1, NothingMore DEF Bounded
    <3> QED BY <3>2, <3>3
  <2> QED BY <2>4, <2>5 DEF Bounded
<1>3. CASE req' = [req EXCEPT ![r].pc = "finished"] \/ Finish(r)
  <2>1. \/ req'[r].pc = "finished" /\ req'[r].upd = req[r].upd
        \/ req'[r].pc = "idle"
    BY <1>3 DEF Finish, AtRest, BillingTypeOK, RequestStates
  <2>2. \A u : InHand(u)' => InHand(u)
    BY <1>1, <2>1 DEF InHand, Holding, Writing
  <2> QED BY <1>1, <2>1, <2>2, QuietBounds DEF SameLimits, SameEntries
<1> QED BY <1>2, <1>3 DEF Answered, Goto

LEMMA ReportBounds ==
    ASSUME BillingTypeOK, UsedInv, Bounded, NEW r \in Requests, UNCHANGED worker,
           LookAtShutdown(r) \/ Send(r) \/ ApplyItself(r) \/ CreditItself(r)
    PROVE  Bounded'
<1> DEFINE s == req[r].upd.token
<1>1. /\ s \in Tokens /\ req[r].upd \in Updates /\ req[r].pc \in {"finished", "send", "apply", "credit"}
      /\ \A q \in Requests \ {r} : req'[q] = req[q]
      /\ DOMAIN req = Requests /\ req[r] \in RequestStates
  BY DEF LookAtShutdown, Send, ApplyItself, CreditItself, Reported, Goto, Finish, BillingTypeOK, Updates
<1>2. Reported(r) => \/ req'[r].pc = "idle"
                     \/ /\ req'[r].pc = "upstream" /\ req'[r].upd = req[r].upd
                        /\ req[r].upd.bill = NoBill
  BY <1>1 DEF Reported, Finish, AtRest, RequestStates
<1>3. CASE LookAtShutdown(r)
  <2>1. req'[r].pc \in {"send", "apply"} /\ req'[r].upd = req[r].upd /\ req[r].pc = "finished"
    BY <1>1, <1>3 DEF LookAtShutdown, Goto, RequestStates
  <2>2. \A u : InHand(u)' => InHand(u)
    BY <1>1, <1>3, <2>1 DEF InHand, Holding, Writing, LookAtShutdown
  <2> QED BY <1>1, <1>3, <2>1, <2>2, QuietBounds DEF SameLimits, SameEntries, LookAtShutdown, dbVars
<1>4. CASE Send(r)
  <2>1. /\ req[r].pc = "send" /\ Reported(r) /\ UNCHANGED <<row, entry, charged>>
        /\ statsCh' = statsCh \/ statsCh' = Append(statsCh, req[r].upd)
        /\ statsCh \in Seq(Updates)
    BY <1>4 DEF Send, BillingTypeOK
  <2>2. ASSUME NEW i \in DOMAIN statsCh'
        PROVE  \/ i \in DOMAIN statsCh /\ statsCh'[i] = statsCh[i]
               \/ statsCh'[i] = req[r].upd
    BY <1>1, <2>1
  <2>3. \A u : InHand(u)' => InHand(u)
    BY <1>1, <1>2, <2>1, <2>2 DEF InHand, Holding, Writing
  <2> QED BY <1>1, <1>2, <2>1, <2>3, QuietBounds DEF SameLimits, SameEntries
<1>5. CASE ApplyItself(r)
  <2>1. /\ req[r].pc = "apply" /\ UNCHANGED <<entry, statsCh>>
        /\ ChargeRow(req[r].upd) \/ ChargeFails(req[r].upd)
        /\ Reported(r) \/ Goto(r, "credit")
    BY <1>5 DEF ApplyItself
  <2>2. Goto(r, "credit") => req'[r].pc = "credit" /\ req'[r].upd = req[r].upd
    BY <1>1 DEF Goto, RequestStates
  <2>3. \A u : InHand(u)' => InHand(u)
    BY <1>1, <1>2, <2>1, <2>2 DEF InHand, Holding, Writing
  <2>4. req[r].upd.bill # NoBill => InHand(req[r].upd)
    BY <2>1 DEF InHand, Holding
  <2>5. \A u \in charged' : u \in charged \/ InHand(u)
    BY <2>1, <2>4, ChargesInHand
  <2>6. SameLimits
    BY <1>1, <2>1, ChargeKeepsLimits DEF SameLimits
  <2> QED BY <1>1, <1>2, <2>1, <2>2, <2>3, <2>5, <2>6, QuietBounds DEF SameEntries
<1>6. CASE CreditItself(r)
  <2>1. req'[r].pc = "idle" /\ UNCHANGED <<row, charged, statsCh>> /\ AddCostToCache(s)
    BY <1>1, <1>6 DEF CreditItself, Finish, AtRest, dbVars
  <2>2. \A u : InHand(u)' => InHand(u)
    BY <1>1, <2>1 DEF InHand, Holding, Writing
  <2>3. SameEntries
    BY <1>1, <2>1, CreditKeepsLimits DEF SameEntries
  <2> QED BY <1>1, <2>1, <2>2, <2>3, QuietBounds DEF SameLimits
<1> QED BY <1>3, <1>4, <1>5, <1>6

LEMMA WorkerBounds ==
    ASSUME BillingTypeOK, UsedInv, Bounded, WorkerStep
    PROVE  Bounded'
<1>1. /\ UNCHANGED req /\ worker \in WorkerStates /\ statsCh \in Seq(Updates)
      /\ worker.pc \in {"apply", "credit"} => worker.upd \in Updates /\ worker.upd.token \in Tokens
  BY DEF WorkerStep, BillingTypeOK, Updates
<1>2. Back => worker'.pc \in {"idle", "drain"}
  BY <1>1 DEF Back, WorkerStates
<1>3. CASE Takes
  <2>1. /\ statsCh # <<>> /\ statsCh' = Tail(statsCh) /\ worker'.upd = statsCh[1]
        /\ 1 \in DOMAIN statsCh /\ UNCHANGED <<row, entry, charged>>
    BY <1>1, <1>3 DEF Takes, WorkerStates, dbVars
  <2>2. ASSUME NEW i \in DOMAIN statsCh' PROVE \E j \in DOMAIN statsCh : statsCh'[i] = statsCh[j]
    <3>1. i + 1 \in DOMAIN statsCh /\ statsCh'[i] = statsCh[i + 1]
      BY <1>1, <2>1
    <3> QED BY <3>1
  <2>3. \A u : InHand(u)' => InHand(u)
    BY <1>1, <2>1, <2>2 DEF InHand, Holding, Writing
  <2> QED BY <1>1, <2>1, <2>3, QuietBounds DEF SameLimits, SameEntries
<1>4. CASE Applies
  <2>1. /\ worker.pc = "apply" /\ UNCHANGED <<entry, statsCh>>
        /\ ChargeRow(worker.upd) \/ ChargeFails(worker.upd)
        /\ worker'.pc # "apply"
    BY <1>1, <1>2, <1>4 DEF Applies, WorkerStates
  <2>2. \A u : InHand(u)' => InHand(u)
    BY <1>1, <2>1 DEF InHand, Holding, Writing
  <2>3. worker.upd.bill # NoBill => InHand(worker.upd)
    BY <2>1 DEF InHand, Writing
  <2>4. \A u \in charged' : u \in charged \/ InHand(u)
    BY <2>1, <2>3, ChargesInHand
  <2>5. SameLimits
    BY <1>1, <2>1, ChargeKeepsLimits DEF SameLimits
  <2> QED BY <1>1, <2>1, <2>2, <2>4, <2>5, QuietBounds DEF SameEntries
<1>5. CASE Credits
  <2>1. /\ worker.pc = "credit" /\ worker'.pc # "apply" /\ UNCHANGED <<row, charged, statsCh>>
        /\ AddCostToCache(worker.upd.token)
    BY <1>1, <1>2, <1>5 DEF Credits, dbVars
  <2>2. \A u : InHand(u)' => InHand(u)
    BY <1>1, <2>1 DEF InHand, Holding, Writing
  <2>3. SameEntries
    BY <1>1, <2>1, CreditKeepsLimits DEF SameEntries
  <2> QED BY <1>1, <2>1, <2>2, <2>3, QuietBounds DEF SameLimits
<1>6. CASE SeesShutdown \/ Stops
  <2>1. worker'.pc # "apply" /\ UNCHANGED <<row, entry, charged, statsCh>>
    BY <1>1, <1>6 DEF SeesShutdown, Stops, dbVars, WorkerStates
  <2>2. \A u : InHand(u)' => InHand(u)
    BY <1>1, <2>1 DEF InHand, Holding, Writing
  <2> QED BY <1>1, <2>1, <2>2, QuietBounds DEF SameLimits, SameEntries
<1> QED BY <1>3, <1>4, <1>5, <1>6 DEF WorkerStep

LEMMA OverrunInit == BillingInit => OverrunInv
<1> SUFFICES ASSUME BillingInit, NEW t \in Tokens PROVE KnownAt(t) /\ OverrunAt(t)
  BY DEF OverrunInv
<1>1. BillingTypeOK /\ UsedInv
  BY TypeInit, UsedInitially
<1>2. KnownAt(t)
  BY DEF KnownAt, BillingInit, AtRest, ListActiveAuthTokens, NoEntry
<1>3. Engaged(t) = {} /\ Accounted(t) = {}
  <2>1. \A u : ~InHand(u)
    BY DEF BillingInit, InHand, Holding, Writing, AtRest
  <2>2. Outstanding = {} /\ charged = {}
    BY <2>1, OutstandingInHand DEF BillingInit
  <2> QED BY <2>2 DEF Accounted, Engaged, BillingInit, AtRest
<1>4. OverrunAt(t)
  BY <1>1, <1>3, RowNumbers, FS_EmptySet DEF OverrunAt
<1> QED BY <1>2, <1>4

LEMMA OverrunStep ==
    ASSUME BillingTypeOK, BillsInv, UsedInv, FollowInv, OverrunInv, [BillingNext]_billingVars
    PROVE  OverrunInv'
<1> USE DEF OverrunInv
<1>1. Bounded' => OverrunInv'
  BY DEF Bounded
<1>2. ASSUME edits = 0 PROVE Bounded /\ \A t \in Tokens : FollowsAt(t)
  BY <1>2 DEF Bounded, FollowInv
<1>3. ASSUME NEW r \in Requests, Arrive(r) \/ RequestStep(r)
      PROVE  OverrunInv'
  <2>1. UNCHANGED <<edits, worker>>
    BY <1>3 DEF Arrive, RequestStep
  <2>2. edits = 0 => Bounded'
    BY <1>2, <1>3, <2>1, ArriveBounds, EvictBounds, CheckLimitBounds, AnswerBounds, ReportBounds
       DEF Arrive, RequestStep
  <2> QED BY <2>1, <2>2 DEF Bounded
<1>4. CASE WorkerStep
  <2>1. UNCHANGED edits
    BY <1>4 DEF WorkerStep
  <2>2. edits = 0 => Bounded'
    BY <1>2, <1>4, WorkerBounds
  <2> QED BY <2>1, <2>2 DEF Bounded
<1>5. ASSUME NEW a \in Admins, AdminBegins(a) \/ AdminStep(a)
      PROVE  OverrunInv'
  <2>1. edits' # 0
    <3>1. CASE AdminBegins(a)
      BY <3>1 DEF AdminBegins, BillingTypeOK
    <3>2. CASE AdminStep(a)
      BY <3>2 DEF FollowInv, AdminStep, WritesToken, SelectsTokens, ReplacesEntries
    <3> QED BY <1>5, <3>1, <3>2
  <2> QED BY <2>1
<1>6. CASE Shutdown \/ CloseShutdownCh \/ CloseStore \/ Tick \/ UNCHANGED billingVars
  <2>1. UNCHANGED <<row, entry, req, worker, statsCh, charged, edits>>
    BY <1>6 DEF Shutdown, CloseShutdownCh, CloseStore, Unattended, Tick, billingVars
  <2>2. \A u : InHand(u)' => InHand(u)
    BY <2>1 DEF InHand, Holding, Writing
  <2>3. edits = 0 => Bounded'
    BY <1>2, <2>1, <2>2, QuietBounds DEF SameLimits, SameEntries
  <2> QED BY <2>1, <2>3 DEF Bounded
<1> QED BY <1>3, <1>4, <1>5, <1>6 DEF BillingNext

(* However many requests pass the check at once (IsCostLimitExceeded       *)
(* reads an entry that is credited only after the row, AddCostToCache),    *)
(* and whatever fails: a token gets over its limit by no more than the     *)
(* requests, the queue and the worker can hold.                            *)
THEOREM OverrunIsBounded == BillingSpec => []OverrunBounded
<1>1. /\ BillingTypeOK /\ BillsInv /\ [BillingNext]_billingVars => BillsInv'
      /\ BillingTypeOK /\ BillsInv /\ UsedInv /\ [BillingNext]_billingVars => UsedInv'
      /\ BillingTypeOK /\ FollowInv /\ [BillingNext]_billingVars => FollowInv'
      /\ BillingTypeOK /\ BillsInv /\ UsedInv /\ FollowInv /\ OverrunInv /\ [BillingNext]_billingVars
           => OverrunInv'
  BY LedgerNextStep, UsedStep, FollowStep, OverrunStep
<1>2. BillingInit => BillsInv /\ UsedInv /\ FollowInv /\ OverrunInv
  BY LedgerInitially, UsedInitially, FollowInit, OverrunInit
<1>3. BillingTypeOK /\ UsedInv /\ OverrunInv => OverrunBounded
  <2> SUFFICES ASSUME BillingTypeOK, UsedInv, OverrunInv, edits = 0, NEW t \in Tokens,
                      row[t].limit > 0, row[t].expires = 0
               PROVE  row[t].used <= row[t].limit + Cardinality(Requests) + StatsCap
    BY DEF OverrunBounded
  <2>1. Cardinality(Accounted(t)) + Cardinality(Engaged(t))
          <= row[t].limit + Cardinality(Requests) + StatsCap
    BY DEF OverrunInv, OverrunAt
  <2>2. row[t].used <= Cardinality(Accounted(t)) /\ Cardinality(Accounted(t)) \in Nat
    BY AccountedAtMost, FS_CardinalityType
  <2> QED BY <2>1, <2>2, RowNumbers, EngagedCounted
<1> QED BY <1>1, <1>2, <1>3, BillingTypeCorrect, PTL DEF BillingSpec
=============================================================================
