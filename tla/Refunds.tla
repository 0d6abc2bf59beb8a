-------------------------------- MODULE Refunds --------------------------------
(***************************************************************************)
(* The refunds of one paid order: RefundService, the refund events of       *)
(* PaymentWebhookService and the gateway behind both.                       *)
(*                                                                          *)
(* A refund a bank has to confirm comes back pending: its amount is         *)
(* reserved, and the credit note, the restock and the order's new status    *)
(* wait in the deferred payload for the confirming event.  The order row's  *)
(* lock orders the transactions; what a handler reads before it takes the   *)
(* lock is a step of its own.  The order has one line of Qty units at price *)
(* 1 and its shipping; "paid" stands for every status a refund may leave    *)
(* and a cancellation or completion may still end.                          *)
(***************************************************************************)
EXTENDS Integers, FiniteSets

CONSTANTS
  Refunds,     \* gateway refunds, also the idempotency keys of admin requests
  Workers,     \* concurrent deliveries of refund events
  Qty,         \* units of the order line
  Shipping,    \* what the order cost beyond its units
  Asks,        \* the refunds an admin may request
  Overlap,     \* may two deliveries about one refund run at once?
  MaxCrashes,  \* how many requests and deliveries die on the way
  Nobody

Ask == [lines: 1..Qty, restock: BOOLEAN] \cup [amount: 1..(Qty + Shipping)] \cup [full: {TRUE}, restock: BOOLEAN]

ASSUME RefundsAssumption ==
  /\ IsFiniteSet(Refunds) /\ Nobody \notin Refunds
  /\ Qty \in Nat \ {0} /\ Shipping \in Nat /\ MaxCrashes \in Nat
  /\ Asks \subseteq Ask /\ Overlap \in BOOLEAN

VARIABLES
  status,    \* orders.status
  refunded,  \* orders.refunded_amount
  row,       \* [Refunds -> Row]  the refunds row by provider_refund_id
  notes,     \* [Refunds -> Nat]  credit notes issued
  shelf,     \* units the refunds put back into stock
  lock,      \* the admin request that holds the order row
  desk,      \* [Refunds -> Desk]  the admin's requests
  processed, \* payment_events: the events with processed_at set
  jobs,      \* [Workers -> Job]  the deliveries being handled
  gw,        \* the gateway: [Refunds -> [st, amount, reply]]
  sent,      \* the gateway: events emitted
  crashes

books   == <<status, refunded, row, notes, shelf>>
gateway == <<gw, sent>>
vars    == <<books, lock, desk, processed, jobs, gateway, crashes>>

-----------------------------------------------------------------------------
Total == Qty + Shipping

(* mapRefundStatus *)
Outcome == {"pending", "succeeded", "failed"}
Event   == [r: Refunds, st: Outcome]
Ev(r, s) == [r |-> r, st |-> s]

(* What computeRefund returns. *)
Plan == [amount: 1..Total, units: 0..Qty, back: 0..Qty]

(* A refund, its line items, and its deferred payload while it has one. *)
NoRow == [st |-> "none"]
Row   == {NoRow} \cup [st: Outcome, plan: Plan, deferred: BOOLEAN, target: {"partially_refunded", "refunded"}, drive: BOOLEAN]

Recorded == {r \in Refunds : row[r] # NoRow}

Idle == [at |-> "idle"]
Desk == {Idle} \cup [at: {"locked", "called", "answered", "refused", "again"}, ask: Asks, plan: Plan, reply: Outcome]
Job  == {Idle} \cup [at: {"claimed", "new", "confirmed", "rejected", "confirming", "rejecting", "restate", "finished"}, ev: Event]

(* The sum of what each refund has, at most Total: its units, one by one.   *)
Sum(has) == Cardinality({u \in Refunds \X (1..Total) : u[2] <= has[u[1]]})

(* Mutant: only the refunds that are confirmed count. *)
ConfirmedUnits == Sum([r \in Refunds |-> IF row[r].st = "succeeded" THEN row[r].plan.units ELSE 0])

(* sumRefundedQtyForOrderItem: of every refund, pending and failed ones too *)
RefundedUnits == Sum([r \in Refunds |-> IF r \in Recorded THEN row[r].plan.units ELSE 0])

(* computeRefund: by lines, by amount, or all that remains. *)
PlanOf(ask) ==
  CASE "lines" \in DOMAIN ask ->
         [amount |-> ask.lines, units |-> ask.lines, back |-> IF ask.restock THEN ask.lines ELSE 0]
    [] "amount" \in DOMAIN ask ->
         [amount |-> ask.amount, units |-> 0, back |-> 0]
    [] "full" \in DOMAIN ask ->
         [amount |-> Total - refunded, units |-> 0, back |-> IF ask.restock THEN Qty - RefundedUnits ELSE 0]

(* The checks of the amount and the units against what remains. *)
Fits(p) == p.amount \in 1..(Total - refunded) /\ RefundedUnits + p.units <= Qty

TargetOf(p)  == IF refunded + p.amount >= Total THEN "refunded" ELSE "partially_refunded"

(* canTransition to either of the two *)
Refundable == status \in {"paid", "partially_refunded"}

(* Mutant: the effects of a pending refund are applied at once. *)
NeverDeferred(s) == FALSE

Deferred(s) == s = "pending"

-----------------------------------------------------------------------------
(* create(), once the order is locked and the gateway has answered s. *)

(* Mutant: the units are taken from the stock again. *)
TakesAgain(r, p, target, drive) ==
  /\ shelf' = shelf - p.back
  /\ notes' = [notes EXCEPT ![r] = @ + 1]
  /\ status' = IF drive /\ Refundable THEN target ELSE status

(* Restock, credit note and the order's status. *)
Effects(r, p, target, drive) ==
  /\ shelf' = shelf + p.back
  /\ notes' = [notes EXCEPT ![r] = @ + 1]
  /\ status' = IF drive /\ Refundable THEN target ELSE status

(* The refund is inserted and its amount reserved, whatever it waits for. *)
RecordRefund(r, p, s) ==
  /\ row' = [row EXCEPT ![r] = [st |-> s, plan |-> p, deferred |-> Deferred(s), target |-> TargetOf(p), drive |-> Refundable]]
  /\ refunded' = refunded + p.amount
  /\ IF Deferred(s) THEN UNCHANGED <<shelf, notes, status>> ELSE Effects(r, p, TargetOf(p), Refundable)

-----------------------------------------------------------------------------
(* The admin's request, or the approval of a return. *)

(* Lock the order, compute, check.  A request that fails a check changes    *)
(* nothing; one that died is sent again under its key.                      *)
LockForRefund(r, ask) ==
  /\ lock = Nobody /\ Refundable /\ Fits(PlanOf(ask))
  /\ \/ desk[r] = Idle /\ gw[r].st = "none"
     \/ desk[r].at = "again" /\ desk[r].ask = ask
  /\ desk' = [desk EXCEPT ![r] = [at |-> "locked", ask |-> ask, plan |-> PlanOf(ask), reply |-> "pending"]]
  /\ lock' = r
  /\ UNCHANGED <<books, processed, jobs, gateway, crashes>>

(* What the gateway has not yet given back bounds a new refund there too. *)
Refunding == Sum([r \in Refunds |-> IF gw[r].st \in {"pending", "succeeded"} THEN gw[r].amount ELSE 0])

NewAtGateway(r, amount, s) ==
  /\ gw[r].st = "none"
  /\ Refunding + amount <= Total
  /\ gw' = [gw EXCEPT ![r] = [st |-> s, amount |-> amount, reply |-> s]]
  /\ sent' = sent \cup {Ev(r, s)}

(* A known key replays the first reply, if the amount is the same.  A       *)
(* refund that failed, or a gateway that refuses, rolls the request back.   *)
CallGateway(r) ==
  /\ desk[r].at = "locked"
  /\ \E s \in Outcome :
       LET taken == desk[r].plan.amount = gw[r].amount /\ s = gw[r].reply
       IN /\ \/ NewAtGateway(r, desk[r].plan.amount, s)
             \/ gw[r].st # "none" /\ (taken \/ s = "failed") /\ UNCHANGED gateway
             \/ gw[r].st = "none" /\ s = "failed" /\ UNCHANGED gateway
          /\ desk' = [desk EXCEPT ![r].at = IF s = "failed" THEN "refused" ELSE "called", ![r].reply = s]
          /\ lock' = IF s = "failed" THEN Nobody ELSE lock
  /\ UNCHANGED <<books, processed, jobs, crashes>>

(* The retry of a refund that is recorded by now is answered 409. *)
Commit(r) ==
  /\ desk[r].at = "called"
  /\ IF r \in Recorded THEN UNCHANGED books ELSE RecordRefund(r, desk[r].plan, desk[r].reply)
  /\ desk' = [desk EXCEPT ![r].at = "answered"]
  /\ lock' = Nobody
  /\ UNCHANGED <<processed, jobs, gateway, crashes>>

(* The transaction is rolled back after the gateway's answer, or its        *)
(* response is lost after the commit.                                       *)
RequestDies(r) ==
  /\ desk[r].at \in {"locked", "called", "answered"} /\ crashes < MaxCrashes
  /\ desk' = [desk EXCEPT ![r].at = "again"]
  /\ lock' = IF lock = r THEN Nobody ELSE lock
  /\ crashes' = crashes + 1
  /\ UNCHANGED <<books, processed, jobs, gateway>>

(* transition() to cancelled or completed. *)
CloseOrder ==
  /\ lock = Nobody /\ status = "paid"
  /\ status' = "closed"
  /\ UNCHANGED <<refunded, row, notes, shelf, lock, desk, processed, jobs, gateway, crashes>>

-----------------------------------------------------------------------------
(* The gateway. *)

(* A refund made on the gateway's dashboard. *)
Dashboard(r) ==
  /\ desk[r] = Idle
  /\ \E amount \in 1..Total, s \in {"pending", "succeeded"} : NewAtGateway(r, amount, s)
  /\ UNCHANGED <<books, lock, desk, processed, jobs, crashes>>

(* The bank decides about a pending refund; a refund that succeeded may     *)
(* still bounce.                                                            *)
Decide(r) ==
  /\ \E s \in {"succeeded", "failed"} :
       /\ gw[r].st = "pending" \/ (gw[r].st = "succeeded" /\ s = "failed")
       /\ gw' = [gw EXCEPT ![r].st = s]
       /\ sent' = sent \cup {Ev(r, s)}
  /\ UNCHANGED <<books, lock, desk, processed, jobs, crashes>>

-----------------------------------------------------------------------------
(* processWebhook and reconcileGatewayRefund. *)

Goto(w, at) == jobs' = [jobs EXCEPT ![w].at = at]
Busy(r)     == \E w \in Workers : jobs[w] # Idle /\ jobs[w].ev.r = r

(* charge.refunded tells of the same succeeded refund: one event here. *)
Claim(w, e) ==
  /\ jobs[w] = Idle /\ e \in sent \ processed
  /\ Overlap \/ ~Busy(e.r)
  /\ jobs' = [jobs EXCEPT ![w] = [at |-> "claimed", ev |-> e]]
  /\ UNCHANGED <<books, lock, desk, processed, gateway, crashes>>

(* findByProviderRefundId, unlocked, and what to do about the refund. *)
FindRefund(w) ==
  LET known == row[jobs[w].ev.r].st
      says  == jobs[w].ev.st
  IN /\ jobs[w].at = "claimed"
     /\ Goto(w, CASE known = "none" -> "new"
                  [] <<known, says>> = <<"pending", "succeeded">> -> "confirmed"
                  [] known \in {"pending", "succeeded"} /\ says = "failed" -> "rejected"
                  [] <<known, says>> \in {<<"succeeded", "pending">>, <<"failed", "pending">>, <<"failed", "succeeded">>} -> "restate"
                  [] OTHER -> "finished")
     /\ UNCHANGED <<books, lock, desk, processed, gateway, crashes>>

(* The transaction's own read, before it waits for the order. *)
ReadRefund(w) ==
  LET open == row[jobs[w].ev.r].st = "pending" /\ row[jobs[w].ev.r].deferred
  IN /\ \/ jobs[w].at = "confirmed" /\ Goto(w, IF open THEN "confirming" ELSE "finished")
        \/ jobs[w].at = "rejected"  /\ Goto(w, IF open THEN "rejecting" ELSE "finished")
     /\ UNCHANGED <<books, lock, desk, processed, gateway, crashes>>

(* Mutant: the payload is kept. *)
KeepPayload(r, s) == [row EXCEPT ![r].st = s]

(* settleDeferred *)
Settled(r, s) == [row EXCEPT ![r].st = s, ![r].deferred = FALSE]

(* applyDeferredRefund *)
ApplyDeferred(w) ==
  LET r == jobs[w].ev.r
  IN /\ jobs[w].at = "confirming" /\ lock = Nobody
     /\ Effects(r, row[r].plan, row[r].target, row[r].drive)
     /\ row' = Settled(r, "succeeded")
     /\ Goto(w, "finished")
     /\ UNCHANGED <<refunded, lock, desk, processed, gateway, crashes>>

(* backOutFailedRefund *)
BackOut(w) ==
  LET r == jobs[w].ev.r
  IN /\ jobs[w].at = "rejecting" /\ lock = Nobody
     /\ refunded' = IF refunded < row[r].plan.amount THEN 0 ELSE refunded - row[r].plan.amount
     /\ row' = Settled(r, "failed")
     /\ Goto(w, "finished")
     /\ UNCHANGED <<status, notes, shelf, lock, desk, processed, gateway, crashes>>

(* updateStatus, without a lock *)
Restate(w) ==
  /\ jobs[w].at = "restate"
  /\ row' = [row EXCEPT ![jobs[w].ev.r].st = jobs[w].ev.st]
  /\ Goto(w, "finished")
  /\ UNCHANGED <<status, refunded, notes, shelf, lock, desk, processed, gateway, crashes>>

(* Mutant: a refund that cannot be recorded is an error, sent again for ever *)
Rethrown(w) == Idle

Swallowed(w) == [jobs[w] EXCEPT !.at = "finished"]

(* create() for a refund made at the gateway: any status of the order will  *)
(* do; a failed one, a duplicate or an amount beyond what remains is logged *)
(* and forgotten.                                                           *)
CreateExternal(w) ==
  LET r == jobs[w].ev.r
      p == [amount |-> gw[r].amount, units |-> 0, back |-> 0]
  IN /\ jobs[w].at = "new" /\ lock = Nobody
     /\ \/ /\ jobs[w].ev.st # "failed" /\ r \notin Recorded /\ Fits(p)
           /\ RecordRefund(r, p, jobs[w].ev.st)
           /\ Goto(w, "finished")
        \/ /\ jobs[w].ev.st = "failed" \/ r \in Recorded \/ ~Fits(p)
           /\ jobs' = [jobs EXCEPT ![w] = Swallowed(w)]
           /\ UNCHANGED books
     /\ UNCHANGED <<lock, desk, processed, gateway, crashes>>

MarkProcessed(w) ==
  /\ jobs[w].at = "finished"
  /\ processed' = processed \cup {jobs[w].ev}
  /\ jobs' = [jobs EXCEPT ![w] = Idle]
  /\ UNCHANGED <<books, lock, desk, gateway, crashes>>

DeliveryDies(w) ==
  /\ jobs[w] # Idle /\ crashes < MaxCrashes
  /\ jobs' = [jobs EXCEPT ![w] = Idle]
  /\ crashes' = crashes + 1
  /\ UNCHANGED <<books, lock, desk, processed, gateway>>

-----------------------------------------------------------------------------
Init ==
  /\ status = "paid" /\ refunded = 0 /\ shelf = 0 /\ lock = Nobody
  /\ row = [r \in Refunds |-> NoRow] /\ notes = [r \in Refunds |-> 0]
  /\ desk = [r \in Refunds |-> Idle] /\ jobs = [w \in Workers |-> Idle]
  /\ processed = {} /\ sent = {}
  /\ gw = [r \in Refunds |-> [st |-> "none", amount |-> 0, reply |-> "failed"]]
  /\ crashes = 0

Request(r) == CallGateway(r) \/ Commit(r)

Handle(w) ==
  \/ FindRefund(w) \/ ReadRefund(w) \/ ApplyDeferred(w) \/ BackOut(w) \/ Restate(w)
  \/ CreateExternal(w) \/ MarkProcessed(w)

Next ==
  \/ \E r \in Refunds : \/ \E ask \in Asks : LockForRefund(r, ask)
                        \/ Request(r) \/ RequestDies(r) \/ Dashboard(r) \/ Decide(r)
  \/ CloseOrder
  \/ \E w \in Workers : Handle(w) \/ DeliveryDies(w) \/ \E e \in Event : Claim(w, e)

Spec == Init /\ [][Next]_vars

(* The gateway's calls return or time out, a transaction whose locks are    *)
(* free goes on, and an event is sent again until it is answered 200.       *)
Fairness ==
  /\ \A r \in Refunds : WF_vars(Request(r))
  /\ \A w \in Workers : WF_vars(Handle(w))
  /\ \A e \in Event : WF_vars(\E w \in Workers : Claim(w, e))

FairSpec == Spec /\ Fairness
-----------------------------------------------------------------------------
(* Properties. *)

(* Every variable has its type. *)
TypeOK ==
  /\ status \in {"paid", "partially_refunded", "refunded", "closed"}
  /\ refunded \in Nat /\ row \in [Refunds -> Row] /\ notes \in [Refunds -> Nat] /\ shelf \in Nat
  /\ lock \in Refunds \cup {Nobody} /\ desk \in [Refunds -> Desk] /\ jobs \in [Workers -> Job]
  /\ processed \subseteq sent /\ sent \subseteq Event
  /\ gw \in [Refunds -> [st: Outcome \cup {"none"}, amount: Nat, reply: Outcome]]
  /\ crashes \in Nat

(* The refunds whose money is credited or still waits for the bank. *)
Standing == {r \in Recorded : row[r].deferred \/ notes[r] > 0}

(* orders.refunded_amount is the money of exactly those refunds that are    *)
(* credited or still wait for the bank, and never more than was paid: no    *)
(* reservation is lost, kept after a rejection or taken twice, whatever     *)
(* order the retries, dashboard refunds and events come in.                 *)
ReservationsBalance ==
  /\ refunded <= Total
  /\ refunded = Sum([r \in Refunds |-> IF r \in Standing THEN row[r].plan.amount ELSE 0])

(* The fiscal side of a refund waits for its money: a credit note is issued *)
(* only for a refund the gateway has reported as succeeded.                 *)
CreditNoteIsConfirmed == \A r \in Refunds : notes[r] > 0 => Ev(r, "succeeded") \in sent

(* As long as the bank has rejected none of them, full and line refunds,    *)
(* deferred or not, never put more units back on the shelf than the order   *)
(* took: whatever a full refund restocks, it leaves no money for another.   *)
ReturnedWithinOrder == Recorded = Standing => shelf <= Qty

(* computeRefund's comment, "Restock only the NOT-yet-refunded quantity per *)
(* line": no refund puts a unit back that another one has put back.         *)
RestockedOnce == shelf <= Qty

(* No refund event is poison: each is processed in the end, also the ones   *)
(* that cannot be recorded and those that wait for an admin's transaction.  *)
EventsSettle == sent # processed ~> sent = processed

(* applyDeferredRefund's comment: the deferred effects are replayed exactly *)
(* once, a duplicate succeeded event is a no-op.                            *)
CreditNoteOnce == \A r \in Refunds : notes[r] <= 1

(* What a refund is to its order: unknown, waiting for the bank with its    *)
(* money reserved, credited, or released.                                   *)
EntryOf(r) ==
  IF r \notin Recorded THEN [st |-> "none"]
  ELSE [st     |-> IF row[r].deferred THEN "reserved" ELSE IF notes[r] > 0 THEN "credited" ELSE "released",
        amount |-> row[r].plan.amount,
        back   |-> row[r].plan.back]

Entries == [r \in Refunds |-> EntryOf(r)]

Account == INSTANCE RefundLedger WITH entry <- Entries, balance <- refunded

(* Requests retried under their key, dashboard refunds and events repeated  *)
(* or out of order come to one ledger: every refund takes its money once,   *)
(* and is once credited, its units going back in that step, or once         *)
(* released, never one after the other.                                     *)
ImplementsLedger == Account!Spec

=============================================================================
