------------------------------- MODULE Fulfilment -------------------------------
(***************************************************************************)
(* One paid order until it is delivered or paid back: the staff move it     *)
(* along and decide its returns, Stripe opens disputes that freeze it, and  *)
(* an approved return refunds it.  All of them meet on the lock of its row  *)
(* (findByIdForUpdate).                                                     *)
(*                                                                          *)
(* The order has one line of Units units at price 1.  The columns           *)
(* refunded_amount and refunded_quantity are the sums over its refunds, and *)
(* a delivery of a refund event is one step: how those come to agree is the *)
(* subject of Refunds.                                                      *)
(***************************************************************************)
EXTENDS Integers, FiniteSets

CONSTANTS
  Staff,     \* requests of the back office, one after the other each
  Workers,   \* deliveries of dispute events handled at the same time
  Disputes,
  Verdicts,  \* how Stripe closes a dispute
  Returns,
  Units,
  MaxFaults, \* how many transactions fail or processes die
  Nobody

ASSUME FulfilmentAssumption ==
  /\ IsFiniteSet(Staff) /\ IsFiniteSet(Workers) /\ IsFiniteSet(Disputes) /\ IsFiniteSet(Returns)
  /\ Staff \cap Workers = {} /\ Nobody \notin Staff \cup Workers \cup Returns
  /\ Verdicts \subseteq {"won", "lost", "warning_closed"}
  /\ Units \in Nat \ {0} /\ MaxFaults \in Nat

VARIABLES
  order,   \* [status, frozen]
  lock,    \* who holds the order's row
  task,    \* [Staff -> Task]
  job,     \* [Workers -> Job]
  case,    \* Stripe: [Disputes -> status]
  sent,    \* Stripe: the dispute events emitted; each may come at any time, and again
  dispute, \* [Disputes -> status]  the disputes table
  ret,     \* [Returns -> Return]
  gw,      \* Stripe: [Returns -> Paid]  the refund under the return's key
  refund,  \* [Returns -> Refund]  the refunds table
  faults,
  \* read by properties only:
  handled, \* dispute events handled at least once
  first,   \* [Disputes -> the type of the event handled first]
  freezes, \* [Disputes -> how often it froze the order]
  torn     \* returns of which a transaction rolled back after the gateway's answer

disputes == <<job, case, sent, dispute, handled, first, freezes>>
money    == <<gw, refund, torn>>
vars     == <<order, lock, task, ret, faults, disputes, money>>

-----------------------------------------------------------------------------
Edges == [
  paid               |-> {"fulfilled", "cancelled", "refunded", "partially_refunded"},
  fulfilled          |-> {"shipped", "refunded", "partially_refunded"},
  shipped            |-> {"delivered", "refunded", "partially_refunded"},
  delivered          |-> {"completed", "refunded", "partially_refunded"},
  partially_refunded |-> {"refunded", "partially_refunded"},
  completed          |-> {}, cancelled |-> {}, refunded |-> {}]
Status == DOMAIN Edges
CanMove(from, to) == to \in Edges[from]

(* The targets the transitions endpoint accepts, and the states of a return. *)
ByHand     == Status \ {"paid", "refunded", "partially_refunded"}
Returnable == {"paid", "fulfilled", "shipped", "delivered", "partially_refunded"}

Case    == {"none", "needs_response", "won", "lost", "warning_closed"}
Event   == [d: Disputes, type: {"created", "updated", "closed"}, st: Case]
Dispute == {"none", "open", "won", "lost"}
Job     == [at: {"idle"}] \cup [at: {"locked"}, ev: Event, seen: Dispute]

Return  == [st: {"none", "requested", "approved", "refunded", "rejected"}, qty: 0..Units]
Outcome == {"none", "pending", "succeeded", "failed"}
Paid    == [st: Outcome, amount: 0..Units]
Refund  == [st: Outcome, amount: 0..Units, units: 0..Units, own: BOOLEAN,
            target: {"refunded", "partially_refunded"}, drive: BOOLEAN]
NoRefund == [st |-> "none", amount |-> 0, units |-> 0, own |-> FALSE, target |-> "refunded", drive |-> FALSE]

Idle == [at |-> "idle"]
Task == [at: {"idle"}]
        \cup [at: {"move"}, to: ByHand]
        \cup [at: {"claimed", "locked", "failed", "paid"}, t: Returns]
        \cup [at: {"answered"}, t: Returns, reply: {"pending", "succeeded"}]

Init ==
  /\ order = [status |-> "paid", frozen |-> FALSE]
  /\ lock = Nobody
  /\ task = [s \in Staff |-> Idle] /\ job = [w \in Workers |-> Idle]
  /\ case = [d \in Disputes |-> "none"] /\ sent = {}
  /\ dispute = [d \in Disputes |-> "none"]
  /\ ret = [t \in Returns |-> [st |-> "none", qty |-> 0]]
  /\ gw = [t \in Returns |-> [st |-> "none", amount |-> 0]]
  /\ refund = [t \in Returns |-> NoRefund]
  /\ faults = 0
  /\ handled = {} /\ first = [d \in Disputes |-> "none"]
  /\ freezes = [d \in Disputes |-> 0] /\ torn = {}

(* Mutant: the row is read without FOR UPDATE. *)
ReadUnlocked == TRUE
OrderFree    == lock = Nobody

-----------------------------------------------------------------------------
(* OrderService.transition, from the admin's endpoint: read under the lock,     *)
(* check, and write.                                                            *)
BeginMove(s, to) ==
  /\ task[s] = Idle /\ OrderFree
  /\ CanMove(order.status, to)
  /\ order.frozen => to \notin {"fulfilled", "shipped"}
  /\ lock' = s
  /\ task' = [task EXCEPT ![s] = [at |-> "move", to |-> to]]
  /\ UNCHANGED <<order, ret, faults, disputes, money>>

Move(s) ==
  /\ task[s].at = "move"
  /\ order' = [order EXCEPT !.status = task[s].to]
  /\ lock' = Nobody
  /\ task' = [task EXCEPT ![s] = Idle]
  /\ UNCHANGED <<ret, faults, disputes, money>>

(* unfreezeFulfillment: one UPDATE, for a dispute that is known. *)
Unfreeze(d) ==
  /\ dispute[d] # "none" /\ OrderFree /\ order.frozen
  /\ order' = [order EXCEPT !.frozen = FALSE]
  /\ UNCHANGED <<lock, task, ret, faults, disputes, money>>

-----------------------------------------------------------------------------
(* Stripe's side of a dispute. *)
Emit(d, type, st) ==
  /\ case' = [case EXCEPT ![d] = st]
  /\ sent' = sent \cup {[d |-> d, type |-> type, st |-> st]}
  /\ UNCHANGED <<order, lock, task, job, dispute, ret, faults, handled, first, freezes, money>>

Open(d)  == case[d] = "none" /\ Emit(d, "created", "needs_response")
Touch(d) == case[d] = "needs_response" /\ Emit(d, "updated", "needs_response")
Close(d) == /\ case[d] = "needs_response"
            /\ \E st \in Verdicts : Emit(d, "closed", st)

mapDisputeStatus(st) == IF st \in {"won", "lost"} THEN st ELSE "open"

(* onDispute: lock the order, read the dispute; then write under the lock. *)
BeginDispute(w, ev) ==
  /\ job[w] = Idle /\ OrderFree
  /\ lock' = w
  /\ job' = [job EXCEPT ![w] = [at |-> "locked", ev |-> ev, seen |-> dispute[ev.d]]]
  /\ UNCHANGED <<order, task, case, sent, dispute, ret, faults, handled, first, freezes, money>>

(* Mutants: what came last counts; every created event freezes. *)
NeverStale(w)    == FALSE
EveryCreated(w)  == job[w].ev.type = "created"

(* won and lost are terminal *)
Stale(w)   == job[w].seen \in {"won", "lost"} /\ mapDisputeStatus(job[w].ev.st) # job[w].seen
Freezes(w) == job[w].ev.type = "created" /\ job[w].seen = "none"

HandleDispute(w) ==
  LET d == job[w].ev.d IN
  /\ job[w].at = "locked"
  /\ IF Stale(w)
     THEN UNCHANGED <<order, dispute, freezes>>
     ELSE /\ dispute' = [dispute EXCEPT ![d] = mapDisputeStatus(job[w].ev.st)]
          /\ order' = [order EXCEPT !.frozen = @ \/ Freezes(w)]
          /\ freezes' = IF Freezes(w) THEN [freezes EXCEPT ![d] = @ + 1] ELSE freezes
  /\ handled' = handled \cup {job[w].ev}
  /\ first' = IF first[d] = "none" THEN [first EXCEPT ![d] = job[w].ev.type] ELSE first
  /\ lock' = Nobody
  /\ job' = [job EXCEPT ![w] = Idle]
  /\ UNCHANGED <<task, case, sent, ret, faults, money>>

-----------------------------------------------------------------------------
(* The books of the order's refunds. *)
(* The sum of what each return has, one by one: at most Units.                  *)
Sum(has) == Cardinality({u \in Returns \X (1..Units) : u[2] <= has[u[1]]})

Refunded  == Sum([t \in Returns |-> IF refund[t].st = "failed" THEN 0 ELSE refund[t].amount])
UnitsBack == Sum([t \in Returns |-> IF refund[t].st = "failed" THEN 0 ELSE refund[t].units])
Lines     == Sum([t \in Returns |-> refund[t].units])

TargetOf(amount) == IF Refunded + amount >= Units THEN "refunded" ELSE "partially_refunded"

(* isFullReturn: all that was ordered, which refunds all that remains. *)
PlanOf(t) == IF ret[t].qty = Units THEN [amount |-> Units - Refunded, units |-> 0]
                                   ELSE [amount |-> ret[t].qty, units |-> ret[t].qty]

(* What create() checks before it calls the gateway. *)
Refundable(t) ==
  LET p == PlanOf(t) IN
  /\ p.amount \in 1..(Units - Refunded) /\ Lines + p.units <= Units
  /\ CanMove(order.status, TargetOf(p.amount))

(* The refund that create() writes, and the status it drives the order to when  *)
(* the money is confirmed.                                                      *)
Booked(p, st, own) ==
  [st |-> st, amount |-> p.amount, units |-> p.units, own |-> own,
   target |-> TargetOf(p.amount), drive |-> CanMove(order.status, TargetOf(p.amount))]

Driven(r) == IF r.st = "succeeded" /\ r.drive /\ CanMove(order.status, r.target)
             THEN [order EXCEPT !.status = r.target] ELSE order

-----------------------------------------------------------------------------
(* ReturnsService. *)
Ask(t) ==
  /\ ret[t].st = "none" /\ order.status \in Returnable
  /\ \E q \in 1..(Units - UnitsBack) : ret' = [ret EXCEPT ![t] = [st |-> "requested", qty |-> q]]
  /\ UNCHANGED <<order, lock, task, faults, disputes, money>>

(* Mutant: the status it had does not count. *)
AnyStatus(t, from) == ret[t].st # "none"

(* casStatus *)
Cas(t, from) == ret[t].st = from
Set(t, from, to) == ret' = IF Cas(t, from) THEN [ret EXCEPT ![t].st = to] ELSE ret

Reject(s, t) ==
  /\ task[s] = Idle /\ Cas(t, "requested")
  /\ Set(t, "requested", "rejected")
  /\ UNCHANGED <<order, lock, task, faults, disputes, money>>

(* approve: claim the return, and refund it in one transaction. *)
Claim(s, t) ==
  /\ task[s] = Idle /\ Cas(t, "requested")
  /\ Set(t, "requested", "approved")
  /\ task' = [task EXCEPT ![s] = [at |-> "claimed", t |-> t]]
  /\ UNCHANGED <<order, lock, faults, disputes, money>>

LockOrder(s) ==
  /\ task[s].at = "claimed" /\ OrderFree
  /\ IF Refundable(task[s].t)
     THEN lock' = s /\ task' = [task EXCEPT ![s].at = "locked"]
     ELSE lock' = lock /\ task' = [task EXCEPT ![s].at = "failed"]
  /\ UNCHANGED <<order, ret, faults, disputes, money>>

Fail(s) ==
  /\ task' = [task EXCEPT ![s] = [at |-> "failed", t |-> task[s].t]]
  /\ lock' = Nobody

(* Stripe answers a known key with the refund it made, or with an error when    *)
(* another amount is asked for; a new one it refunds, promises or refuses.      *)
CallGateway(s) ==
  LET t == task[s].t  asked == PlanOf(t).amount IN
  /\ task[s].at = "locked"
  /\ \/ /\ gw[t].st \in {"pending", "succeeded"} /\ gw[t].amount = asked
        /\ gw' = gw /\ lock' = lock
        /\ task' = [task EXCEPT ![s] = [at |-> "answered", t |-> t, reply |-> gw[t].st]]
     \/ /\ gw[t].st = "none"
        /\ \E st \in {"pending", "succeeded"} :
             /\ gw' = [gw EXCEPT ![t] = [st |-> st, amount |-> asked]]
             /\ task' = [task EXCEPT ![s] = [at |-> "answered", t |-> t, reply |-> st]]
        /\ lock' = lock
     \/ /\ gw[t].st = "none" \/ gw[t].st = "failed" \/ gw[t].amount # asked
        /\ gw' = gw /\ Fail(s)
  /\ UNCHANGED <<order, ret, refund, faults, torn, disputes>>

(* A refund that a delivery has recorded by now is a duplicate: 409. *)
Book(s) ==
  LET t == task[s].t  r == Booked(PlanOf(t), task[s].reply, TRUE) IN
  /\ task[s].at = "answered"
  /\ IF refund[t].st # "none"
     THEN /\ Fail(s) /\ torn' = torn \cup {t}
          /\ UNCHANGED <<order, refund>>
     ELSE /\ refund' = [refund EXCEPT ![t] = r]
          /\ order' = Driven(r)
          /\ task' = [task EXCEPT ![s] = [at |-> "paid", t |-> t]]
          /\ lock' = Nobody /\ torn' = torn
  /\ UNCHANGED <<ret, gw, faults, disputes>>

(* A failed create() gives the claim back; a committed one finalises. *)
Revert(s) ==
  /\ task[s].at = "failed"
  /\ Set(task[s].t, "approved", "requested")
  /\ task' = [task EXCEPT ![s] = Idle]
  /\ UNCHANGED <<order, lock, faults, disputes, money>>

Finalise(s) ==
  /\ task[s].at = "paid"
  /\ Set(task[s].t, "approved", "refunded")
  /\ task' = [task EXCEPT ![s] = Idle]
  /\ UNCHANGED <<order, lock, faults, disputes, money>>

-----------------------------------------------------------------------------
(* Stripe's side of a refund, and the deliveries about it. *)
Settle(t) ==
  /\ gw[t].st = "pending"
  /\ \E st \in {"succeeded", "failed"} : gw' = [gw EXCEPT ![t].st = st]
  /\ UNCHANGED <<order, lock, task, ret, faults, refund, torn, disputes>>

(* Mutant: the money has moved, so it is recorded whatever is left. *)
HasMoved(t) == TRUE

Fits(t) == gw[t].amount <= Units - Refunded

(* reconcileGatewayRefund: a refund that is not known is recorded by amount, if  *)
(* it still fits; a pending one is confirmed or backed out.                      *)
RecordRefund(t) ==
  LET r == Booked([amount |-> gw[t].amount, units |-> 0], gw[t].st, FALSE) IN
  /\ OrderFree /\ refund[t].st = "none" /\ gw[t].st \in {"pending", "succeeded"}
  /\ Fits(t)
  /\ refund' = [refund EXCEPT ![t] = r]
  /\ order' = Driven(r)
  /\ UNCHANGED <<lock, task, ret, faults, gw, torn, disputes>>

SettleRefund(t) ==
  LET r == [refund[t] EXCEPT !.st = gw[t].st] IN
  /\ OrderFree /\ refund[t].st = "pending" /\ gw[t].st # "pending"
  /\ refund' = [refund EXCEPT ![t] = r]
  /\ order' = Driven(r)
  /\ UNCHANGED <<lock, task, ret, faults, gw, torn, disputes>>

-----------------------------------------------------------------------------
(* A process dies, or a transaction or a CAS fails on its way: what is not       *)
(* committed is undone.                                                          *)
Unlocks(p) == lock' = IF lock = p THEN Nobody ELSE lock
Tears(s)   == torn' = IF task[s].at = "answered" THEN torn \cup {task[s].t} ELSE torn

DieStaff(s) ==
  /\ faults < MaxFaults /\ task[s] # Idle
  /\ faults' = faults + 1
  /\ Unlocks(s) /\ Tears(s)
  /\ task' = [task EXCEPT ![s] = Idle]
  /\ UNCHANGED <<order, ret, gw, refund, disputes>>

RollBack(s) ==
  /\ faults < MaxFaults /\ task[s].at \in {"locked", "answered"}
  /\ faults' = faults + 1
  /\ Fail(s) /\ Tears(s)
  /\ UNCHANGED <<order, ret, gw, refund, disputes>>

DieWorker(w) ==
  /\ faults < MaxFaults /\ job[w] # Idle
  /\ faults' = faults + 1
  /\ Unlocks(w)
  /\ job' = [job EXCEPT ![w] = Idle]
  /\ UNCHANGED <<order, task, case, sent, dispute, ret, handled, first, freezes, money>>

-----------------------------------------------------------------------------
StaffStep(s) ==
  \/ \E to \in ByHand : BeginMove(s, to)
  \/ \E t \in Returns : Reject(s, t) \/ Claim(s, t)
  \/ Move(s) \/ LockOrder(s) \/ CallGateway(s) \/ Book(s) \/ Revert(s) \/ Finalise(s)
  \/ DieStaff(s) \/ RollBack(s)

WorkerStep(w) == (\E ev \in sent : BeginDispute(w, ev)) \/ HandleDispute(w) \/ DieWorker(w)

Next ==
  \/ \E s \in Staff : StaffStep(s)
  \/ \E w \in Workers : WorkerStep(w)
  \/ \E d \in Disputes : Unfreeze(d) \/ Open(d) \/ Touch(d) \/ Close(d)
  \/ \E t \in Returns : Ask(t) \/ Settle(t) \/ RecordRefund(t) \/ SettleRefund(t)

Spec == Init /\ [][Next]_vars

-----------------------------------------------------------------------------
(* Every variable has its type; what was refunded never exceeds the order. *)
TypeOK ==
  /\ order \in [status: Status, frozen: BOOLEAN]
  /\ lock \in Staff \cup Workers \cup {Nobody}
  /\ task \in [Staff -> Task] /\ job \in [Workers -> Job]
  /\ case \in [Disputes -> Case] /\ sent \subseteq Event /\ handled \subseteq sent
  /\ dispute \in [Disputes -> Dispute]
  /\ ret \in [Returns -> Return] /\ gw \in [Returns -> Paid] /\ refund \in [Returns -> Refund]
  /\ Refunded <= Units /\ faults \in 0..MaxFaults /\ torn \subseteq Returns
  /\ first \in [Disputes -> {"none", "created", "updated", "closed"}]
  /\ freezes \in [Disputes -> Nat]

(* "A disputed order must not ship": the order is never fulfilled or shipped in   *)
(* a step before which the freeze of a dispute was committed.                     *)
NoFrozenShipment ==
  [][order'.status \in {"fulfilled", "shipped"} /\ order'.status # order.status => ~order.frozen]_vars

(* The disputes table tells what Stripe decided, whatever order its events came   *)
(* in and however often, once each has been handled.                              *)
DisputeFollowsStripe ==
  \A d \in Disputes :
    LET events == {ev \in sent : ev.d = d} IN
    events # {} /\ events \subseteq handled => dispute[d] = mapDisputeStatus(case[d])

(* A dispute freezes its order once, by the first event heard of it if that is    *)
(* its creation: no redelivery freezes again what an admin has cleared.           *)
OneFreezePerDispute ==
  \A d \in Disputes : freezes[d] = IF first[d] = "created" THEN 1 ELSE 0

(* One return, one refund.  A return is refunded with a refund of its own, which  *)
(* no return that is open or rejected has; and where one of those was paid all    *)
(* the same, a transaction had rolled back behind the gateway's answer.           *)
ReturnMatchesMoney ==
  \A t \in Returns :
    /\ ret[t].st = "refunded" => refund[t].own
    /\ refund[t].own => ret[t].st \in {"approved", "refunded"}
    /\ ret[t].st \in {"requested", "rejected"} /\ gw[t].st # "none" => t \in torn

=============================================================================
