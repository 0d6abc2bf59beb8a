--------------------------- MODULE FulfilmentProofs ---------------------------
(***************************************************************************)
(* Fulfilment.tla for every number of staff, deliveries, disputes, returns  *)
(* and units: a frozen order does not ship, the disputes table ends up with *)
(* what Stripe decided, a dispute freezes its order once, a return is paid  *)
(* back once, and the order never more than it cost.                        *)
(*                                                                          *)
(* All of them rest on the order's row lock.  Who has read under it sees    *)
(* what is still true when it writes: LockHeld says who holds it,           *)
(* MovesUnfrozen, SeenIsCurrent and MoneyInv what its holder may rely on.   *)
(***************************************************************************)
EXTENDS Fulfilment, FiniteSetTheorems, TLAPS

Targets == {"refunded", "partially_refunded"}
Types   == {"created", "updated", "closed"}

(* The types of the order, its staff and its disputes; MoneyInv has the rest. *)
Typed ==
  /\ order \in [status: Status, frozen: BOOLEAN]
  /\ task \in [Staff -> Task] /\ job \in [Workers -> Job]
  /\ case \in [Disputes -> Case] /\ sent \subseteq Event /\ handled \subseteq sent
  /\ dispute \in [Disputes -> Dispute]
  /\ first \in [Disputes -> Types \cup {"none"}] /\ freezes \in [Disputes -> Nat]

TargetsOnly ==
  /\ DOMAIN refund = Returns
  /\ \A t \in Returns : "target" \in DOMAIN refund[t] /\ refund[t].target \in Targets

LockHeld ==
  /\ \A s \in Staff : task[s].at \in {"move", "locked", "answered"} => lock = s
  /\ \A w \in Workers : job[w].at = "locked" => lock = w

MovesUnfrozen ==
  \A s \in Staff : task[s].at = "move" /\ task[s].to \in {"fulfilled", "shipped"} => ~order.frozen

SeenIsCurrent ==
  \A w \in Workers : job[w].at = "locked" => /\ job[w].ev \in sent
                                             /\ job[w].seen = dispute[job[w].ev.d]

(* Stripe: what an event says of its dispute, and which disputes are closed. *)
StripeInv ==
  /\ \A ev \in sent : /\ case[ev.d] # "none"
                      /\ ev.type # "closed" => ev.st = "needs_response"
                      /\ ev.type = "closed" => case[ev.d] \in Verdicts /\ ev.st = case[ev.d]
  /\ \A d \in Disputes : case[d] \notin {"none", "needs_response"} =>
       \E ev \in sent : ev.d = d /\ ev.type = "closed"

(* The row of a dispute: there once one of its events was handled, won or    *)
(* lost only when Stripe says so, and final when the closing was handled.    *)
DisputeInv ==
  /\ \A ev \in handled : /\ dispute[ev.d] # "none"
                         /\ ev.type = "closed" => dispute[ev.d] = mapDisputeStatus(ev.st)
  /\ \A d \in Disputes : dispute[d] \in {"won", "lost"} => case[d] = dispute[d]

FreezeInv ==
  /\ OneFreezePerDispute
  /\ \A d \in Disputes : first[d] = "none" <=> dispute[d] = "none"

LocksOK  == TargetsOnly /\ LockHeld /\ MovesUnfrozen
EventsOK == SeenIsCurrent /\ StripeInv /\ DisputeInv /\ FreezeInv
IInv     == Typed /\ LocksOK /\ EventsOK

-----------------------------------------------------------------------------
LEMMA InitIInv == Init => IInv
<1> SUFFICES ASSUME Init PROVE IInv
  OBVIOUS
<1>1. Typed
  BY DEF Init, Typed, Status, Edges, Task, Idle, Job, Case, Dispute
<1>2. LocksOK
  BY DEF Init, LocksOK, TargetsOnly, Targets, NoRefund, LockHeld, MovesUnfrozen, Idle
<1>3. EventsOK
  BY DEF Init, EventsOK, SeenIsCurrent, StripeInv, DisputeInv, FreezeInv, OneFreezePerDispute, Idle
<1>4. QED
  BY <1>1, <1>2, <1>3 DEF IInv

(* A step that leaves Stripe and the disputes alone keeps what is said of them. *)
LEMMA DisputesQuiet ==
  ASSUME IInv, UNCHANGED disputes
  PROVE  EventsOK' /\ case' \in [Disputes -> Case] /\ job' \in [Workers -> Job] /\ UNCHANGED <<sent, handled, dispute, first, freezes>>
<1>1. UNCHANGED <<job, case, sent, dispute, handled, first, freezes>>
  BY DEF disputes
<1>2. EventsOK /\ Typed
  BY DEF IInv
<1>3. EventsOK'
  BY <1>1, <1>2 DEF EventsOK, SeenIsCurrent, StripeInv, DisputeInv, FreezeInv, OneFreezePerDispute,
     mapDisputeStatus
<1>4. QED
  BY <1>1, <1>2, <1>3 DEF Typed

(* A refund drives the order to a refund's status, or nowhere. *)
LEMMA DrivenOrder ==
  ASSUME order \in [status: Status, frozen: BOOLEAN],
         NEW r, r.target \in Targets
  PROVE  /\ Driven(r) \in [status: Status, frozen: BOOLEAN]
         /\ Driven(r).frozen = order.frozen
         /\ Driven(r).status \in Targets \cup {order.status}
<1>1. Targets \subseteq Status
  BY DEF Targets, Status, Edges
<1>2. QED
  BY <1>1 DEF Driven

LEMMA BookedTarget ==
  ASSUME NEW p, NEW st, NEW own
  PROVE  /\ "target" \in DOMAIN Booked(p, st, own)
         /\ Booked(p, st, own).target \in Targets
BY DEF Booked, TargetOf, Targets

-----------------------------------------------------------------------------
Held     == {"move", "locked", "answered"}
OrderOK  == order \in [status: Status, frozen: BOOLEAN]
StaffOK  == OrderOK /\ task \in [Staff -> Task] /\ LocksOK
Shipping == {"fulfilled", "shipped"}

(* One of the staff goes on to v.  Who takes the lock finds it free, who     *)
(* gives it up had it, and so the others have what they had.                 *)
LEMMA StaffMoves ==
  ASSUME IInv, NEW s \in Staff, NEW v \in Task,
         task' = [task EXCEPT ![s] = v], job' = job,
         lock' = lock \/ lock \in {s, Nobody},
         v.at \in Held => lock' = s,
         (v.at = "move" /\ v.to \in Shipping) => ~order.frozen,
         OrderOK', order'.frozen = order.frozen, TargetsOnly'
  PROVE  StaffOK'
<1>1. /\ task \in [Staff -> Task] /\ LockHeld /\ MovesUnfrozen
  BY DEF IInv, Typed, LocksOK
<1>2. task' \in [Staff -> Task] /\ task'[s] = v /\ \A u \in Staff \ {s} : task'[u] = task[u]
  BY <1>1
<1>3. Nobody \notin Staff \cup Workers /\ Staff \cap Workers = {}
  BY FulfilmentAssumption DEF FulfilmentAssumption
<1>4. LockHeld'
  BY <1>1, <1>2, <1>3 DEF LockHeld, Held
<1>5. MovesUnfrozen'
  BY <1>1, <1>2 DEF MovesUnfrozen, Shipping
<1>6. QED
  BY <1>2, <1>4, <1>5 DEF StaffOK, LocksOK

LEMMA BeginMoveOK ==
  ASSUME IInv, NEW s \in Staff, NEW to \in ByHand, BeginMove(s, to) PROVE StaffOK'
<1>1. [at |-> "move", to |-> to] \in Task
  BY DEF Task
<1>2. lock = Nobody /\ lock' = s /\ job' = job /\ order' = order /\ refund' = refund
      /\ (to \in Shipping => ~order.frozen)
      /\ task' = [task EXCEPT ![s] = [at |-> "move", to |-> to]]
  BY DEF BeginMove, OrderFree, Shipping, disputes, money
<1>3. OrderOK' /\ TargetsOnly'
  BY <1>2 DEF IInv, Typed, LocksOK, TargetsOnly, OrderOK
<1>4. QED
  BY <1>1, <1>2, <1>3, StaffMoves DEF Shipping

LEMMA MoveOK ==
  ASSUME IInv, NEW s \in Staff, Move(s) PROVE StaffOK'
<1>1. Idle \in Task
  BY DEF Task, Idle
<1>2. task[s] \in Task /\ task[s].at = "move" /\ lock = s
  BY DEF Move, IInv, Typed, LocksOK, LockHeld
<1>3. task[s].to \in Status
  BY <1>2 DEF Task, ByHand
<1>4. OrderOK' /\ order'.frozen = order.frozen
  BY <1>3 DEF Move, IInv, Typed, OrderOK
<1>5. TargetsOnly'
  BY DEF Move, money, IInv, LocksOK, TargetsOnly
<1>6. QED
  BY <1>1, <1>2, <1>4, <1>5, StaffMoves DEF Move, Idle, disputes, Held

(* The steps of a return that do not lock. *)
LEMMA ReturnStepOK ==
  ASSUME IInv, NEW s \in Staff, NEW t \in Returns,
         Reject(s, t) \/ Claim(s, t) \/ Revert(s) \/ Finalise(s)
  PROVE  StaffOK'
<1>1. Idle \in Task /\ [at |-> "claimed", t |-> t] \in Task
  BY DEF Task, Idle
<1>2. UNCHANGED <<order, lock, job, refund>> /\ OrderOK /\ TargetsOnly
  BY DEF Reject, Claim, Revert, Finalise, disputes, money, IInv, Typed, OrderOK, LocksOK
<1>3. OrderOK' /\ TargetsOnly' /\ order'.frozen = order.frozen
  BY <1>2 DEF OrderOK, TargetsOnly
<1>4. CASE Reject(s, t)
  BY <1>2, <1>4 DEF Reject, IInv, Typed, StaffOK, OrderOK, LocksOK, TargetsOnly, LockHeld, MovesUnfrozen
<1>5. CASE Claim(s, t)
  BY <1>1, <1>2, <1>3, <1>5, StaffMoves DEF Claim, Held
<1>6. CASE Revert(s)
  BY <1>1, <1>2, <1>3, <1>6, StaffMoves DEF Revert, Held, Idle
<1>7. CASE Finalise(s)
  BY <1>1, <1>2, <1>3, <1>7, StaffMoves DEF Finalise, Held, Idle
<1>8. QED
  BY <1>4, <1>5, <1>6, <1>7

LEMMA LockOrderOK ==
  ASSUME IInv, NEW s \in Staff, LockOrder(s) PROVE StaffOK'
<1>1. task[s] \in Task /\ task[s].at = "claimed" /\ lock = Nobody
  BY DEF LockOrder, OrderFree, IInv, Typed
<1>2. task[s] \in [at: {"claimed", "locked", "failed", "paid"}, t: Returns]
  BY <1>1 DEF Task
<1>3. PICK step \in {"locked", "failed"} :
        /\ task' = [task EXCEPT ![s] = [task[s] EXCEPT !.at = step]]
        /\ lock' = IF step = "locked" THEN s ELSE lock
  BY DEF LockOrder, IInv, Typed
<1>4. [task[s] EXCEPT !.at = step] \in Task /\ [task[s] EXCEPT !.at = step].at = step
  BY <1>2 DEF Task
<1>5. job' = job /\ OrderOK' /\ TargetsOnly' /\ order'.frozen = order.frozen
  BY DEF LockOrder, disputes, money, IInv, Typed, OrderOK, LocksOK, TargetsOnly
<1>6. QED
  BY <1>1, <1>3, <1>4, <1>5, StaffMoves DEF Held

(* The gateway is called, and its answer booked, under the lock. *)
LEMMA CallGatewayOK ==
  ASSUME IInv, NEW s \in Staff, CallGateway(s) PROVE StaffOK'
<1>1. task[s] \in Task /\ task[s].at = "locked" /\ lock = s
  BY DEF CallGateway, IInv, Typed, LocksOK, LockHeld
<1>2. task[s].t \in Returns
  BY <1>1 DEF Task
<1>3. job' = job /\ OrderOK' /\ TargetsOnly' /\ order'.frozen = order.frozen
  BY DEF CallGateway, disputes, IInv, Typed, OrderOK, LocksOK, TargetsOnly
<1>4. ASSUME NEW st \in {"pending", "succeeded"},
             task' = [task EXCEPT ![s] = [at |-> "answered", t |-> task[s].t, reply |-> st]], lock' = lock
      PROVE  StaffOK'
  <2>1. [at |-> "answered", t |-> task[s].t, reply |-> st] \in Task
    BY <1>2 DEF Task
  <2>2. QED
    BY <1>1, <1>3, <1>4, <2>1, StaffMoves DEF Held
<1>5. ASSUME Fail(s) PROVE StaffOK'
  <2>1. [at |-> "failed", t |-> task[s].t] \in Task
    BY <1>2 DEF Task
  <2>2. QED
    BY <1>1, <1>3, <1>5, <2>1, StaffMoves DEF Fail, Held
<1>6. QED
  BY <1>4, <1>5 DEF CallGateway

LEMMA BookOK ==
  ASSUME IInv, NEW s \in Staff, Book(s) PROVE StaffOK'
<1>1. task[s] \in Task /\ task[s].at = "answered" /\ lock = s /\ OrderOK /\ TargetsOnly /\ job' = job
  BY DEF Book, IInv, Typed, LocksOK, LockHeld, OrderOK, disputes
<1>2. task[s].t \in Returns
  BY <1>1 DEF Task
<1>3. [at |-> "failed", t |-> task[s].t] \in Task /\ [at |-> "paid", t |-> task[s].t] \in Task
  BY <1>2 DEF Task
<1>4. CASE refund[task[s].t].st # "none"
  <2>1. Fail(s) /\ order' = order /\ refund' = refund
    BY <1>4 DEF Book
  <2>2. OrderOK' /\ TargetsOnly' /\ order'.frozen = order.frozen
    BY <1>1, <2>1 DEF OrderOK, TargetsOnly
  <2>3. QED
    BY <1>1, <1>3, <2>1, <2>2, StaffMoves DEF Fail, Held
<1>5. CASE refund[task[s].t].st = "none"
  <2> DEFINE r == Booked(PlanOf(task[s].t), task[s].reply, TRUE)
  <2>1. /\ refund' = [refund EXCEPT ![task[s].t] = r] /\ order' = Driven(r)
        /\ task' = [task EXCEPT ![s] = [at |-> "paid", t |-> task[s].t]] /\ lock' = Nobody
    BY <1>5 DEF Book
  <2>2. "target" \in DOMAIN r /\ r.target \in Targets
    BY BookedTarget
  <2> HIDE DEF r
  <2>3. OrderOK' /\ order'.frozen = order.frozen
    BY <1>1, <2>1, <2>2, DrivenOrder DEF OrderOK
  <2>4. TargetsOnly'
    BY <1>1, <2>1, <2>2 DEF TargetsOnly
  <2>5. QED
    BY <1>1, <1>3, <2>1, <2>3, <2>4, StaffMoves DEF Held
<1>6. QED
  BY <1>4, <1>5

LEMMA StaffFaultOK ==
  ASSUME IInv, NEW s \in Staff, DieStaff(s) \/ RollBack(s) PROVE StaffOK'
<1>1. job' = job /\ OrderOK' /\ TargetsOnly' /\ order'.frozen = order.frozen
  BY DEF DieStaff, RollBack, disputes, IInv, Typed, OrderOK, LocksOK, TargetsOnly
<1>2. CASE DieStaff(s)
  <2>1. Idle \in Task
    BY DEF Task, Idle
  <2>2. QED
    BY <1>1, <1>2, <2>1, StaffMoves DEF DieStaff, Unlocks, Idle, Held
<1>3. CASE RollBack(s)
  <2>1. task[s] \in Task /\ task[s].at \in {"locked", "answered"} /\ lock = s
    BY <1>3 DEF RollBack, IInv, Typed, LocksOK, LockHeld
  <2>2. [at |-> "failed", t |-> task[s].t] \in Task
    BY <2>1 DEF Task
  <2>3. QED
    BY <1>1, <1>3, <2>1, <2>2, StaffMoves DEF RollBack, Fail, Held
<1>4. QED
  BY <1>2, <1>3

LEMMA StaffStepOK ==
  ASSUME IInv, NEW s \in Staff, StaffStep(s) PROVE IInv'
<1>1. StaffOK'
  <2>1. CASE \E to \in ByHand : BeginMove(s, to)
    BY <2>1, BeginMoveOK
  <2>2. CASE \E t \in Returns : Reject(s, t) \/ Claim(s, t)
    BY <2>2, ReturnStepOK
  <2>3. CASE Revert(s) \/ Finalise(s)
    <3>1. task[s] \in Task /\ task[s].at \in {"failed", "paid"}
      BY <2>3 DEF Revert, Finalise, IInv, Typed
    <3>2. task[s].t \in Returns
      BY <3>1 DEF Task
    <3>3. QED
      BY <2>3, <3>2, ReturnStepOK
  <2>4. QED
    BY <2>1, <2>2, <2>3, MoveOK, LockOrderOK, CallGatewayOK, BookOK, StaffFaultOK DEF StaffStep
<1>2. UNCHANGED disputes
  BY DEF StaffStep, BeginMove, Reject, Claim, Move, LockOrder, CallGateway, Book, Revert, Finalise,
     DieStaff, RollBack
<1>3. QED
  BY <1>1, <1>2, DisputesQuiet DEF IInv, Typed, StaffOK, OrderOK

-----------------------------------------------------------------------------
(* Returns, the gateway and its deliveries; the order is theirs only when free. *)
LEMMA RefundEventOK ==
  ASSUME IInv, NEW t \in Returns,
         Ask(t) \/ Settle(t) \/ RecordRefund(t) \/ SettleRefund(t)
  PROVE  IInv'
<1>1. UNCHANGED <<lock, task>> /\ UNCHANGED disputes /\ OrderOK /\ TargetsOnly
  BY DEF Ask, Settle, RecordRefund, SettleRefund, IInv, Typed, OrderOK, LocksOK
<1>2. /\ OrderOK' /\ order'.frozen = order.frozen /\ TargetsOnly'
  <2>1. CASE Ask(t) \/ Settle(t)
    BY <1>1, <2>1 DEF Ask, Settle, money, OrderOK, TargetsOnly
  <2>2. ASSUME NEW r, "target" \in DOMAIN r, r.target \in Targets,
               refund' = [refund EXCEPT ![t] = r], order' = Driven(r)
        PROVE  OrderOK' /\ order'.frozen = order.frozen /\ TargetsOnly'
    <3>1. OrderOK' /\ order'.frozen = order.frozen
      BY <1>1, <2>2, DrivenOrder DEF OrderOK
    <3>2. TargetsOnly'
      BY <1>1, <2>2 DEF TargetsOnly
    <3>3. QED
      BY <3>1, <3>2
  <2>3. CASE RecordRefund(t)
    <3> DEFINE r == Booked([amount |-> gw[t].amount, units |-> 0], gw[t].st, FALSE)
    <3>1. "target" \in DOMAIN r /\ r.target \in Targets
      BY BookedTarget
    <3>2. refund' = [refund EXCEPT ![t] = r] /\ order' = Driven(r)
      BY <2>3 DEF RecordRefund
    <3> HIDE DEF r
    <3>3. QED
      BY <2>2, <3>1, <3>2
  <2>4. CASE SettleRefund(t)
    <3> DEFINE r == [refund[t] EXCEPT !.st = gw[t].st]
    <3>1. "target" \in DOMAIN r /\ r.target \in Targets
      BY <1>1 DEF TargetsOnly
    <3>2. refund' = [refund EXCEPT ![t] = r] /\ order' = Driven(r)
      BY <2>4 DEF SettleRefund
    <3> HIDE DEF r
    <3>3. QED
      BY <2>2, <3>1, <3>2
  <2>5. QED
    BY <2>1, <2>3, <2>4
<1>3. LockHeld' /\ MovesUnfrozen'
  BY <1>1, <1>2 DEF IInv, LocksOK, LockHeld, MovesUnfrozen, disputes
<1>4. QED
  BY <1>1, <1>2, <1>3, DisputesQuiet DEF IInv, Typed, LocksOK, OrderOK

(* The unfreeze leaves the disputes alone, and a move is none the worse for it. *)
LEMMA UnfreezeOK ==
  ASSUME IInv, NEW d \in Disputes, Unfreeze(d) PROVE IInv'
<1>1. EventsOK' /\ UNCHANGED disputes
  BY DisputesQuiet DEF Unfreeze
<1>2. Typed'
  BY <1>1 DEF Unfreeze, disputes, IInv, Typed
<1>3. LocksOK'
  BY DEF Unfreeze, disputes, money, IInv, Typed, LocksOK, TargetsOnly, LockHeld, MovesUnfrozen
<1>4. QED
  BY <1>1, <1>2, <1>3 DEF IInv

(* Stripe opens a dispute, speaks of it, and closes it once. *)
LEMMA StripeOK ==
  ASSUME IInv, NEW d \in Disputes, Open(d) \/ Touch(d) \/ Close(d)
  PROVE  IInv'
<1>1. PICK type \in Types, st \in Case : /\ Emit(d, type, st)
                                        /\ \/ type = "created" /\ st = "needs_response" /\ case[d] = "none"
                                           \/ type = "updated" /\ st = "needs_response" /\ case[d] = "needs_response"
                                           \/ type = "closed" /\ st \in Verdicts /\ case[d] = "needs_response"
  <2>1. Verdicts \subseteq Case
    BY FulfilmentAssumption DEF FulfilmentAssumption, Case
  <2>2. QED
    BY <2>1 DEF Open, Touch, Close, Types, Case
<1> DEFINE new == [d |-> d, type |-> type, st |-> st]
<1>2. /\ case' = [case EXCEPT ![d] = st] /\ sent' = sent \cup {new} /\ new \in Event
      /\ UNCHANGED <<order, lock, task, job, dispute, handled, first, freezes, refund>>
  BY <1>1 DEF Emit, money, Event, Types
<1>3. Typed /\ LocksOK /\ EventsOK
  BY DEF IInv
<1>4. Typed'
  BY <1>2, <1>3 DEF Typed
<1>5. LocksOK'
  BY <1>2, <1>3 DEF LocksOK, TargetsOnly, LockHeld, MovesUnfrozen
<1>6. \A v \in Verdicts : v \notin {"none", "needs_response"}
  BY FulfilmentAssumption DEF FulfilmentAssumption
<1>7. \A x \in Disputes : case'[x] = IF x = d THEN st ELSE case[x]
  BY <1>2, <1>3 DEF Typed
<1>8. \A ev \in sent : ev.d \in Disputes
  BY <1>3 DEF Typed, Event
<1>9. case[d] \notin Verdicts
  BY <1>1, <1>6
<1>10. StripeInv'
  <2>1. ASSUME NEW ev \in sent' PROVE /\ case'[ev.d] # "none"
                                      /\ ev.type # "closed" => ev.st = "needs_response"
                                      /\ ev.type = "closed" => case'[ev.d] \in Verdicts /\ ev.st = case'[ev.d]
    <3>1. CASE ev = new
      BY <1>1, <1>6, <1>7, <3>1
    <3>2. CASE ev \in sent
      BY <1>1, <1>3, <1>6, <1>7, <1>8, <1>9, <3>2 DEF EventsOK, StripeInv
    <3>3. QED
      BY <1>2, <3>1, <3>2
  <2>2. ASSUME NEW x \in Disputes, case'[x] \notin {"none", "needs_response"}
        PROVE  \E ev \in sent' : ev.d = x /\ ev.type = "closed"
    BY <1>1, <1>2, <1>3, <1>7, <2>2 DEF EventsOK, StripeInv
  <2>3. QED
    BY <2>1, <2>2 DEF StripeInv
<1>11. SeenIsCurrent' /\ FreezeInv'
  BY <1>2, <1>3 DEF EventsOK, SeenIsCurrent, FreezeInv, OneFreezePerDispute
<1>12. DisputeInv'
  BY <1>1, <1>2, <1>3, <1>7 DEF EventsOK, DisputeInv, mapDisputeStatus
<1>13. QED
  BY <1>4, <1>5, <1>10, <1>11, <1>12 DEF IInv, EventsOK

-----------------------------------------------------------------------------
(* A delivery locks the order and reads the dispute. *)
LEMMA BeginDisputeOK ==
  ASSUME IInv, NEW w \in Workers, NEW ev \in sent, BeginDispute(w, ev) PROVE IInv'
<1> DEFINE now == [at |-> "locked", ev |-> ev, seen |-> dispute[ev.d]]
<1>1. Typed /\ LocksOK /\ EventsOK
  BY DEF IInv
<1>2. /\ lock = Nobody /\ lock' = w /\ job' = [job EXCEPT ![w] = now]
      /\ UNCHANGED <<order, task, case, sent, dispute, handled, first, freezes, refund>>
  BY DEF BeginDispute, OrderFree, money
<1>3. now \in Job
  BY <1>1 DEF Typed, Event, Job
<1>4. Typed'
  BY <1>1, <1>2, <1>3 DEF Typed
<1>5. Nobody \notin Staff \cup Workers
  BY FulfilmentAssumption DEF FulfilmentAssumption
<1>6. LocksOK'
  BY <1>1, <1>2, <1>5 DEF Typed, LocksOK, TargetsOnly, LockHeld, MovesUnfrozen
<1>7. SeenIsCurrent'
  BY <1>1, <1>2 DEF Typed, EventsOK, SeenIsCurrent
<1>8. StripeInv' /\ FreezeInv' /\ DisputeInv'
  BY <1>1, <1>2 DEF EventsOK, StripeInv, FreezeInv, DisputeInv, OneFreezePerDispute, mapDisputeStatus
<1>9. QED
  BY <1>4, <1>6, <1>7, <1>8 DEF IInv, EventsOK

(* What a delivery holds, its event and the dispute it read, is up to date. *)
LEMMA JobOf ==
  ASSUME IInv, NEW w \in Workers, job[w].at = "locked"
  PROVE  /\ lock = w /\ job[w].ev \in sent /\ job[w].ev \in Event
         /\ job[w].ev.d \in Disputes /\ job[w].ev.st \in Case
         /\ job[w].seen = dispute[job[w].ev.d]
BY DEF IInv, Typed, LocksOK, LockHeld, EventsOK, SeenIsCurrent, Event

(* It gives the lock up: the other deliveries hold nothing. *)
LEMMA JobEnds ==
  ASSUME IInv, NEW w \in Workers, job' = [job EXCEPT ![w] = Idle],
         lock' = lock \/ lock = w, UNCHANGED <<task, refund>>,
         order'.frozen = order.frozen \/ lock = w
  PROVE  job' \in [Workers -> Job] /\ LocksOK' /\ (\A u \in Workers : job'[u].at = "locked" => job'[u] = job[u] /\ u # w)
<1>1. Typed /\ LocksOK
  BY DEF IInv
<1>2. Idle \in Job /\ Idle.at # "locked"
  BY DEF Job, Idle
<1>3. job' \in [Workers -> Job] /\ job'[w] = Idle /\ \A u \in Workers \ {w} : job'[u] = job[u]
  BY <1>1, <1>2 DEF Typed
<1>4. Staff \cap Workers = {}
  BY FulfilmentAssumption DEF FulfilmentAssumption
<1>5. LocksOK'
  BY <1>1, <1>2, <1>3, <1>4 DEF LocksOK, TargetsOnly, LockHeld, MovesUnfrozen
<1>6. QED
  BY <1>2, <1>3, <1>5

LEMMA DieWorkerOK ==
  ASSUME IInv, NEW w \in Workers, DieWorker(w) PROVE IInv'
<1>1. /\ job' = [job EXCEPT ![w] = Idle] /\ (lock' = lock \/ lock = w)
      /\ UNCHANGED <<order, task, case, sent, dispute, handled, first, freezes, refund>>
  BY DEF DieWorker, Unlocks, money
<1>2. job' \in [Workers -> Job] /\ LocksOK' /\ \A u \in Workers : job'[u].at = "locked" => job'[u] = job[u]
  BY <1>1, JobEnds
<1>3. Typed'
  BY <1>1, <1>2 DEF IInv, Typed
<1>4. EventsOK'
  BY <1>1, <1>2 DEF IInv, EventsOK, SeenIsCurrent, StripeInv, FreezeInv, DisputeInv, OneFreezePerDispute, mapDisputeStatus
<1>5. QED
  BY <1>2, <1>3, <1>4 DEF IInv

(* onDispute writes under the lock. *)
LEMMA HandleDisputeOK ==
  ASSUME IInv, NEW w \in Workers, HandleDispute(w) PROVE IInv'
<1> DEFINE ev == job[w].ev
           d  == ev.d
<1>1. Typed /\ LocksOK /\ EventsOK
  BY DEF IInv
<1>2. /\ job[w].at = "locked" /\ handled' = handled \cup {ev}
      /\ first' = IF first[d] = "none" THEN [first EXCEPT ![d] = ev.type] ELSE first
      /\ lock' = Nobody /\ job' = [job EXCEPT ![w] = Idle]
      /\ UNCHANGED <<task, case, sent, refund>>
  BY DEF HandleDispute, money
<1>3. /\ lock = w /\ ev \in sent /\ ev \in Event /\ d \in Disputes /\ ev.st \in Case /\ ev.type \in Types
      /\ job[w].seen = dispute[d] /\ dispute[d] \in Dispute
  <2>1. lock = w /\ ev \in sent /\ ev \in Event /\ d \in Disputes /\ ev.st \in Case /\ job[w].seen = dispute[d]
    BY <1>2, JobOf
  <2>2. ev.type \in Types
    BY <2>1 DEF Event, Types
  <2>3. QED
    BY <1>1, <2>1, <2>2 DEF Typed
<1>4. job' \in [Workers -> Job] /\ LocksOK'
      /\ \A u \in Workers : job'[u].at = "locked" => job'[u] = job[u] /\ u # w
  BY <1>2, <1>3, JobEnds
<1>5. mapDisputeStatus(ev.st) \in {"open", "won", "lost"}
  BY DEF mapDisputeStatus
<1> HIDE DEF ev, d
<1>6. SeenIsCurrent'
  <2>1. ASSUME NEW u \in Workers, job'[u].at = "locked" PROVE FALSE
    BY <1>1, <1>3, <1>4, <2>1 DEF LocksOK, LockHeld
  <2>2. QED
    BY <2>1 DEF SeenIsCurrent
<1>7. StripeInv'
  BY <1>1, <1>2 DEF EventsOK, StripeInv
<1>8. /\ ev.type # "closed" => ev.st = "needs_response"
      /\ ev.type = "closed" => ev.st = case[d]
  BY <1>1, <1>3 DEF EventsOK, StripeInv, d
<1>9. first' \in [Disputes -> Types \cup {"none"}] /\ handled' \subseteq sent'
  BY <1>1, <1>2, <1>3 DEF Typed
<1>10. CASE Stale(w)
  <2>1. UNCHANGED <<order, dispute, freezes>>
    BY <1>10 DEF HandleDispute
  <2>2. dispute[d] \in {"won", "lost"} /\ mapDisputeStatus(ev.st) # dispute[d]
    BY <1>3, <1>10 DEF Stale, ev
  <2>3. case[d] = dispute[d]
    BY <1>1, <1>3, <2>2 DEF EventsOK, DisputeInv
  <2>4. ev.type # "closed"
    BY <1>8, <2>2, <2>3 DEF mapDisputeStatus
  <2>5. DisputeInv'
    BY <1>1, <1>2, <2>1, <2>2, <2>4 DEF EventsOK, DisputeInv, mapDisputeStatus, d
  <2>6. first[d] # "none"
    BY <1>1, <1>3, <2>2 DEF EventsOK, FreezeInv
  <2>7. FreezeInv'
    BY <1>1, <1>2, <2>1, <2>6 DEF EventsOK, FreezeInv, OneFreezePerDispute
  <2>8. Typed'
    BY <1>1, <1>2, <1>4, <1>9, <2>1 DEF Typed
  <2>9. QED
    BY <1>4, <1>6, <1>7, <2>5, <2>7, <2>8 DEF IInv, EventsOK
<1>11. CASE ~Stale(w)
  <2>1. /\ dispute' = [dispute EXCEPT ![d] = mapDisputeStatus(ev.st)]
        /\ order' = [order EXCEPT !.frozen = @ \/ Freezes(w)]
        /\ freezes' = IF Freezes(w) THEN [freezes EXCEPT ![d] = @ + 1] ELSE freezes
    BY <1>11 DEF HandleDispute, ev, d
  <2>2. /\ Freezes(w) \in BOOLEAN
        /\ Freezes(w) <=> ev.type = "created" /\ dispute[d] = "none"
    BY <1>3 DEF Freezes, ev
  <2>3. dispute[d] \in {"won", "lost"} => mapDisputeStatus(ev.st) = dispute[d]
    BY <1>3, <1>11 DEF Stale, ev
  <2>4. order' \in [status: Status, frozen: BOOLEAN]
    BY <1>1, <2>1, <2>2 DEF Typed
  <2>5. dispute' \in [Disputes -> Dispute] /\ \A x \in Disputes : dispute'[x] = IF x = d THEN mapDisputeStatus(ev.st) ELSE dispute[x]
    BY <1>1, <1>3, <1>5, <2>1 DEF Typed, Dispute
  <2>6. /\ freezes' \in [Disputes -> Nat]
        /\ \A x \in Disputes : freezes'[x] = IF x = d /\ ev.type = "created" /\ dispute[d] = "none"
                                             THEN freezes[x] + 1 ELSE freezes[x]
    BY <1>1, <1>3, <2>1, <2>2 DEF Typed
  <2>7. \A x \in Disputes : first'[x] = IF x = d /\ first[d] = "none" THEN ev.type ELSE first[x]
    BY <1>1, <1>2, <1>3 DEF Typed, ev, d
  <2>8. FreezeInv'
    <3>1. ASSUME NEW x \in Disputes
          PROVE  /\ freezes'[x] = IF first'[x] = "created" THEN 1 ELSE 0
                 /\ first'[x] = "none" <=> dispute'[x] = "none"
      <4>1. /\ freezes[x] = IF first[x] = "created" THEN 1 ELSE 0
            /\ first[x] = "none" <=> dispute[x] = "none"
        BY <1>1 DEF EventsOK, FreezeInv, OneFreezePerDispute
      <4>2. QED
        BY <1>3, <1>5, <2>5, <2>6, <2>7, <4>1 DEF Types
    <3>2. QED
      BY <3>1 DEF FreezeInv, OneFreezePerDispute
  <2>9. DisputeInv'
    <3>1. \A x \in sent : x.d \in Disputes
      BY <1>1 DEF Typed, Event
    <3>2. ASSUME NEW x \in handled'
          PROVE  /\ dispute'[x.d] # "none"
                 /\ x.type = "closed" => dispute'[x.d] = mapDisputeStatus(x.st)
      <4>1. x \in sent /\ x.d \in Disputes
        BY <1>2, <1>9, <3>1, <3>2
      <4>2. CASE x = ev
        BY <1>5, <2>5, <4>1, <4>2 DEF d
      <4>3. CASE x \in handled /\ x.d # d
        BY <1>1, <2>5, <4>1, <4>3 DEF EventsOK, DisputeInv
      <4>4. CASE x \in handled /\ x.d = d
        <5>1. dispute'[x.d] # "none"
          BY <1>5, <2>5, <4>1, <4>4
        <5>2. ASSUME x.type = "closed" PROVE dispute'[x.d] = mapDisputeStatus(x.st)
          <6>1. dispute[d] = mapDisputeStatus(x.st) /\ x.st = case[d] /\ x.st \in Verdicts
            BY <1>1, <4>1, <4>4, <5>2 DEF EventsOK, DisputeInv, StripeInv
          <6>2. CASE ev.type = "closed"
            BY <1>8, <2>5, <4>1, <4>4, <6>1, <6>2
          <6>3. CASE ev.type # "closed"
            <7>1. mapDisputeStatus(ev.st) = "open"
              BY <1>8, <6>3 DEF mapDisputeStatus
            <7>2. dispute[d] \notin {"won", "lost"}
              BY <2>3, <7>1
            <7>3. mapDisputeStatus(x.st) = "open"
              BY <6>1, <7>2 DEF mapDisputeStatus
            <7>4. QED
              BY <2>5, <4>1, <4>4, <7>1, <7>3
          <6>4. QED
            BY <6>2, <6>3
        <5>3. QED
          BY <5>1, <5>2
      <4>5. QED
        BY <1>2, <4>2, <4>3, <4>4
    <3>3. ASSUME NEW x \in Disputes, dispute'[x] \in {"won", "lost"} PROVE case'[x] = dispute'[x]
      <4>1. CASE x # d
        BY <1>1, <1>2, <2>5, <3>3, <4>1 DEF EventsOK, DisputeInv
      <4>2. CASE x = d
        <5>1. dispute'[d] = mapDisputeStatus(ev.st) /\ mapDisputeStatus(ev.st) = ev.st
          BY <2>5, <3>3, <4>2 DEF mapDisputeStatus
        <5>2. ev.type = "closed"
          BY <1>8, <3>3, <4>2, <5>1
        <5>3. QED
          BY <1>2, <1>8, <4>2, <5>1, <5>2
      <4>3. QED
        BY <4>1, <4>2
    <3>4. QED
      BY <3>2, <3>3 DEF DisputeInv
  <2>10. Typed'
    BY <1>1, <1>2, <1>4, <1>9, <2>4, <2>5, <2>6 DEF Typed
  <2>11. QED
    BY <1>4, <1>6, <1>7, <2>8, <2>9, <2>10 DEF IInv, EventsOK
<1>12. QED
  BY <1>10, <1>11

-----------------------------------------------------------------------------
LEMMA NextIInv == IInv /\ [Next]_vars => IInv'
<1> SUFFICES ASSUME IInv, [Next]_vars PROVE IInv'
  OBVIOUS
<1>1. ASSUME NEW s \in Staff, StaffStep(s) PROVE IInv'
  BY <1>1, StaffStepOK
<1>2. ASSUME NEW w \in Workers, WorkerStep(w) PROVE IInv'
  BY <1>2, BeginDisputeOK, HandleDisputeOK, DieWorkerOK DEF WorkerStep
<1>3. ASSUME NEW d \in Disputes, Unfreeze(d) \/ Open(d) \/ Touch(d) \/ Close(d) PROVE IInv'
  BY <1>3, UnfreezeOK, StripeOK
<1>4. ASSUME NEW t \in Returns, Ask(t) \/ Settle(t) \/ RecordRefund(t) \/ SettleRefund(t) PROVE IInv'
  BY <1>4, RefundEventOK
<1>5. CASE UNCHANGED vars
  <2>1. EventsOK' /\ UNCHANGED <<sent, handled, dispute, first, freezes>> /\ UNCHANGED disputes
    BY <1>5, DisputesQuiet DEF vars
  <2>2. Typed' /\ LocksOK'
    BY <1>5, <2>1 DEF vars, disputes, money, IInv, Typed, LocksOK, TargetsOnly, LockHeld, MovesUnfrozen
  <2>3. QED
    BY <2>1, <2>2 DEF IInv
<1>6. QED
  BY <1>1, <1>2, <1>3, <1>4, <1>5 DEF Next

(* The row lock makes every reader right about what it read: the inductive     *)
(* invariant.                                                                  *)
THEOREM RowLockProtects == Spec => []IInv
<1>1. QED
  BY InitIInv, NextIInv, PTL DEF Spec

(* Once every event Stripe sent of a dispute was handled, in any order and any *)
(* number of times, the row says what Stripe decided: onDispute.               *)
THEOREM DisputesFollow == Spec => []DisputeFollowsStripe
<1>1. IInv => DisputeFollowsStripe
  <2> SUFFICES ASSUME IInv, NEW d \in Disputes,
                      {ev \in sent : ev.d = d} # {}, {ev \in sent : ev.d = d} \subseteq handled
               PROVE  dispute[d] = mapDisputeStatus(case[d])
    BY DEF DisputeFollowsStripe
  <2>1. Typed /\ StripeInv /\ DisputeInv
    BY DEF IInv, EventsOK
  <2>2. PICK ev \in sent : ev.d = d
    OBVIOUS
  <2>3. dispute[d] # "none" /\ case[d] # "none" /\ case[d] \in Case /\ dispute[d] \in Dispute
    BY <2>1, <2>2 DEF Typed, StripeInv, DisputeInv
  <2>4. CASE case[d] = "needs_response"
    <3>1. dispute[d] \notin {"won", "lost"}
      BY <2>1, <2>4 DEF DisputeInv
    <3>2. QED
      BY <2>3, <2>4, <3>1 DEF Dispute, mapDisputeStatus
  <2>5. CASE case[d] # "needs_response"
    <3>1. PICK end \in sent : end.d = d /\ end.type = "closed"
      BY <2>1, <2>3, <2>5 DEF StripeInv
    <3>2. end.st = case[d] /\ dispute[d] = mapDisputeStatus(end.st)
      BY <2>1, <3>1 DEF StripeInv, DisputeInv
    <3>3. QED
      BY <3>2
  <2>6. QED
    BY <2>4, <2>5
<1>2. QED
  BY <1>1, RowLockProtects, PTL

(* A dispute freezes its order once, and only when it is first heard of as     *)
(* created: no redelivery undoes an admin's unfreeze.                          *)
THEOREM FreezesOnce == Spec => []OneFreezePerDispute
<1>1. IInv => OneFreezePerDispute
  BY DEF IInv, EventsOK, FreezeInv
<1>2. QED
  BY <1>1, RowLockProtects, PTL

(* No step ships or fulfils an order whose freeze was committed: transition(). *)
THEOREM NothingFrozenShips == Spec => NoFrozenShipment
<1>1. IInv /\ [Next]_vars =>
        [order'.status \in {"fulfilled", "shipped"} /\ order'.status # order.status => ~order.frozen]_vars
  <2> SUFFICES ASSUME IInv, Next, order'.status \in Shipping, order'.status # order.status
               PROVE  ~order.frozen
    BY DEF Shipping
  <2>1. OrderOK /\ TargetsOnly /\ MovesUnfrozen /\ Shipping \cap Targets = {}
    BY DEF IInv, Typed, OrderOK, LocksOK, Shipping, Targets
  <2>2. ASSUME NEW r, r.target \in Targets, order' = Driven(r) PROVE FALSE
    BY <2>1, <2>2, DrivenOrder DEF OrderOK
  <2>3. ASSUME NEW s \in Staff, StaffStep(s) PROVE ~order.frozen
    <3>1. CASE Move(s)
      BY <2>1, <3>1 DEF Move, MovesUnfrozen, Shipping, OrderOK
    <3>2. CASE Book(s)
      BY <2>2, <3>2, BookedTarget DEF Book
    <3>3. QED
      BY <2>3, <3>1, <3>2 DEF StaffStep, BeginMove, Reject, Claim, LockOrder, CallGateway, Revert,
         Finalise, DieStaff, RollBack
  <2>4. ASSUME NEW w \in Workers, WorkerStep(w) PROVE ~order.frozen
    BY <2>1, <2>4 DEF WorkerStep, BeginDispute, HandleDispute, DieWorker, OrderOK
  <2>5. ASSUME NEW d \in Disputes, Unfreeze(d) \/ Open(d) \/ Touch(d) \/ Close(d) PROVE ~order.frozen
    BY <2>1, <2>5 DEF Unfreeze, Open, Touch, Close, Emit, OrderOK
  <2>6. ASSUME NEW t \in Returns, Ask(t) \/ Settle(t) \/ RecordRefund(t) \/ SettleRefund(t)
        PROVE  ~order.frozen
    <3>1. CASE SettleRefund(t)
      <4>1. [refund[t] EXCEPT !.st = gw[t].st].target \in Targets
        BY <2>1 DEF TargetsOnly
      <4>2. QED
        BY <2>2, <3>1, <4>1 DEF SettleRefund
    <3>2. CASE RecordRefund(t)
      BY <2>2, <3>2, BookedTarget DEF RecordRefund
    <3>3. QED
      BY <2>6, <3>1, <3>2 DEF Ask, Settle
  <2>7. QED
    BY <2>3, <2>4, <2>5, <2>6 DEF Next
<1>2. QED
  BY <1>1, RowLockProtects, PTL DEF Spec, NoFrozenShipment

-----------------------------------------------------------------------------
(* Returns and their money.  A return that someone works on is approved and is *)
(* his alone; its refund is booked exactly when he has come to "paid"; and     *)
(* until the gateway answers him, money it has moved was torn from a           *)
(* transaction before.                                                         *)
Fields ==
  /\ DOMAIN ret = Returns /\ DOMAIN gw = Returns /\ DOMAIN refund = Returns
  /\ \A t \in Returns : /\ "st" \in DOMAIN ret[t] /\ "st" \in DOMAIN gw[t]
                        /\ "st" \in DOMAIN refund[t] /\ "own" \in DOMAIN refund[t]
                        /\ refund[t].own \in BOOLEAN

WorksOn(s, t) == task[s].at \in {"claimed", "locked", "answered", "failed", "paid"} /\ task[s].t = t

OneWorker == \A s, u \in Staff, t \in Returns : WorksOn(s, t) /\ WorksOn(u, t) => s = u

WorkInv ==
  \A s \in Staff, t \in Returns : WorksOn(s, t) =>
    /\ ret[t].st = "approved"
    /\ refund[t].own <=> task[s].at = "paid"
    /\ task[s].at \in {"claimed", "locked", "failed"} /\ gw[t].st # "none" => t \in torn
    /\ task[s].at = "answered" => gw[t].st # "none"

NoneYet == \A t \in Returns : /\ ret[t].st = "none" => gw[t].st = "none"
                              /\ refund[t].st = "none" => ~refund[t].own
                              /\ refund[t].st # "none" => gw[t].st # "none"

ReturnInv == Fields /\ OneWorker /\ WorkInv /\ NoneYet /\ ReturnMatchesMoney

LEMMA InitReturnInv == Init => ReturnInv
<1> SUFFICES ASSUME Init PROVE ReturnInv
  OBVIOUS
<1>1. Fields
  BY DEF Init, Fields, NoRefund
<1>2. \A s \in Staff, t \in Returns : ~WorksOn(s, t)
  BY DEF Init, WorksOn, Idle
<1>3. \A t \in Returns : ret[t].st = "none" /\ gw[t].st = "none" /\ ~refund[t].own /\ refund[t].st = "none"
  BY DEF Init, NoRefund
<1>4. QED
  BY <1>1, <1>2, <1>3 DEF ReturnInv, OneWorker, WorkInv, NoneYet, ReturnMatchesMoney

(* One of the staff goes on with a return: nobody else's work is touched.      *)
LEMMA GoesOn ==
  ASSUME IInv, NEW s \in Staff, NEW v, task' = [task EXCEPT ![s] = v]
  PROVE  \A u \in Staff : task'[u] = IF u = s THEN v ELSE task[u]
BY DEF IInv, Typed

LEMMA ClaimReturn ==
  ASSUME IInv, ReturnInv, NEW s \in Staff, NEW t \in Returns, Claim(s, t) \/ Reject(s, t)
  PROVE  ReturnInv'
<1>1. /\ ret[t].st = "requested" /\ task[s] = Idle
      /\ UNCHANGED <<gw, refund, torn>>
  BY DEF Claim, Reject, Cas, money
<1>2. \A u \in Staff : ~WorksOn(u, t)
  BY <1>1 DEF ReturnInv, WorkInv
<1>3. PICK to \in {"approved", "rejected"} :
        /\ ret' = [ret EXCEPT ![t].st = to]
        /\ \/ to = "approved" /\ task' = [task EXCEPT ![s] = [at |-> "claimed", t |-> t]]
           \/ to = "rejected" /\ task' = task
  BY <1>1 DEF Claim, Reject, Set, Cas
<1>4. /\ \A x \in Returns : ret'[x].st = IF x = t THEN to ELSE ret[x].st
      /\ DOMAIN ret' = Returns /\ \A x \in Returns : "st" \in DOMAIN ret'[x]
  BY <1>3 DEF ReturnInv, Fields
<1>5. \A u \in Staff : \/ task'[u] = task[u]
                       \/ u = s /\ to = "approved" /\ task'[u] = [at |-> "claimed", t |-> t]
  <2>1. CASE task' = task
    BY <2>1
  <2>2. CASE to = "approved" /\ task' = [task EXCEPT ![s] = [at |-> "claimed", t |-> t]]
    <3>1. \A u \in Staff : task'[u] = IF u = s THEN [at |-> "claimed", t |-> t] ELSE task[u]
      BY <2>2, GoesOn
    <3>2. QED
      BY <2>2, <3>1
  <2>3. QED
    BY <1>3, <2>1, <2>2
<1>6. Fields'
  BY <1>1, <1>4 DEF ReturnInv, Fields
<1>7. OneWorker'
  BY <1>1, <1>2, <1>5 DEF ReturnInv, OneWorker, WorksOn, Idle
<1>8. ~refund[t].own /\ (gw[t].st # "none" => t \in torn)
  BY <1>1 DEF ReturnInv, ReturnMatchesMoney
<1>9. WorkInv'
  BY <1>1, <1>2, <1>4, <1>5, <1>8 DEF ReturnInv, WorkInv, WorksOn, Idle
<1>10. NoneYet' /\ ReturnMatchesMoney'
  BY <1>1, <1>3, <1>4, <1>8 DEF ReturnInv, NoneYet, ReturnMatchesMoney
<1>11. QED
  BY <1>6, <1>7, <1>9, <1>10 DEF ReturnInv

(* A failed refund gives the return back, a committed one finalises it.        *)
LEMMA EndReturn ==
  ASSUME IInv, ReturnInv, NEW s \in Staff, Revert(s) \/ Finalise(s)
  PROVE  ReturnInv'
<1> DEFINE t == task[s].t
<1>1. task[s] \in Task /\ task[s].at \in {"failed", "paid"}
  BY DEF Revert, Finalise, IInv, Typed
<1>2. t \in Returns /\ WorksOn(s, t)
  BY <1>1 DEF Task, WorksOn
<1> HIDE DEF t
<1>3. ret[t].st = "approved" /\ (refund[t].own <=> task[s].at = "paid")
      /\ (task[s].at = "failed" /\ gw[t].st # "none" => t \in torn)
  BY <1>2 DEF ReturnInv, WorkInv
<1>4. PICK to \in {"requested", "refunded"} :
        /\ ret' = [ret EXCEPT ![t].st = to]
        /\ to = "requested" <=> task[s].at = "failed"
        /\ task' = [task EXCEPT ![s] = Idle]
        /\ UNCHANGED <<gw, refund, torn>>
  BY <1>1, <1>3 DEF Revert, Finalise, Set, Cas, money, t
<1>5. /\ \A x \in Returns : ret'[x].st = IF x = t THEN to ELSE ret[x].st
      /\ DOMAIN ret' = Returns /\ \A x \in Returns : "st" \in DOMAIN ret'[x]
  BY <1>2, <1>4 DEF ReturnInv, Fields
<1>6. \A u \in Staff, x \in Returns : WorksOn(u, x)' => WorksOn(u, x) /\ task'[u] = task[u] /\ x # t
  <2>1. \A u \in Staff : task'[u] = IF u = s THEN Idle ELSE task[u]
    BY <1>4, GoesOn
  <2>2. \A u \in Staff \ {s} : ~WorksOn(u, t)
    BY <1>2 DEF ReturnInv, OneWorker
  <2>3. QED
    BY <2>1, <2>2 DEF WorksOn, Idle
<1>7. Fields'
  BY <1>4, <1>5 DEF ReturnInv, Fields
<1>8. OneWorker'
  BY <1>6 DEF ReturnInv, OneWorker
<1>9. WorkInv'
  BY <1>4, <1>5, <1>6 DEF ReturnInv, WorkInv
<1>10. NoneYet' /\ ReturnMatchesMoney'
  BY <1>1, <1>3, <1>4, <1>5 DEF ReturnInv, NoneYet, ReturnMatchesMoney
<1>11. QED
  BY <1>7, <1>8, <1>9, <1>10 DEF ReturnInv

(* A task of one of the staff on its way, and nothing booked: it goes to a      *)
(* stage before the gateway, fails, or ends with its process.                   *)
LEMMA GiveUp ==
  ASSUME IInv, ReturnInv, NEW s \in Staff, NEW v,
         task' = [task EXCEPT ![s] = v], UNCHANGED <<ret, gw, refund>>,
         torn \subseteq torn',
         \/ \A t \in Returns : ~(v.at \in {"claimed", "locked", "answered", "failed", "paid"} /\ v.t = t)
         \/ /\ v.at \in {"locked", "failed"} /\ v.t = task[s].t
            /\ task[s].at \in {"claimed", "locked"}
         \/ /\ v.at = "failed" /\ v.t = task[s].t
            /\ task[s].at = "answered" /\ task[s].t \in torn'
  PROVE  ReturnInv'
<1>1. \A u \in Staff : task'[u] = IF u = s THEN v ELSE task[u]
  BY GoesOn
<1>2. \A u \in Staff, x \in Returns : WorksOn(u, x)' => WorksOn(u, x)
  BY <1>1 DEF WorksOn
<1>3. OneWorker'
  BY <1>2 DEF ReturnInv, OneWorker
<1>4. WorkInv'
  <2> SUFFICES ASSUME NEW u \in Staff, NEW x \in Returns, WorksOn(u, x)'
               PROVE  /\ ret[x].st = "approved"
                      /\ refund[x].own <=> task'[u].at = "paid"
                      /\ task'[u].at \in {"claimed", "locked", "failed"} /\ gw[x].st # "none" => x \in torn'
                      /\ task'[u].at = "answered" => gw[x].st # "none"
    BY DEF WorkInv
  <2>1. /\ ret[x].st = "approved" /\ (refund[x].own <=> task[u].at = "paid")
        /\ task[u].at \in {"claimed", "locked", "failed"} /\ gw[x].st # "none" => x \in torn
        /\ task[u].at = "answered" => gw[x].st # "none"
    BY <1>2 DEF ReturnInv, WorkInv
  <2>2. CASE u = s
    BY <1>1, <2>1, <2>2 DEF WorksOn
  <2>3. CASE u # s
    BY <1>1, <2>1, <2>3
  <2>4. QED
    BY <2>2, <2>3
<1>5. Fields' /\ NoneYet' /\ ReturnMatchesMoney'
  BY DEF ReturnInv, Fields, NoneYet, ReturnMatchesMoney
<1>6. QED
  BY <1>3, <1>4, <1>5 DEF ReturnInv

LEMMA LockReturn ==
  ASSUME IInv, ReturnInv, NEW s \in Staff, LockOrder(s)
  PROVE  ReturnInv'
<1>1. task[s] \in Task /\ task[s].at = "claimed"
  BY DEF LockOrder, IInv, Typed
<1>2. task[s] \in [at: {"claimed", "locked", "failed", "paid"}, t: Returns]
  BY <1>1 DEF Task
<1>3. PICK v : /\ task' = [task EXCEPT ![s] = v] /\ v.at \in {"locked", "failed"} /\ v.t = task[s].t
               /\ UNCHANGED <<ret, gw, refund, torn>>
  <2>1. PICK step \in {"locked", "failed"} : task' = [task EXCEPT ![s] = [task[s] EXCEPT !.at = step]]
    BY DEF LockOrder, IInv, Typed
  <2>2. [task[s] EXCEPT !.at = step].at = step /\ [task[s] EXCEPT !.at = step].t = task[s].t
    BY <1>2
  <2>3. QED
    BY <2>1, <2>2 DEF LockOrder, money
<1>4. QED
  BY <1>1, <1>3, GiveUp

LEMMA DieReturn ==
  ASSUME IInv, ReturnInv, NEW s \in Staff, DieStaff(s) \/ RollBack(s)
  PROVE  ReturnInv'
<1>1. UNCHANGED <<ret, gw, refund>> /\ torn \subseteq torn'
  BY DEF DieStaff, RollBack, Tears
<1>2. CASE DieStaff(s)
  BY <1>1, <1>2, GiveUp DEF DieStaff, Idle
<1>3. CASE RollBack(s)
  BY <1>1, <1>3, GiveUp DEF RollBack, Fail, Tears
<1>4. QED
  BY <1>2, <1>3

(* Steps of the staff that are not about a return.                             *)
LEMMA MoveNoReturn ==
  ASSUME IInv, ReturnInv, NEW s \in Staff,
         Move(s) \/ \E to \in ByHand : BeginMove(s, to)
  PROVE  ReturnInv'
<1>1. PICK v : task' = [task EXCEPT ![s] = v] /\ v.at \in {"idle", "move"}
  BY DEF Move, BeginMove, Idle
<1>2. UNCHANGED <<ret, gw, refund, torn>>
  BY DEF Move, BeginMove, money
<1>3. QED
  BY <1>1, <1>2, GiveUp

LEMMA CallReturn ==
  ASSUME IInv, ReturnInv, NEW s \in Staff, CallGateway(s)
  PROVE  ReturnInv'
<1> DEFINE t == task[s].t
<1>1. task[s] \in Task /\ task[s].at = "locked"
  BY DEF CallGateway, IInv, Typed
<1>2. t \in Returns /\ WorksOn(s, t)
  BY <1>1 DEF Task, WorksOn
<1>3. UNCHANGED <<ret, refund, torn>>
  BY DEF CallGateway
<1>4. CASE gw' = gw /\ Fail(s)
  BY <1>1, <1>3, <1>4, GiveUp DEF Fail
<1>5. ASSUME NEW v, task' = [task EXCEPT ![s] = v], v.at = "answered", v.t = t,
             \/ gw' = gw /\ gw[t].st # "none"
             \/ \E st \in {"pending", "succeeded"} : \E amount : gw' = [gw EXCEPT ![t] = [st |-> st, amount |-> amount]]
      PROVE  ReturnInv'
  <2>1. \A u \in Staff : task'[u] = IF u = s THEN v ELSE task[u]
    <3>1. task' = [task EXCEPT ![s] = v]
      BY <1>5
    <3>2. QED
      BY <3>1, GoesOn, Zenon
  <2>2. /\ DOMAIN gw' = Returns /\ \A x \in Returns : "st" \in DOMAIN gw'[x]
        /\ (\A x \in Returns \ {t} : gw'[x] = gw[x]) /\ gw'[t].st # "none"
    <3>1. CASE gw' = gw /\ gw[t].st # "none"
      BY <3>1 DEF ReturnInv, Fields
    <3>2. ASSUME NEW st \in {"pending", "succeeded"}, NEW amount, gw' = [gw EXCEPT ![t] = [st |-> st, amount |-> amount]]
          PROVE  /\ DOMAIN gw' = Returns /\ \A x \in Returns : "st" \in DOMAIN gw'[x]
                 /\ (\A x \in Returns \ {t} : gw'[x] = gw[x]) /\ gw'[t].st # "none"
      BY <1>2, <3>2 DEF ReturnInv, Fields
    <3>3. QED
      BY <1>5, <3>1, <3>2
  <2>3. \A u \in Staff, x \in Returns : WorksOn(u, x)' => WorksOn(u, x) /\ (u # s => x # t)
    BY <1>2, <1>5, <2>1 DEF WorksOn, ReturnInv, OneWorker
  <2>4. ret[t].st = "approved" /\ ~refund[t].own
    BY <1>1, <1>2 DEF ReturnInv, WorkInv
  <2>5. Fields' /\ OneWorker'
    BY <1>3, <2>2, <2>3 DEF ReturnInv, Fields, OneWorker
  <2>6. WorkInv'
    <3> SUFFICES ASSUME NEW u \in Staff, NEW x \in Returns, WorksOn(u, x)'
                 PROVE  /\ ret[x].st = "approved"
                        /\ refund[x].own <=> task'[u].at = "paid"
                        /\ task'[u].at \in {"claimed", "locked", "failed"} /\ gw'[x].st # "none" => x \in torn
                        /\ task'[u].at = "answered" => gw'[x].st # "none"
      BY <1>3 DEF WorkInv
    <3>1. CASE u = s
      BY <1>5, <2>1, <2>2, <2>3, <2>4, <3>1 DEF WorksOn
    <3>2. CASE u # s
      <4>1. task'[u] = task[u] /\ x # t /\ gw'[x] = gw[x] /\ WorksOn(u, x)
        BY <2>1, <2>2, <2>3, <3>2
      <4>2. QED
        BY <4>1 DEF ReturnInv, WorkInv
    <3>3. QED
      BY <3>1, <3>2
  <2>7. NoneYet' /\ ReturnMatchesMoney'
    BY <1>3, <2>2, <2>4 DEF ReturnInv, NoneYet, ReturnMatchesMoney
  <2>8. QED
    BY <2>5, <2>6, <2>7 DEF ReturnInv
<1>6. ASSUME NEW reply, task' = [task EXCEPT ![s] = [at |-> "answered", t |-> t, reply |-> reply]],
             \/ gw' = gw /\ gw[t].st # "none"
             \/ \E st \in {"pending", "succeeded"} : \E amount : gw' = [gw EXCEPT ![t] = [st |-> st, amount |-> amount]]
      PROVE  ReturnInv'
  BY <1>5, <1>6
<1>7. CASE gw[t].st \in {"pending", "succeeded"} /\ gw' = gw
           /\ task' = [task EXCEPT ![s] = [at |-> "answered", t |-> t, reply |-> gw[t].st]]
  BY <1>6, <1>7
<1>8. ASSUME NEW st \in {"pending", "succeeded"},
             gw' = [gw EXCEPT ![t] = [st |-> st, amount |-> PlanOf(t).amount]],
             task' = [task EXCEPT ![s] = [at |-> "answered", t |-> t, reply |-> st]]
      PROVE  ReturnInv'
  BY <1>6, <1>8
<1>9. QED
  BY <1>4, <1>7, <1>8 DEF CallGateway

LEMMA BookReturn ==
  ASSUME IInv, ReturnInv, NEW s \in Staff, Book(s)
  PROVE  ReturnInv'
<1> DEFINE t == task[s].t
<1>1. task[s] \in Task /\ task[s].at = "answered"
  BY DEF Book, IInv, Typed
<1>2. t \in Returns /\ WorksOn(s, t)
  BY <1>1 DEF Task, WorksOn
<1>3. UNCHANGED <<ret, gw>>
  BY DEF Book
<1>4. CASE refund[t].st # "none"
  BY <1>1, <1>3, <1>4, GiveUp DEF Book, Fail
<1>5. CASE refund[t].st = "none"
  <2> DEFINE r == Booked(PlanOf(t), task[s].reply, TRUE)
             v == [at |-> "paid", t |-> t]
  <2>1. refund' = [refund EXCEPT ![t] = r] /\ task' = [task EXCEPT ![s] = v] /\ torn' = torn
    BY <1>5 DEF Book
  <2>2. "st" \in DOMAIN r /\ "own" \in DOMAIN r /\ r.own = TRUE /\ r.st = task[s].reply
    BY DEF Booked
  <2> HIDE DEF r
  <2>3. \A u \in Staff : task'[u] = IF u = s THEN v ELSE task[u]
    BY <2>1, GoesOn
  <2>4. DOMAIN refund' = Returns /\ \A x \in Returns : refund'[x] = IF x = t THEN r ELSE refund[x]
    BY <2>1 DEF ReturnInv, Fields
  <2>5. \A u \in Staff, x \in Returns : WorksOn(u, x)' => WorksOn(u, x) /\ (x = t <=> u = s)
    BY <1>2, <2>3 DEF WorksOn, ReturnInv, OneWorker
  <2>6. ret[t].st = "approved" /\ gw[t].st # "none"
    BY <1>1, <1>2 DEF ReturnInv, WorkInv
  <2>7. Fields' /\ OneWorker'
    BY <1>3, <2>2, <2>4, <2>5 DEF ReturnInv, Fields, OneWorker
  <2>8. WorkInv'
    <3> SUFFICES ASSUME NEW u \in Staff, NEW x \in Returns, WorksOn(u, x)'
                 PROVE  /\ ret[x].st = "approved"
                        /\ refund'[x].own <=> task'[u].at = "paid"
                        /\ task'[u].at \in {"claimed", "locked", "failed"} /\ gw[x].st # "none" => x \in torn
                        /\ task'[u].at = "answered" => gw[x].st # "none"
      BY <1>3, <2>1 DEF WorkInv
    <3>1. CASE u = s
      BY <2>2, <2>3, <2>4, <2>5, <2>6, <3>1
    <3>2. CASE u # s
      <4>1. task'[u] = task[u] /\ x # t /\ refund'[x] = refund[x] /\ WorksOn(u, x)
        BY <2>3, <2>4, <2>5, <3>2
      <4>2. QED
        BY <4>1 DEF ReturnInv, WorkInv
    <3>3. QED
      BY <3>1, <3>2
  <2>9. task[s].reply # "none"
    <3>1. QED
      BY <1>1 DEF Task
  <2>10. NoneYet' /\ ReturnMatchesMoney'
    BY <1>3, <2>1, <2>2, <2>4, <2>6, <2>9 DEF ReturnInv, NoneYet, ReturnMatchesMoney
  <2>11. QED
    BY <2>7, <2>8, <2>10 DEF ReturnInv
<1>6. QED
  BY <1>4, <1>5

(* The customer asks; the bank settles; a delivery records or settles a refund. *)
LEMMA RefundEventReturn ==
  ASSUME IInv, ReturnInv, NEW t \in Returns,
         Ask(t) \/ Settle(t) \/ RecordRefund(t) \/ SettleRefund(t)
  PROVE  ReturnInv'
<1>1. task' = task /\ torn' = torn
  BY DEF Ask, Settle, RecordRefund, SettleRefund, money
<1>2. \A u \in Staff, x \in Returns : WorksOn(u, x)' <=> WorksOn(u, x)
  BY <1>1 DEF WorksOn
<1>3. CASE Ask(t)
  <2>1. ret[t].st = "none" /\ UNCHANGED <<gw, refund>>
    BY <1>3 DEF Ask, money
  <2>2. DOMAIN ret' = Returns /\ (\A x \in Returns \ {t} : ret'[x] = ret[x])
        /\ "st" \in DOMAIN ret'[t] /\ ret'[t].st = "requested"
    <3>1. PICK q : ret' = [ret EXCEPT ![t] = [st |-> "requested", qty |-> q]]
      BY <1>3 DEF Ask
    <3>2. QED
      BY <3>1 DEF ReturnInv, Fields
  <2>3. ~refund[t].own /\ gw[t].st = "none" /\ \A u \in Staff : ~WorksOn(u, t)
    BY <2>1 DEF ReturnInv, ReturnMatchesMoney, NoneYet, WorkInv
  <2>4. Fields' /\ OneWorker'
    BY <1>2, <2>1, <2>2 DEF ReturnInv, Fields, OneWorker
  <2>5. WorkInv'
    BY <1>1, <1>2, <2>1, <2>2, <2>3 DEF ReturnInv, WorkInv
  <2>6. NoneYet' /\ ReturnMatchesMoney'
    BY <1>1, <2>1, <2>2, <2>3 DEF ReturnInv, NoneYet, ReturnMatchesMoney
  <2>7. QED
    BY <2>4, <2>5, <2>6 DEF ReturnInv
<1>4. CASE Settle(t)
  <2>1. gw[t].st = "pending" /\ UNCHANGED <<ret, refund>>
    BY <1>4 DEF Settle
  <2>2. DOMAIN gw' = Returns /\ (\A x \in Returns \ {t} : gw'[x] = gw[x]) /\ "st" \in DOMAIN gw'[t]
        /\ gw'[t].st # "none"
    <3>1. PICK st \in {"succeeded", "failed"} : gw' = [gw EXCEPT ![t].st = st]
      BY <1>4 DEF Settle
    <3>2. QED
      BY <3>1 DEF ReturnInv, Fields
  <2>3. \A x \in Returns : gw'[x].st # "none" <=> gw[x].st # "none"
    BY <2>1, <2>2
  <2>4. Fields' /\ OneWorker'
    BY <1>2, <2>1, <2>2 DEF ReturnInv, Fields, OneWorker
  <2>5. WorkInv'
    BY <1>1, <1>2, <2>1, <2>3 DEF ReturnInv, WorkInv
  <2>6. NoneYet' /\ ReturnMatchesMoney'
    BY <1>1, <2>1, <2>3 DEF ReturnInv, NoneYet, ReturnMatchesMoney
  <2>7. QED
    BY <2>4, <2>5, <2>6 DEF ReturnInv
<1>5. ASSUME UNCHANGED <<ret, gw>>, NEW r, refund' = [refund EXCEPT ![t] = r], "st" \in DOMAIN r,
             "own" \in DOMAIN r, r.own = refund[t].own, r.st # "none", gw[t].st # "none"
      PROVE  ReturnInv'
  <2>1. DOMAIN refund' = Returns /\ \A x \in Returns : refund'[x] = IF x = t THEN r ELSE refund[x]
    BY <1>5 DEF ReturnInv, Fields
  <2>2. Fields' /\ OneWorker'
    BY <1>2, <1>5, <2>1 DEF ReturnInv, Fields, OneWorker
  <2>3. \A x \in Returns : refund'[x].own = refund[x].own
    BY <1>5, <2>1
  <2>4. WorkInv' /\ ReturnMatchesMoney'
    BY <1>1, <1>2, <1>5, <2>3 DEF ReturnInv, WorkInv, ReturnMatchesMoney
  <2>5. NoneYet'
    BY <1>5, <2>1, <2>3 DEF ReturnInv, NoneYet
  <2>6. QED
    BY <2>2, <2>4, <2>5 DEF ReturnInv
<1>6. CASE RecordRefund(t)
  <2> DEFINE r == Booked([amount |-> gw[t].amount, units |-> 0], gw[t].st, FALSE)
  <2>1. /\ refund[t].st = "none" /\ gw[t].st \in {"pending", "succeeded"}
        /\ refund' = [refund EXCEPT ![t] = r] /\ UNCHANGED <<ret, gw>>
    BY <1>6 DEF RecordRefund
  <2>2. "st" \in DOMAIN r /\ "own" \in DOMAIN r /\ r.own = FALSE /\ r.st = gw[t].st
    BY DEF Booked
  <2>3. refund[t].own = FALSE
    BY <2>1 DEF ReturnInv, NoneYet, Fields
  <2> HIDE DEF r
  <2>4. QED
    BY <1>5, <2>1, <2>2, <2>3
<1>7. CASE SettleRefund(t)
  <2> DEFINE r == [refund[t] EXCEPT !.st = gw[t].st]
  <2>1. refund[t].st = "pending" /\ refund' = [refund EXCEPT ![t] = r] /\ UNCHANGED <<ret, gw>>
    BY <1>7 DEF SettleRefund
  <2>2. "st" \in DOMAIN r /\ "own" \in DOMAIN r /\ r.own = refund[t].own /\ r.st = gw[t].st /\ gw[t].st # "none"
    BY <2>1 DEF ReturnInv, Fields, NoneYet
  <2> HIDE DEF r
  <2>3. QED
    BY <1>5, <2>1, <2>2
<1>8. QED
  BY <1>3, <1>4, <1>6, <1>7

LEMMA NextReturnInv == IInv /\ ReturnInv /\ [Next]_vars => ReturnInv'
<1> SUFFICES ASSUME IInv, ReturnInv, [Next]_vars PROVE ReturnInv'
  OBVIOUS
<1>1. ASSUME NEW s \in Staff, StaffStep(s) PROVE ReturnInv'
  BY <1>1, ClaimReturn, EndReturn, LockReturn, DieReturn, MoveNoReturn, CallReturn, BookReturn DEF StaffStep
<1>2. ASSUME NEW t \in Returns, Ask(t) \/ Settle(t) \/ RecordRefund(t) \/ SettleRefund(t) PROVE ReturnInv'
  BY <1>2, RefundEventReturn
<1>3. ASSUME UNCHANGED <<task, ret>>, UNCHANGED money PROVE ReturnInv'
  BY <1>3 DEF money, ReturnInv, Fields, OneWorker, WorkInv, WorksOn, NoneYet, ReturnMatchesMoney
<1>4. ASSUME NEW w \in Workers, WorkerStep(w) PROVE ReturnInv'
  BY <1>3, <1>4 DEF WorkerStep, BeginDispute, HandleDispute, DieWorker
<1>5. ASSUME NEW d \in Disputes, Unfreeze(d) \/ Open(d) \/ Touch(d) \/ Close(d) PROVE ReturnInv'
  BY <1>3, <1>5 DEF Unfreeze, Open, Touch, Close, Emit
<1>6. CASE UNCHANGED vars
  BY <1>3, <1>6 DEF vars
<1>7. QED
  BY <1>1, <1>2, <1>4, <1>5, <1>6 DEF Next

(* One return, one refund: approve() claims by compare-and-set, books under its *)
(* lock, and gives the claim back only when nothing was booked.                 *)
THEOREM ReturnsMatchMoney == Spec => []ReturnMatchesMoney
<1>1. ReturnInv => ReturnMatchesMoney
  BY DEF ReturnInv
<1>2. QED
  BY <1>1, InitReturnInv, NextReturnInv, RowLockProtects, PTL DEF Spec

-----------------------------------------------------------------------------
(* The money.  A request that has the order locked and has checked its plan    *)
(* still fits when it books, because nothing is booked past its lock.          *)
(* A column of n cells has n. *)
LEMMA ColumnSize ==
  ASSUME NEW x, NEW n \in Nat
  PROVE  IsFiniteSet({x} \X (1..n)) /\ Cardinality({x} \X (1..n)) = n
<1>1. PICK A : A = {x}
  OBVIOUS
<1>2. PICK B : B = 1..n
  OBVIOUS
<1>3. IsFiniteSet(A) /\ Cardinality(A) = 1
  BY <1>1, FS_Singleton
<1>4. IsFiniteSet(B) /\ Cardinality(B) = n
  BY <1>2, FS_Interval
<1>5. IsFiniteSet(A \X B) /\ Cardinality(A \X B) = Cardinality(A) * Cardinality(B)
  BY <1>3, <1>4, FS_Product, Zenon
<1>6. PICK k : k = Cardinality(A \X B)
  OBVIOUS
<1>7. k = 1 * n
  BY <1>3, <1>4, <1>5, <1>6
<1>8. k = n
  BY <1>7
<1>9. QED
  BY <1>1, <1>2, <1>5, <1>6, <1>8

LEMMA UnitsNat == Units \in Nat /\ Units >= 1
  BY FulfilmentAssumption DEF FulfilmentAssumption

Cells(has) == {u \in Returns \X (1..Units) : u[2] <= has[u[1]]}

LEMMA CellsFinite == ASSUME NEW has PROVE IsFiniteSet(Cells(has))
<1>1. IsFiniteSet(Returns)
  BY FulfilmentAssumption DEF FulfilmentAssumption
<1>2. IsFiniteSet(1..Units)
  BY UnitsNat, FS_Interval
<1>3. IsFiniteSet(Returns \X (1..Units))
  BY <1>1, <1>2, FS_Product
<1>4. Cells(has) \in SUBSET (Returns \X (1..Units))
  BY DEF Cells
<1>5. QED
  BY <1>3, <1>4, FS_Subset

LEMMA SumNat == ASSUME NEW has PROVE Sum(has) \in Nat
<1>1. IsFiniteSet(Cells(has))
  BY CellsFinite
<1>2. Cardinality(Cells(has)) \in Nat
  BY <1>1, FS_CardinalityType
<1>3. QED
  BY <1>2 DEF Sum, Cells

(* When one return's share changes, so does the sum, by as much. *)
LEMMA SumChanges ==
  ASSUME NEW f \in [Returns -> 0..Units], NEW g \in [Returns -> 0..Units], NEW x \in Returns,
         \A r \in Returns : r # x => g[r] = f[r]
  PROVE  Sum(g) = Sum(f) - f[x] + g[x]
<1> DEFINE Rest == {u \in Cells(f) : u[1] # x}
           Own(n) == {x} \X (1..n)
<1>1. IsFiniteSet(Rest)
  <2>1. IsFiniteSet(Cells(f))
    BY CellsFinite
  <2>2. QED
    BY <2>1, FS_Subset
<1>2. \A n \in 0..Units : IsFiniteSet(Own(n)) /\ Cardinality(Own(n)) = n /\ Rest \cap Own(n) = {}
  <2>1. TAKE n \in 0..Units
  <2>2. n \in Nat
    BY UnitsNat
  <2>3. IsFiniteSet(Own(n)) /\ Cardinality(Own(n)) = n
    BY <2>2, ColumnSize
  <2>4. Rest \cap Own(n) = {}
    OBVIOUS
  <2>5. QED
    BY <2>3, <2>4
<1>3. f[x] \in 0..Units /\ g[x] \in 0..Units
  OBVIOUS
<1>4. Cells(f) = Rest \cup Own(f[x])
  <2>1. Own(f[x]) \subseteq Cells(f)
    <3>1. \A n \in 1..f[x] : n \in 1..Units
      BY <1>3, UnitsNat
    <3>2. QED
      BY <3>1, <1>3, UnitsNat DEF Cells
  <2>2. \A u \in Cells(f) : u \in Rest \/ u \in Own(f[x])
    <3>1. TAKE u \in Cells(f)
    <3>2. u \in Returns \X (1..Units) /\ u[2] <= f[u[1]]
      BY DEF Cells
    <3>3. CASE u[1] = x
      <4>1. u[2] \in 1..f[x]
        BY <3>2, <3>3, <1>3, UnitsNat
      <4>2. QED
        BY <3>2, <3>3, <4>1
    <3>4. QED
      BY <3>3
  <2>3. QED
    BY <2>1, <2>2
<1>5. Cells(g) = Rest \cup Own(g[x])
  <2>1. Own(g[x]) \subseteq Cells(g)
    <3>1. \A n \in 1..g[x] : n \in 1..Units
      BY <1>3, UnitsNat
    <3>2. QED
      BY <3>1, <1>3, UnitsNat DEF Cells
  <2>2. Rest \subseteq Cells(g)
    BY DEF Cells
  <2>3. \A u \in Cells(g) : u \in Rest \/ u \in Own(g[x])
    <3>1. TAKE u \in Cells(g)
    <3>2. u \in Returns \X (1..Units) /\ u[2] <= g[u[1]]
      BY DEF Cells
    <3>3. CASE u[1] = x
      <4>1. u[2] \in 1..g[x]
        BY <3>2, <3>3, <1>3, UnitsNat
      <4>2. QED
        BY <3>2, <3>3, <4>1
    <3>4. CASE u[1] # x
      <4>1. g[u[1]] = f[u[1]]
        BY <3>2, <3>4
      <4>2. QED
        BY <3>2, <3>4, <4>1 DEF Cells
    <3>5. QED
      BY <3>3, <3>4
  <2>4. QED
    BY <2>1, <2>2, <2>3
<1>6. Cardinality(Rest) \in Nat /\ Cardinality({}) = 0
  BY <1>1, FS_CardinalityType, FS_EmptySet
<1> HIDE DEF Rest, Own
<1>7. Cardinality(Cells(f)) = Cardinality(Rest) + f[x]
  <2>1. IsFiniteSet(Own(f[x])) /\ Cardinality(Own(f[x])) = f[x] /\ Rest \cap Own(f[x]) = {}
    BY <1>2, <1>3
  <2>2. Cardinality(Cells(f)) = Cardinality(Rest) + Cardinality(Own(f[x])) - Cardinality(Rest \cap Own(f[x]))
    BY <1>1, <1>4, <2>1, FS_Union
  <2>3. f[x] \in Int
    BY <1>3, UnitsNat
  <2>4. Cardinality(Own(f[x])) = f[x] /\ Cardinality(Rest \cap Own(f[x])) = 0
    BY <1>6, <2>1
  <2>5. QED
    BY <1>6, <2>2, <2>3, <2>4
<1>8. Cardinality(Cells(g)) = Cardinality(Rest) + g[x]
  <2>1. IsFiniteSet(Own(g[x])) /\ Cardinality(Own(g[x])) = g[x] /\ Rest \cap Own(g[x]) = {}
    BY <1>2, <1>3
  <2>2. Cardinality(Cells(g)) = Cardinality(Rest) + Cardinality(Own(g[x])) - Cardinality(Rest \cap Own(g[x]))
    BY <1>1, <1>5, <2>1, FS_Union
  <2>3. g[x] \in Int
    BY <1>3, UnitsNat
  <2>4. Cardinality(Own(g[x])) = g[x] /\ Cardinality(Rest \cap Own(g[x])) = 0
    BY <1>6, <2>1
  <2>5. QED
    BY <1>6, <2>2, <2>3, <2>4
<1>9. Sum(f) = Cardinality(Cells(f)) /\ Sum(g) = Cardinality(Cells(g))
  BY DEF Sum, Cells
<1>10. f[x] \in Int /\ g[x] \in Int
  BY <1>3, UnitsNat
<1>11. QED
  BY <1>6, <1>7, <1>8, <1>9, <1>10

LEMMA SumOfNothing == Sum([t \in Returns |-> 0]) = 0
<1>1. Cells([t \in Returns |-> 0]) = {}
  BY UnitsNat DEF Cells
<1>2. QED
  BY <1>1, FS_EmptySet DEF Sum, Cells

Share(r)  == IF r.st = "failed" THEN 0 ELSE r.amount
Planning(s) == task[s].at \in {"locked", "answered"}

MoneyInv ==
  /\ lock \in Staff \cup Workers \cup {Nobody}
  /\ ret \in [Returns -> Return] /\ gw \in [Returns -> Paid] /\ refund \in [Returns -> Refund]
  /\ Refunded <= Units /\ faults \in 0..MaxFaults /\ torn \subseteq Returns
  /\ \A s \in Staff : Planning(s) => PlanOf(task[s].t).amount \in 1..(Units - Refunded)

LEMMA SharesType ==
  ASSUME NEW f \in [Returns -> Refund]
  PROVE  [t \in Returns |-> Share(f[t])] \in [Returns -> 0..Units]
<1>1. \A r \in Refund : Share(r) \in 0..Units
  BY UnitsNat DEF Refund, Share
<1>2. QED
  BY <1>1

LEMMA RefundedIs == Refunded = Sum([t \in Returns |-> Share(refund[t])]) /\ Refunded \in Nat
<1>1. Refunded = Sum([t \in Returns |-> Share(refund[t])])
  BY DEF Refunded, Share
<1>2. QED
  BY <1>1, SumNat

(* One refund more, or one that is settled.                                     *)
LEMMA RefundedChanges ==
  ASSUME NEW f \in [Returns -> Refund], NEW t \in Returns, NEW r \in Refund
  PROVE  LET g == [f EXCEPT ![t] = r] IN
         Sum([u \in Returns |-> Share(g[u])]) = Sum([u \in Returns |-> Share(f[u])]) - Share(f[t]) + Share(r)
<1>1. PICK g : g = [f EXCEPT ![t] = r]
  OBVIOUS
<1>2. g \in [Returns -> Refund] /\ g[t] = r /\ \A u \in Returns : u # t => g[u] = f[u]
  BY <1>1
<1>3. PICK a : a = [u \in Returns |-> Share(f[u])]
  OBVIOUS
<1>4. PICK b : b = [u \in Returns |-> Share(g[u])]
  OBVIOUS
<1>5. a \in [Returns -> 0..Units] /\ b \in [Returns -> 0..Units]
  BY <1>2, <1>3, <1>4, SharesType
<1>6. a[t] = Share(f[t]) /\ b[t] = Share(r) /\ \A u \in Returns : u # t => b[u] = a[u]
  BY <1>2, <1>3, <1>4
<1>7. Sum(b) = Sum(a) - a[t] + b[t]
  BY <1>5, <1>6, SumChanges
<1>8. QED
  BY <1>1, <1>3, <1>4, <1>6, <1>7

LEMMA InitMoney == Init => MoneyInv
<1> SUFFICES ASSUME Init PROVE MoneyInv
  OBVIOUS
<1>1. NoRefund \in Refund
  BY UnitsNat DEF NoRefund, Refund, Outcome
<1>2. ret \in [Returns -> Return] /\ gw \in [Returns -> Paid] /\ refund \in [Returns -> Refund]
  BY <1>1, UnitsNat DEF Init, Return, Paid, Outcome
<1>3. Refunded = 0
  <2>1. [t \in Returns |-> Share(refund[t])] = [t \in Returns |-> 0]
    BY DEF Init, Share, NoRefund
  <2>2. QED
    BY <2>1, RefundedIs, SumOfNothing
<1>4. \A s \in Staff : ~Planning(s)
  BY DEF Init, Planning, Idle
<1>5. QED
  BY <1>2, <1>3, <1>4, UnitsNat, FulfilmentAssumption DEF Init, MoneyInv, FulfilmentAssumption

LEMMA PlanIs ==
  ASSUME MoneyInv, NEW t \in Returns
  PROVE  PlanOf(t).units \in 0..Units /\ (PlanOf(t).amount \in 1..(Units - Refunded) => PlanOf(t).amount \in 0..Units)
<1>1. ret[t].qty \in 0..Units /\ Refunded \in Nat
  BY RefundedIs DEF MoneyInv, Return
<1>2. PlanOf(t).units \in {0, ret[t].qty}
  BY DEF PlanOf
<1>3. QED
  BY <1>1, <1>2, UnitsNat

LEMMA BookedIs ==
  ASSUME NEW p, p.amount \in 0..Units, p.units \in 0..Units, NEW st \in Outcome, NEW own \in BOOLEAN
  PROVE  Booked(p, st, own) \in Refund /\ Share(Booked(p, st, own)) <= p.amount
<1>1. TargetOf(p.amount) \in {"refunded", "partially_refunded"} /\ CanMove(order.status, TargetOf(p.amount)) \in BOOLEAN
  BY DEF TargetOf, CanMove
<1>2. PICK r : r = Booked(p, st, own)
  OBVIOUS
<1>3. r = [st |-> st, amount |-> p.amount, units |-> p.units, own |-> own,
           target |-> TargetOf(p.amount), drive |-> CanMove(order.status, TargetOf(p.amount))]
  BY <1>2 DEF Booked
<1>4. r \in Refund
  BY <1>1, <1>3 DEF Refund
<1>5. r.amount = p.amount
  BY <1>3
<1>6. Share(r) <= p.amount
  BY <1>5, UnitsNat DEF Share
<1>7. QED
  BY <1>2, <1>4, <1>6

(* Steps that book nothing: who plans has checked, and its return stays.        *)
LEMMA MoneyQuiet ==
  ASSUME MoneyInv, lock' \in Staff \cup Workers \cup {Nobody}, faults' \in 0..MaxFaults,
         torn' \subseteq Returns, ret' \in [Returns -> Return], gw' \in [Returns -> Paid], refund' = refund,
         \A s \in Staff : Planning(s)' =>
           /\ ret'[task'[s].t].qty = ret[task'[s].t].qty
           /\ PlanOf(task'[s].t).amount \in 1..(Units - Refunded)
  PROVE  MoneyInv'
<1>1. Refunded' = Refunded
  BY DEF Refunded
<1>2. ASSUME NEW s \in Staff, Planning(s)' PROVE PlanOf(task[s].t)'.amount \in 1..(Units - Refunded)'
  <2>1. PICK t : t = task'[s].t
    OBVIOUS
  <2>2. ret'[t].qty = ret[t].qty /\ PlanOf(t).amount \in 1..(Units - Refunded)
    BY <1>2, <2>1
  <2>3. PlanOf(task[s].t)' = PlanOf(t)
    BY <1>1, <2>1, <2>2 DEF PlanOf
  <2>4. QED
    BY <1>1, <2>2, <2>3
<1>3. QED
  BY <1>1, <1>2 DEF MoneyInv

(* Steps that book or settle one refund, with nobody planning after them.       *)
LEMMA MoneyBooked ==
  ASSUME MoneyInv, NEW t \in Returns, NEW r \in Refund, refund' = [refund EXCEPT ![t] = r],
         Share(r) <= Share(refund[t]) \/ Share(r) <= Units - Refunded,
         lock' \in Staff \cup Workers \cup {Nobody}, UNCHANGED <<ret, gw, faults>>, torn' \subseteq Returns,
         \A s \in Staff : ~Planning(s)'
  PROVE  MoneyInv'
<1>1. refund \in [Returns -> Refund]
  BY DEF MoneyInv
<1>2. PICK f : f = refund
  OBVIOUS
<1>3. PICK g : g = [f EXCEPT ![t] = r]
  OBVIOUS
<1>4. refund' = g /\ g \in [Returns -> Refund] /\ f \in [Returns -> Refund]
  BY <1>1, <1>2, <1>3
<1>5. Refunded' = Sum([u \in Returns |-> Share(g[u])])
  BY <1>4 DEF Refunded, Share
<1>6. Refunded = Sum([u \in Returns |-> Share(f[u])]) /\ Refunded \in Nat
  BY <1>2, RefundedIs
<1>7. Refunded' = Refunded - Share(f[t]) + Share(r)
  BY <1>3, <1>4, <1>5, <1>6, RefundedChanges
<1>8. Share(f[t]) \in Nat /\ Share(r) \in Nat
  BY <1>4, UnitsNat DEF Share, Refund
<1>9. Refunded <= Units
  BY DEF MoneyInv
<1>10. Refunded' <= Units
  BY <1>2, <1>6, <1>7, <1>8, <1>9, UnitsNat
<1>11. QED
  BY <1>4, <1>10 DEF MoneyInv

(* One of the staff goes on to v and books nothing.                             *)
LEMMA StaffMoney ==
  ASSUME IInv, MoneyInv, NEW s \in Staff, NEW v \in Task, task' = [task EXCEPT ![s] = v],
         lock' \in Staff \cup Workers \cup {Nobody}, faults' \in 0..MaxFaults, torn' \subseteq Returns,
         ret' \in [Returns -> Return], \A t \in Returns : ret'[t].qty = ret[t].qty,
         gw' \in [Returns -> Paid], refund' = refund,
         v.at \in {"locked", "answered"} => PlanOf(v.t).amount \in 1..(Units - Refunded)
  PROVE  MoneyInv'
<1>1. task \in [Staff -> Task]
  BY DEF IInv, Typed
<1>2. \A r \in Task : r.at \in {"locked", "answered"} => r.t \in Returns
  BY DEF Task
<1>3. ASSUME NEW u \in Staff, Planning(u)'
      PROVE  ret'[task'[u].t].qty = ret[task'[u].t].qty /\ PlanOf(task'[u].t).amount \in 1..(Units - Refunded)
  <2>1. task'[u] \in Task /\ task'[u].at \in {"locked", "answered"}
    BY <1>1, <1>3 DEF Planning
  <2>2. task'[u].t \in Returns
    BY <1>2, <2>1
  <2>3. ret'[task'[u].t].qty = ret[task'[u].t].qty
    BY <2>2
  <2>4. CASE u = s
    <3>1. task'[u] = v
      BY <1>1, <2>4
    <3>2. QED
      BY <2>1, <2>3, <3>1
  <2>5. CASE u # s
    <3>1. task'[u] = task[u]
      BY <1>1, <2>5
    <3>2. PlanOf(task[u].t).amount \in 1..(Units - Refunded)
      BY <2>1, <3>1 DEF MoneyInv, Planning
    <3>3. QED
      BY <2>3, <3>1, <3>2
  <2>6. QED
    BY <2>4, <2>5
<1>4. QED
  BY <1>3, MoneyQuiet

(* Nobody of the staff moves, and no money does.                                *)
LEMMA MoneyAlone ==
  ASSUME MoneyInv, UNCHANGED <<task, ret>>, UNCHANGED money,
         lock' \in Staff \cup Workers \cup {Nobody}, faults' \in 0..MaxFaults
  PROVE  MoneyInv'
<1>1. UNCHANGED <<gw, refund, torn>>
  BY DEF money
<1>2. Refunded' = Refunded
  BY <1>1 DEF Refunded
<1>3. \A s \in Staff : Planning(s)' => PlanOf(task[s].t)'.amount \in 1..(Units - Refunded)'
  BY <1>2 DEF Planning, PlanOf, MoneyInv
<1>4. QED
  BY <1>1, <1>2, <1>3 DEF MoneyInv

LEMMA SetKeeps ==
  ASSUME MoneyInv, NEW t \in Returns, NEW from, NEW to \in {"requested", "approved", "refunded", "rejected"},
         Set(t, from, to)
  PROVE  ret' \in [Returns -> Return] /\ \A u \in Returns : ret'[u].qty = ret[u].qty
<1>1. ret \in [Returns -> Return]
  BY DEF MoneyInv
<1>2. ret' = ret \/ ret' = [ret EXCEPT ![t].st = to]
  BY DEF Set
<1>3. ASSUME ret' = [ret EXCEPT ![t].st = to]
      PROVE  ret' \in [Returns -> Return] /\ \A u \in Returns : ret'[u].qty = ret[u].qty
  <2>1. ret[t] \in Return
    BY <1>1
  <2>2. [ret[t] EXCEPT !.st = to] \in Return /\ [ret[t] EXCEPT !.st = to].qty = ret[t].qty
    BY <2>1 DEF Return
  <2>3. QED
    BY <1>1, <1>3, <2>2
<1>4. QED
  BY <1>1, <1>2, <1>3

LEMMA TaskReturn ==
  ASSUME IInv, NEW s \in Staff, task[s].at \in {"claimed", "locked", "answered", "failed", "paid"}
  PROVE  task[s].t \in Returns
BY DEF IInv, Typed, Task

LEMMA MovesMoney ==
  ASSUME IInv, MoneyInv, NEW s \in Staff, (\E to \in ByHand : BeginMove(s, to)) \/ Move(s)
  PROVE  MoneyInv'
<1>1. PICK v \in Task : task' = [task EXCEPT ![s] = v] /\ v.at \in {"move", "idle"}
  BY DEF BeginMove, Move, Task, Idle
<1>2. UNCHANGED <<ret, gw, refund, torn, faults>> /\ lock' \in Staff \cup Workers \cup {Nobody}
  BY DEF BeginMove, Move, money
<1>3. ret' \in [Returns -> Return] /\ gw' \in [Returns -> Paid] /\ torn' \subseteq Returns /\ faults' \in 0..MaxFaults
  BY <1>2 DEF MoneyInv
<1>4. QED
  BY <1>1, <1>2, <1>3, StaffMoney

(* The steps of a return outside the lock change its status alone.              *)
LEMMA ReturnStepMoney ==
  ASSUME IInv, MoneyInv, NEW s \in Staff, NEW t \in Returns,
         Reject(s, t) \/ Claim(s, t) \/ Revert(s) \/ Finalise(s)
  PROVE  MoneyInv'
<1>1. UNCHANGED <<gw, refund, torn, faults>> /\ Idle \in Task /\ lock' \in Staff \cup Workers \cup {Nobody}
  BY DEF Reject, Claim, Revert, Finalise, money, Task, Idle, MoneyInv
<1>2. gw' \in [Returns -> Paid] /\ torn' \subseteq Returns /\ faults' \in 0..MaxFaults
  BY <1>1 DEF MoneyInv
<1>3. ASSUME NEW u \in Returns, NEW from, NEW to \in {"requested", "approved", "refunded", "rejected"},
             Set(u, from, to), NEW v \in Task, v.at \notin {"locked", "answered"}, task' = [task EXCEPT ![s] = v]
      PROVE  MoneyInv'
  BY <1>1, <1>2, <1>3, SetKeeps, StaffMoney
<1>4. CASE Reject(s, t)
  <2>1. Set(t, "requested", "rejected") /\ task' = task /\ task[s] = Idle
    BY <1>4 DEF Reject
  <2>2. task' = [task EXCEPT ![s] = Idle]
    BY <2>1 DEF IInv, Typed
  <2>3. Idle.at = "idle"
    BY DEF Idle
  <2>4. QED
    BY <1>1, <1>3, <2>1, <2>2, <2>3
<1>5. CASE Claim(s, t)
  <2>1. [at |-> "claimed", t |-> t] \in Task
    BY DEF Task
  <2>2. QED
    BY <1>3, <1>5, <2>1 DEF Claim
<1>6. CASE Revert(s)
  <2>1. task[s].t \in Returns
    BY <1>6, TaskReturn DEF Revert
  <2>2. Idle.at = "idle"
    BY DEF Idle
  <2>3. QED
    BY <1>1, <1>3, <1>6, <2>1, <2>2 DEF Revert
<1>7. CASE Finalise(s)
  <2>1. task[s].t \in Returns
    BY <1>7, TaskReturn DEF Finalise
  <2>2. Idle.at = "idle"
    BY DEF Idle
  <2>3. QED
    BY <1>1, <1>3, <1>7, <2>1, <2>2 DEF Finalise
<1>8. QED
  BY <1>4, <1>5, <1>6, <1>7

(* Under the lock: create() checks, calls the gateway, and books.               *)
LEMMA LockMoney ==
  ASSUME IInv, MoneyInv, NEW s \in Staff, LockOrder(s) PROVE MoneyInv'
<1>1. PICK t : t = task[s].t
  OBVIOUS
<1>2. t \in Returns /\ task[s] \in [at: {"claimed", "locked", "failed", "paid"}, t: Returns]
  BY <1>1 DEF LockOrder, IInv, Typed, Task
<1>3. PICK step \in {"locked", "failed"} :
        /\ task' = [task EXCEPT ![s] = [task[s] EXCEPT !.at = step]]
        /\ step = "locked" => Refundable(t)
  BY <1>1 DEF LockOrder, IInv, Typed
<1>4. PICK v : v = [task[s] EXCEPT !.at = step]
  OBVIOUS
<1>5. v \in Task /\ v.at = step /\ v.t = t
  BY <1>1, <1>2, <1>4 DEF Task
<1>6. step = "locked" => PlanOf(t).amount \in 1..(Units - Refunded)
  BY <1>3 DEF Refundable
<1>7. UNCHANGED <<ret, gw, refund, torn, faults>> /\ lock' \in {s, lock}
  BY DEF LockOrder, money
<1>8. ret' \in [Returns -> Return] /\ gw' \in [Returns -> Paid] /\ torn' \subseteq Returns
      /\ faults' \in 0..MaxFaults /\ lock' \in Staff \cup Workers \cup {Nobody}
  BY <1>7 DEF MoneyInv
<1>9. QED
  BY <1>3, <1>4, <1>5, <1>6, <1>7, <1>8, StaffMoney

LEMMA CallMoney ==
  ASSUME IInv, MoneyInv, NEW s \in Staff, CallGateway(s) PROVE MoneyInv'
<1>1. PICK t : t = task[s].t
  OBVIOUS
<1>2. t \in Returns /\ task[s].at = "locked" /\ PlanOf(t).amount \in 1..(Units - Refunded)
  BY <1>1, TaskReturn DEF CallGateway, MoneyInv, Planning
<1>3. PlanOf(t).amount \in 0..Units
  BY <1>2, PlanIs
<1>4. UNCHANGED <<ret, refund, torn, faults>>
  BY DEF CallGateway
<1>5. ret' \in [Returns -> Return] /\ torn' \subseteq Returns /\ faults' \in 0..MaxFaults
      /\ gw \in [Returns -> Paid] /\ lock \in Staff \cup Workers \cup {Nobody}
  BY <1>4 DEF MoneyInv
<1>6. \/ /\ lock' = lock
         /\ \E st \in {"pending", "succeeded"} :
              /\ task' = [task EXCEPT ![s] = [at |-> "answered", t |-> t, reply |-> st]]
              /\ gw' = gw \/ gw' = [gw EXCEPT ![t] = [st |-> st, amount |-> PlanOf(t).amount]]
      \/ gw' = gw /\ Fail(s)
  BY <1>1 DEF CallGateway
<1>7. ASSUME NEW st \in {"pending", "succeeded"}, lock' = lock,
             task' = [task EXCEPT ![s] = [at |-> "answered", t |-> t, reply |-> st]],
             gw' = gw \/ gw' = [gw EXCEPT ![t] = [st |-> st, amount |-> PlanOf(t).amount]]
      PROVE  MoneyInv'
  <2>1. [st |-> st, amount |-> PlanOf(t).amount] \in Paid
    BY <1>3 DEF Paid, Outcome
  <2>2. gw' \in [Returns -> Paid]
    BY <1>2, <1>5, <1>7, <2>1
  <2>3. PICK v : v = [at |-> "answered", t |-> t, reply |-> st]
    OBVIOUS
  <2>4. v \in Task /\ v.t = t /\ task' = [task EXCEPT ![s] = v]
    BY <1>2, <1>7, <2>3 DEF Task
  <2>5. QED
    BY <1>2, <1>4, <1>5, <1>7, <2>2, <2>4, StaffMoney
<1>8. ASSUME gw' = gw, Fail(s) PROVE MoneyInv'
  <2>1. PICK v : v = [at |-> "failed", t |-> t]
    OBVIOUS
  <2>2. v \in Task /\ v.at = "failed" /\ task' = [task EXCEPT ![s] = v] /\ lock' = Nobody
    BY <1>1, <1>2, <1>8, <2>1 DEF Task, Fail
  <2>3. QED
    BY <1>4, <1>5, <1>8, <2>2, StaffMoney
<1>9. QED
  BY <1>6, <1>7, <1>8

LEMMA BookMoney ==
  ASSUME IInv, MoneyInv, NEW s \in Staff, Book(s) PROVE MoneyInv'
<1>1. PICK t : t = task[s].t
  OBVIOUS
<1>2. t \in Returns /\ task[s].at = "answered" /\ PlanOf(t).amount \in 1..(Units - Refunded)
  BY <1>1, TaskReturn DEF Book, MoneyInv, Planning
<1>3. UNCHANGED <<ret, gw, faults>> /\ lock' = Nobody
  BY DEF Book, Fail
<1>4. CASE refund[t].st # "none"
  <2>1. Fail(s) /\ torn' = torn \cup {t} /\ refund' = refund
    BY <1>1, <1>4 DEF Book
  <2>2. PICK v : v = [at |-> "failed", t |-> t]
    OBVIOUS
  <2>3. v \in Task /\ v.at = "failed" /\ task' = [task EXCEPT ![s] = v]
    BY <1>1, <1>2, <2>1, <2>2 DEF Task, Fail
  <2>4. ret' \in [Returns -> Return] /\ gw' \in [Returns -> Paid] /\ torn' \subseteq Returns /\ faults' \in 0..MaxFaults
    BY <1>2, <1>3, <2>1 DEF MoneyInv
  <2>5. QED
    BY <1>3, <2>1, <2>3, <2>4, StaffMoney
<1>5. CASE refund[t].st = "none"
  <2>1. PICK p : p = PlanOf(t)
    OBVIOUS
  <2>2. PICK reply : reply = task[s].reply
    OBVIOUS
  <2>3. PICK r : r = Booked(p, reply, TRUE)
    OBVIOUS
  <2>4. /\ refund' = [refund EXCEPT ![t] = r] /\ task' = [task EXCEPT ![s] = [at |-> "paid", t |-> t]] /\ torn' = torn
    BY <1>1, <1>5, <2>1, <2>2, <2>3 DEF Book
  <2>5. reply \in Outcome
    BY <1>2, <2>2 DEF IInv, Typed, Task, Outcome
  <2>6. p.amount \in 1..(Units - Refunded) /\ p.amount \in 0..Units /\ p.units \in 0..Units
    BY <1>2, <2>1, PlanIs
  <2>7. r \in Refund /\ Share(r) <= p.amount
    BY <2>3, <2>5, <2>6, BookedIs
  <2>8. Share(r) <= Units - Refunded
    <3>1. Share(r) \in Int /\ Refunded \in Nat
      BY <2>7, UnitsNat, RefundedIs DEF Share, Refund
    <3>2. QED
      BY <2>6, <2>7, <3>1, UnitsNat
  <2>9. ASSUME NEW u \in Staff PROVE ~Planning(u)'
    <3>1. task \in [Staff -> Task] /\ lock = s /\ s # Nobody
      BY <1>2, FulfilmentAssumption DEF IInv, Typed, LocksOK, LockHeld, FulfilmentAssumption
    <3>2. CASE u = s
      <4>1. task'[u] = [at |-> "paid", t |-> t]
        BY <2>4, <3>1, <3>2
      <4>2. QED
        BY <4>1 DEF Planning
    <3>3. CASE u # s
      <4>1. task'[u] = task[u]
        BY <2>4, <3>1, <3>3
      <4>2. task[u].at \notin {"locked", "answered"}
        BY <3>1, <3>3 DEF IInv, LocksOK, LockHeld
      <4>3. QED
        BY <4>1, <4>2 DEF Planning
    <3>4. QED
      BY <3>2, <3>3
  <2>10. lock' \in Staff \cup Workers \cup {Nobody} /\ torn' \subseteq Returns
    BY <1>3, <2>4 DEF MoneyInv
  <2>11. QED
    BY <1>2, <1>3, <2>4, <2>7, <2>8, <2>9, <2>10, MoneyBooked
<1>6. QED
  BY <1>4, <1>5

LEMMA FaultMoney ==
  ASSUME IInv, MoneyInv, NEW s \in Staff, DieStaff(s) \/ RollBack(s) PROVE MoneyInv'
<1>1. UNCHANGED <<ret, gw, refund>> /\ faults' = faults + 1 /\ faults < MaxFaults
  BY DEF DieStaff, RollBack
<1>2. ret' \in [Returns -> Return] /\ gw' \in [Returns -> Paid] /\ faults' \in 0..MaxFaults
  BY <1>1, FulfilmentAssumption DEF MoneyInv, FulfilmentAssumption
<1>3. torn' \subseteq Returns
  <2>1. task[s].at = "answered" => task[s].t \in Returns
    BY TaskReturn
  <2>2. QED
    BY <2>1 DEF DieStaff, RollBack, Tears, MoneyInv
<1>4. lock' \in Staff \cup Workers \cup {Nobody}
  BY DEF DieStaff, RollBack, Unlocks, Fail, MoneyInv
<1>5. PICK v \in Task : task' = [task EXCEPT ![s] = v] /\ v.at \in {"idle", "failed"}
  <2>1. Idle \in Task /\ Idle.at = "idle"
    BY DEF Idle, Task
  <2>2. CASE DieStaff(s)
    BY <2>1, <2>2 DEF DieStaff
  <2>3. CASE RollBack(s)
    <3>1. task[s].t \in Returns
      BY <2>3, TaskReturn DEF RollBack
    <3>2. [at |-> "failed", t |-> task[s].t] \in Task
      BY <3>1 DEF Task
    <3>3. QED
      BY <2>3, <3>2 DEF RollBack, Fail
  <2>4. QED
    BY <2>2, <2>3
<1>6. QED
  BY <1>1, <1>2, <1>3, <1>4, <1>5, StaffMoney

(* A return is asked for: who plans works on another, which is approved.        *)
LEMMA AskMoney ==
  ASSUME IInv, ReturnInv, MoneyInv, NEW t \in Returns, Ask(t) PROVE MoneyInv'
<1>1. UNCHANGED <<lock, task, faults, gw, refund, torn>> /\ ret[t].st = "none"
  BY DEF Ask, money
<1>2. PICK q \in 1..(Units - UnitsBack) : ret' = [ret EXCEPT ![t] = [st |-> "requested", qty |-> q]]
  BY DEF Ask
<1>3. UnitsBack \in Nat
  BY SumNat DEF UnitsBack
<1>4. q \in 0..Units
  BY <1>2, <1>3, UnitsNat
<1>5. [st |-> "requested", qty |-> q] \in Return
  BY <1>4 DEF Return
<1>6. ret' \in [Returns -> Return] /\ \A u \in Returns \ {t} : ret'[u] = ret[u]
  BY <1>2, <1>5 DEF MoneyInv
<1>7. ASSUME NEW s \in Staff, Planning(s)'
      PROVE  ret'[task'[s].t].qty = ret[task'[s].t].qty /\ PlanOf(task'[s].t).amount \in 1..(Units - Refunded)
  <2>1. Planning(s) /\ task' = task
    BY <1>1, <1>7 DEF Planning
  <2>2. task[s].t \in Returns
    BY <2>1, TaskReturn DEF Planning
  <2>3. ret[task[s].t].st = "approved"
    BY <2>1, <2>2 DEF ReturnInv, WorkInv, WorksOn, Planning
  <2>4. task[s].t # t
    BY <1>1, <2>3
  <2>5. PlanOf(task[s].t).amount \in 1..(Units - Refunded)
    BY <2>1 DEF MoneyInv
  <2>6. QED
    BY <1>6, <2>1, <2>2, <2>4, <2>5
<1>8. lock' \in Staff \cup Workers \cup {Nobody} /\ faults' \in 0..MaxFaults /\ torn' \subseteq Returns
      /\ gw' \in [Returns -> Paid]
  BY <1>1 DEF MoneyInv
<1>9. QED
  BY <1>1, <1>6, <1>7, <1>8, MoneyQuiet

LEMMA SettleMoney ==
  ASSUME MoneyInv, NEW t \in Returns, Settle(t) PROVE MoneyInv'
<1>1. UNCHANGED <<lock, task, ret, faults, refund, torn>>
  BY DEF Settle
<1>2. PICK st \in {"succeeded", "failed"} : gw' = [gw EXCEPT ![t].st = st]
  BY DEF Settle
<1>3. gw \in [Returns -> Paid] /\ gw[t] \in Paid
  BY DEF MoneyInv
<1>4. [gw[t] EXCEPT !.st = st] \in Paid
  BY <1>3 DEF Paid, Outcome
<1>5. gw' \in [Returns -> Paid]
  BY <1>2, <1>3, <1>4
<1>6. \A s \in Staff : Planning(s)' => PlanOf(task'[s].t).amount \in 1..(Units - Refunded)
  BY <1>1 DEF Planning, MoneyInv
<1>7. lock' \in Staff \cup Workers \cup {Nobody} /\ faults' \in 0..MaxFaults /\ torn' \subseteq Returns
      /\ ret' \in [Returns -> Return]
  BY <1>1 DEF MoneyInv
<1>8. QED
  BY <1>1, <1>5, <1>6, <1>7, MoneyQuiet

(* A delivery books when the order is free, so nobody has a plan.               *)
LEMMA DeliveryMoney ==
  ASSUME IInv, MoneyInv, NEW t \in Returns, RecordRefund(t) \/ SettleRefund(t) PROVE MoneyInv'
<1>1. UNCHANGED <<lock, task, ret, faults, gw, torn>> /\ lock = Nobody
  BY DEF RecordRefund, SettleRefund, OrderFree
<1>2. \A s \in Staff : ~Planning(s)'
  BY <1>1, FulfilmentAssumption DEF IInv, LocksOK, LockHeld, Planning, FulfilmentAssumption
<1>3. gw[t] \in Paid /\ refund[t] \in Refund /\ Refunded \in Nat
  BY RefundedIs DEF MoneyInv
<1>4. PICK r \in Refund : /\ refund' = [refund EXCEPT ![t] = r]
                          /\ Share(r) <= Share(refund[t]) \/ Share(r) <= Units - Refunded
  <2>1. CASE RecordRefund(t)
    <3>1. PICK p : p = [amount |-> gw[t].amount, units |-> 0]
      OBVIOUS
    <3>2. PICK st : st = gw[t].st
      OBVIOUS
    <3>3. PICK r : r = Booked(p, st, FALSE)
      OBVIOUS
    <3>4. refund' = [refund EXCEPT ![t] = r] /\ p.amount <= Units - Refunded
      BY <2>1, <3>1, <3>2, <3>3 DEF RecordRefund, Fits
    <3>5. p.amount \in 0..Units /\ p.units \in 0..Units /\ st \in Outcome
      BY <1>3, <3>1, <3>2, UnitsNat DEF Paid
    <3>6. r \in Refund /\ Share(r) <= p.amount
      BY <3>3, <3>5, BookedIs
    <3>7. Share(r) <= Units - Refunded
      <4>1. Share(r) \in Int
        BY <3>6, UnitsNat DEF Share, Refund
      <4>2. QED
        BY <1>3, <3>4, <3>5, <3>6, <4>1, UnitsNat
    <3>8. QED
      BY <3>4, <3>6, <3>7
  <2>2. CASE SettleRefund(t)
    <3>1. PICK r : r = [refund[t] EXCEPT !.st = gw[t].st]
      OBVIOUS
    <3>2. refund' = [refund EXCEPT ![t] = r] /\ refund[t].st = "pending"
      BY <2>2, <3>1 DEF SettleRefund
    <3>3. r \in Refund /\ r.amount = refund[t].amount
      BY <1>3, <3>1 DEF Paid, Refund
    <3>4. Share(r) \in {0, refund[t].amount} /\ Share(refund[t]) = refund[t].amount /\ refund[t].amount \in 0..Units
      BY <1>3, <3>2, <3>3 DEF Share, Refund
    <3>5. Share(r) <= Share(refund[t])
      BY <3>4, UnitsNat
    <3>6. QED
      BY <3>2, <3>3, <3>5
  <2>3. QED
    BY <2>1, <2>2
<1>5. lock' \in Staff \cup Workers \cup {Nobody} /\ torn' \subseteq Returns
  BY <1>1 DEF MoneyInv
<1>6. QED
  BY <1>1, <1>2, <1>4, <1>5, MoneyBooked

LEMMA NextMoney == IInv /\ ReturnInv /\ MoneyInv /\ [Next]_vars => MoneyInv'
<1> SUFFICES ASSUME IInv, ReturnInv, MoneyInv, [Next]_vars PROVE MoneyInv'
  OBVIOUS
<1>1. ASSUME NEW s \in Staff, StaffStep(s) PROVE MoneyInv'
  <2>1. CASE \E t \in Returns : Reject(s, t) \/ Claim(s, t)
    BY <2>1, ReturnStepMoney
  <2>2. CASE Revert(s) \/ Finalise(s)
    <3>1. task[s].t \in Returns
      BY <2>2, TaskReturn DEF Revert, Finalise
    <3>2. QED
      BY <2>2, <3>1, ReturnStepMoney
  <2>3. QED
    BY <1>1, <2>1, <2>2, MovesMoney, LockMoney, CallMoney, BookMoney, FaultMoney DEF StaffStep
<1>2. ASSUME NEW t \in Returns, Ask(t) \/ Settle(t) \/ RecordRefund(t) \/ SettleRefund(t) PROVE MoneyInv'
  BY <1>2, AskMoney, SettleMoney, DeliveryMoney
<1>3. ASSUME NEW w \in Workers, WorkerStep(w) PROVE MoneyInv'
  <2>1. UNCHANGED <<task, ret>> /\ UNCHANGED money /\ lock' \in {w, Nobody, lock}
    BY <1>3 DEF WorkerStep, BeginDispute, HandleDispute, DieWorker, Unlocks
  <2>2. faults' = faults \/ (faults < MaxFaults /\ faults' = faults + 1)
    BY <1>3 DEF WorkerStep, BeginDispute, HandleDispute, DieWorker
  <2>3. faults' \in 0..MaxFaults /\ lock' \in Staff \cup Workers \cup {Nobody}
    BY <2>1, <2>2, FulfilmentAssumption DEF MoneyInv, FulfilmentAssumption
  <2>4. QED
    BY <2>1, <2>3, MoneyAlone
<1>4. ASSUME NEW d \in Disputes, Unfreeze(d) \/ Open(d) \/ Touch(d) \/ Close(d) PROVE MoneyInv'
  <2>1. UNCHANGED <<task, ret, lock, faults>> /\ UNCHANGED money
    BY <1>4 DEF Unfreeze, Open, Touch, Close, Emit
  <2>2. QED
    BY <2>1, MoneyAlone DEF MoneyInv
<1>5. CASE UNCHANGED vars
  BY <1>5, MoneyAlone DEF vars, MoneyInv
<1>6. QED
  BY <1>1, <1>2, <1>3, <1>4, <1>5 DEF Next

(* Every variable keeps its type, and the order is never refunded more than it *)
(* cost: create() checks what is left under the lock it books under, and a      *)
(* delivery records a refund only when it still fits (reconcileGatewayRefund).  *)
THEOREM NeverRefundedPastTotal == Spec => []TypeOK
<1>1. Init => ReturnInv /\ MoneyInv
  BY InitReturnInv, InitMoney
<1>2. IInv /\ IInv' /\ ReturnInv /\ MoneyInv /\ [Next]_vars => ReturnInv' /\ MoneyInv'
  BY NextReturnInv, NextMoney
<1>3. IInv /\ MoneyInv => TypeOK
  BY DEF IInv, Typed, MoneyInv, TypeOK, Types
<1>4. QED
  BY <1>1, <1>2, <1>3, RowLockProtects, PTL DEF Spec

=============================================================================
