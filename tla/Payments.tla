------------------------------- MODULE Payments -------------------------------
(***************************************************************************)
(* The payments of one order: the payment-intent endpoint, the manual       *)
(* payment record, the stale-order sweeper and the Stripe webhook handlers  *)
(* (PaymentsService, PaymentWebhookService, StaleOrderSweeperService).      *)
(*                                                                          *)
(* Stripe delivers every event at least once, in any order and possibly to  *)
(* several workers at once, until a delivery is answered with 200.  Only    *)
(* OrderService.transition locks the order; every other read and write of   *)
(* a handler is a statement of its own, and a step of its own here.         *)
(***************************************************************************)
EXTENDS Integers, FiniteSets

CONSTANTS
  Intents,     \* Stripe PaymentIntents that may be minted for the order
  Workers,     \* concurrent deliveries of webhook events
  Clients,     \* requests to the payment-intent endpoint
  MaxCrashes,  \* how many deliveries die on the way
  Nobody, Manual

ASSUME PaymentsAssumption ==
  /\ Nobody \notin Intents /\ Manual \notin Intents /\ Nobody # Manual
  /\ MaxCrashes \in Nat

VARIABLES
  status,      \* orders.status
  payer,       \* history: what drove the order to paid
  rows,        \* [Intents -> Row]  payments.status by provider_payment_id
  manualRow,   \* the payments row of a manual record
  alerts,      \* the intents reported for manual reconciliation
  log,         \* [Event -> ...]  payment_events, processed_at set or not
  jobs,        \* [Workers -> Job]  the deliveries being handled
  clients,     \* [Clients -> Client]  the payment-intent requests
  intent,      \* Stripe: [Intents -> ...]
  key,         \* Stripe: the intent stored under idempotency key = order id
  offered,     \* the intents whose client secret a customer was given
  sent,        \* Stripe: the events it emitted
  crashes

server  == <<status, payer, rows, manualRow, alerts>>
stripe  == <<intent, key, offered, sent>>
vars    == <<server, log, jobs, clients, stripe, crashes>>

-----------------------------------------------------------------------------
Types == {"failed", "processing", "succeeded"}
Event == [pi: Intents, type: Types]
Ev(i, t) == [pi |-> i, type |-> t]

Statuses == {"pending_payment", "paid", "cancelled"}
Row      == {"none", "pending", "processing", "succeeded", "failed"}

Idle == [at |-> "idle"]
Job  == {Idle} \cup [at: {"claimed", "read", "recorded", "finished"}, ev: Event,
                    seen: Statuses \cup {"unread"}]

Client == {Idle, [at |-> "cleared"], [at |-> "answered"]} \cup [at: {"minted"}, pi: Intents, saw: {"open", "clearing", "captured"}]

(* hasInFlightPayment *)
InFlight == \/ \E i \in Intents : rows[i] \in {"processing", "succeeded"}
            \/ manualRow = "succeeded"

(* Mutant: Stripe's word is stored as it is. *)
StripeStatus(s) == s

(* mapIntentStatus *)
MapIntentStatus(s) == CASE s = "captured" -> "succeeded"
                        [] s = "clearing" -> "processing"
                        [] OTHER          -> "pending"

-----------------------------------------------------------------------------
(* Stripe and the customer. *)

(* The customer confirms: the card is charged, a SEPA debit starts clearing,*)
(* or the attempt is declined and the intent stays open.  Stripe's events   *)
(* of one type and intent are one event here, so that a second decline      *)
(* sends nothing.                                                           *)
Confirm(i) ==
  /\ intent[i] = "open" /\ i \in offered
  /\ \E outcome \in {"captured", "clearing", "open"} :
       LET t == CASE outcome = "captured" -> "succeeded"
                  [] outcome = "clearing" -> "processing"
                  [] OTHER                -> "failed"
       IN /\ Ev(i, t) \notin sent
          /\ intent' = [intent EXCEPT ![i] = outcome]
          /\ sent' = sent \cup {Ev(i, t)}
  /\ UNCHANGED <<server, log, jobs, clients, key, offered, crashes>>

(* A debit that was clearing arrives or bounces. *)
Clear(i) ==
  /\ intent[i] = "clearing"
  /\ \/ /\ intent' = [intent EXCEPT ![i] = "captured"]
        /\ sent' = sent \cup {Ev(i, "succeeded")}
     \/ /\ Ev(i, "failed") \notin sent
        /\ intent' = [intent EXCEPT ![i] = "open"]
        /\ sent' = sent \cup {Ev(i, "failed")}
  /\ UNCHANGED <<server, log, jobs, clients, key, offered, crashes>>

(* An idempotency key lives about a day. *)
KeyExpires ==
  /\ key # Nobody
  /\ key' = Nobody
  /\ UNCHANGED <<server, log, jobs, clients, intent, offered, sent, crashes>>

-----------------------------------------------------------------------------
(* createPaymentIntentForCart, the order exists. *)

(* The order is pending and nothing clears for it already. *)
CheckPayable(c) ==
  /\ clients[c] = Idle
  /\ status = "pending_payment" /\ ~InFlight
  /\ clients' = [clients EXCEPT ![c] = [at |-> "cleared"]]
  /\ UNCHANGED <<server, log, jobs, stripe, crashes>>

(* Under a live key Stripe replays its first answer, or a lookup shows the  *)
(* intent as it is.                                                         *)
Mint(c) ==
  /\ clients[c].at = "cleared"
  /\ \E i \in Intents :
       \/ /\ key = i
          /\ \E s \in {"open", intent[i]} :
               clients' = [clients EXCEPT ![c] = [at |-> "minted", pi |-> i, saw |-> s]]
          /\ UNCHANGED stripe
       \/ /\ key = Nobody /\ intent[i] = "none"
          /\ key' = i /\ intent' = [intent EXCEPT ![i] = "open"]
          /\ clients' = [clients EXCEPT ![c] = [at |-> "minted", pi |-> i, saw |-> "open"]]
          /\ UNCHANGED <<offered, sent>>
  /\ UNCHANGED <<server, log, jobs, crashes>>

(* upsertByProviderPaymentId overwrites the status of an existing row, and  *)
(* the client secret goes to the customer.                                  *)
StoreIntent(c) ==
  /\ clients[c].at = "minted"
  /\ rows' = [rows EXCEPT ![clients[c].pi] = MapIntentStatus(clients[c].saw)]
  /\ clients' = [clients EXCEPT ![c] = [at |-> "answered"]]
  /\ offered' = offered \cup {clients[c].pi}
  /\ UNCHANGED <<status, payer, manualRow, alerts, log, jobs, intent, key, sent, crashes>>

-----------------------------------------------------------------------------
(* Admin and sweeper: transition() with its guards, under the order lock. *)

(* recordManualPayment: the transition first, the payments row after it. *)
PayManually ==
  /\ status = "pending_payment" /\ ~InFlight
  /\ status' = "paid" /\ payer' = Manual /\ manualRow' = "due"
  /\ UNCHANGED <<rows, alerts, log, jobs, clients, stripe, crashes>>

(* The insert may fail: then it is logged and the order stays paid. *)
RecordManual ==
  /\ manualRow = "due"
  /\ manualRow' \in {"succeeded", "lost"}
  /\ UNCHANGED <<status, payer, rows, alerts, log, jobs, clients, stripe, crashes>>

Sweep ==
  /\ status = "pending_payment" /\ ~InFlight
  /\ status' = "cancelled"
  /\ UNCHANGED <<payer, rows, manualRow, alerts, log, jobs, clients, stripe, crashes>>

AdminCancel ==
  /\ status \in {"pending_payment", "paid"}
  /\ status' = "cancelled"
  /\ UNCHANGED <<payer, rows, manualRow, alerts, log, jobs, clients, stripe, crashes>>

-----------------------------------------------------------------------------
(* processWebhook: claim, dispatch, mark processed. *)

Goto(w, at)        == jobs' = [jobs EXCEPT ![w].at = at]
Handling(w, at, T) == jobs[w].at = at /\ jobs[w].ev.type \in T

(* Mutant: a claim that conflicts is a duplicate, processed or not. *)
Unclaimed(e) == log[e] = "unseen"

(* claimEvent: only a processed event is a duplicate. *)
Unprocessed(e) == log[e] # "done"

(* Mutant: a debit that is clearing pays the order. *)
ConfirmsEarly(t) == t # "failed"

(* The event types that drive the order to paid. *)
Confirms(t) == t = "succeeded"

(* A processed event is answered 200 without effect; an unprocessed claim   *)
(* is dispatched again, also next to a delivery that is still running.      *)
Claim(w, e) ==
  /\ jobs[w] = Idle /\ e \in sent /\ Unprocessed(e)
  /\ log' = [log EXCEPT ![e] = "claimed"]
  /\ jobs' = [jobs EXCEPT ![w] = [at |-> "claimed", ev |-> e, seen |-> "unread"]]
  /\ UNCHANGED <<server, clients, stripe, crashes>>

(* findById, without a lock.  A processing event for an order that is no    *)
(* longer pending is dropped here.                                          *)
ReadOrder(w) ==
  /\ Handling(w, "claimed", {"succeeded", "processing"})
  /\ jobs' = [jobs EXCEPT ![w].seen = status,
                         ![w].at   = IF jobs[w].ev.type = "processing" /\ status # "pending_payment"
                                     THEN "finished" ELSE "read"]
  /\ UNCHANGED <<server, log, clients, stripe, crashes>>

(* The upsert of onPaymentProcessing, the last thing it does, or of         *)
(* onPaymentSucceeded, which goes on.                                       *)
RecordPayment(w) ==
  /\ Handling(w, "read", {"succeeded", "processing"})
  /\ rows' = [rows EXCEPT ![jobs[w].ev.pi] = jobs[w].ev.type]
  /\ Goto(w, IF Confirms(jobs[w].ev.type) THEN "recorded" ELSE "finished")
  /\ UNCHANGED <<status, payer, manualRow, alerts, log, clients, stripe, crashes>>

(* onPaymentFailed *)
RecordFailure(w) ==
  /\ Handling(w, "claimed", {"failed"})
  /\ rows' = [rows EXCEPT ![jobs[w].ev.pi] = IF @ = "none" THEN "none" ELSE "failed"]
  /\ Goto(w, "finished")
  /\ UNCHANGED <<status, payer, manualRow, alerts, log, clients, stripe, crashes>>

(* Read as pending: the transition, which throws when the order has moved   *)
(* on, so that the event stays unprocessed and Stripe sends it again.       *)
MarkPaid(w) ==
  /\ jobs[w].at = "recorded" /\ jobs[w].seen = "pending_payment"
  /\ \/ /\ status = "pending_payment"
        /\ status' = "paid" /\ payer' = jobs[w].ev.pi
        /\ Goto(w, "finished")
     \/ /\ status # "pending_payment"
        /\ jobs' = [jobs EXCEPT ![w] = Idle]
        /\ UNCHANGED <<status, payer>>
  /\ UNCHANGED <<rows, manualRow, alerts, log, clients, stripe, crashes>>

(* hasSucceededPaymentExcept *)
PaidByAnother(i) ==
  \/ manualRow = "succeeded"
  \/ \E j \in Intents \ {i} : rows[j] = "succeeded"

(* Mutant: a capture on a cancelled order counts as a replay. *)
ReportNothing(w) == FALSE

(* Read as cancelled or already paid: report it for reconciliation. *)
MustReport(w) == jobs[w].seen = "cancelled" \/ PaidByAnother(jobs[w].ev.pi)

Reconcile(w) ==
  /\ jobs[w].at = "recorded" /\ jobs[w].seen # "pending_payment"
  /\ alerts' = IF MustReport(w) THEN alerts \cup {jobs[w].ev.pi} ELSE alerts
  /\ Goto(w, "finished")
  /\ UNCHANGED <<status, payer, rows, manualRow, log, clients, stripe, crashes>>

MarkProcessed(w) ==
  /\ jobs[w].at = "finished"
  /\ log' = [log EXCEPT ![jobs[w].ev] = "done"]
  /\ jobs' = [jobs EXCEPT ![w] = Idle]
  /\ UNCHANGED <<server, clients, stripe, crashes>>

(* The worker dies, or a statement fails. *)
Crash(w) ==
  /\ jobs[w] # Idle /\ crashes < MaxCrashes
  /\ jobs' = [jobs EXCEPT ![w] = Idle]
  /\ crashes' = crashes + 1
  /\ UNCHANGED <<server, log, clients, stripe>>

-----------------------------------------------------------------------------
Init ==
  /\ status = "pending_payment" /\ payer = Nobody
  /\ rows = [i \in Intents |-> "none"] /\ manualRow = "none" /\ alerts = {}
  /\ log = [e \in Event |-> "unseen"]
  /\ jobs = [w \in Workers |-> Idle] /\ clients = [c \in Clients |-> Idle]
  /\ intent = [i \in Intents |-> "none"] /\ key = Nobody /\ offered = {} /\ sent = {}
  /\ crashes = 0

Handle(w) ==
  \/ ReadOrder(w) \/ RecordPayment(w) \/ RecordFailure(w) \/ MarkPaid(w) \/ Reconcile(w)
  \/ MarkProcessed(w)

Next ==
  \/ \E i \in Intents : Confirm(i) \/ Clear(i)
  \/ KeyExpires
  \/ \E c \in Clients : CheckPayable(c) \/ Mint(c) \/ StoreIntent(c)
  \/ PayManually \/ RecordManual \/ Sweep \/ AdminCancel
  \/ \E w \in Workers : Handle(w) \/ Crash(w) \/ \E e \in Event : Claim(w, e)

Spec == Init /\ [][Next]_vars

(* Stripe sends an event again until it is answered 200; a statement that   *)
(* was issued returns.                                                      *)
Fairness ==
  /\ \A e \in Event : WF_vars(\E w \in Workers : Claim(w, e))
  /\ \A w \in Workers : WF_vars(Handle(w))

FairSpec == Spec /\ Fairness
-----------------------------------------------------------------------------
(* Properties. *)

TypeOK ==
  /\ status \in Statuses /\ payer \in Intents \cup {Nobody, Manual}
  /\ rows \in [Intents -> Row] /\ manualRow \in {"none", "due", "succeeded", "lost"}
  /\ alerts \subseteq Intents
  /\ log \in [Event -> {"unseen", "claimed", "done"}]
  /\ jobs \in [Workers -> Job] /\ clients \in [Clients -> Client]
  /\ intent \in [Intents -> {"none", "open", "clearing", "captured"}]
  /\ key \in Intents \cup {Nobody} /\ offered \subseteq Intents /\ sent \subseteq Event /\ crashes \in Nat

(* Once a succeeded event is marked processed its capture has had its       *)
(* effect: the order is not left pending_payment, and a capture that landed *)
(* on an order cancelled before any payment was reported for a refund,      *)
(* whatever else ran between the unlocked read and the transition.          *)
CaptureNotForgotten ==
  \A i \in Intents :
    log[Ev(i, "succeeded")] = "done" =>
      /\ status # "pending_payment"
      /\ payer = Nobody => i \in alerts

(* The webhook alone decides on "paid" (never the client): an order an      *)
(* intent paid for was captured at Stripe.                                  *)
PaidIsCaptured == payer \in Intents => intent[payer] = "captured"

(* Each captured payment is settled in the end, through crashes, duplicate  *)
(* deliveries and transitions that throw.                                   *)
CapturesSettle ==
  \A i \in Intents : intent[i] = "captured" ~> log[Ev(i, "succeeded")] = "done"

=============================================================================
