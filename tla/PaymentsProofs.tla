---------------------------- MODULE PaymentsProofs ----------------------------
(***************************************************************************)
(* Payments.tla for every number of intents, deliveries and requests: every *)
(* capture Stripe told us of has its effect, and paid means captured.       *)
(*                                                                          *)
(* Only transition() reads and writes the order under a lock.  What the     *)
(* handlers read before it may be stale, but two things never change back:  *)
(* an order that has left pending_payment does not return to it, and who    *)
(* paid stays who paid (Settled).  A handler that saw an order as no longer *)
(* pending may therefore rely on it for as long as it likes (JobsInv).      *)
(***************************************************************************)
EXTENDS Payments, TLAPS

(* A capture is final, and Stripe sends nothing of it before; the key stores *)
(* an intent that exists.                                                    *)
StripeInv ==
  /\ \A ev \in sent : ev.type = "succeeded" => intent[ev.pi] = "captured"
  /\ key \in Intents => intent[key] # "none"

(* The order is settled for intent i. *)
Settled(i) == status # "pending_payment" /\ (payer = Nobody => i \in alerts)

OrderInv ==
  /\ status = "paid" => payer # Nobody
  /\ PaidIsCaptured

(* A delivery carries an event Stripe sent, and what it saw of the order      *)
(* other than pending still holds; who is done with a capture has settled it. *)
JobOK(j) ==
  /\ j.ev \in sent
  /\ j.at = "recorded" => j.ev.type = "succeeded"
  /\ j.seen \in {"paid", "cancelled"} => status # "pending_payment"
  /\ j.seen = "paid" => payer # Nobody
  /\ j.at \in {"read", "recorded"} => j.seen # "unread"
  /\ j.at = "finished" /\ j.ev.type = "succeeded" => Settled(j.ev.pi)

JobsInv == \A w \in Workers : jobs[w].at # "idle" => JobOK(jobs[w])

IInv == TypeOK /\ StripeInv /\ OrderInv /\ JobsInv /\ CaptureNotForgotten

-----------------------------------------------------------------------------
LEMMA EventOf ==
  ASSUME NEW i \in Intents, NEW t \in Types
  PROVE  Ev(i, t) \in Event /\ Ev(i, t).pi = i /\ Ev(i, t).type = t
BY DEF Ev, Event

LEMMA InitIInv == Init => IInv
<1> SUFFICES ASSUME Init PROVE IInv
  OBVIOUS
<1>1. TypeOK
  BY PaymentsAssumption DEF PaymentsAssumption, Init, TypeOK, Statuses, Row, Job, Client, Idle
<1>2. StripeInv /\ OrderInv /\ JobsInv
  BY PaymentsAssumption DEF PaymentsAssumption, Init, StripeInv, OrderInv, PaidIsCaptured, JobsInv, Idle
<1>3. CaptureNotForgotten
  BY EventOf DEF Init, CaptureNotForgotten, Types
<1>4. QED
  BY <1>1, <1>2, <1>3 DEF IInv

-----------------------------------------------------------------------------
(* Stripe's side: the server has not moved. *)
LEMMA StripeMoves ==
  ASSUME IInv, UNCHANGED <<server, log, jobs, crashes>>,
         clients' \in [Clients -> Client], key' \in Intents \cup {Nobody}, offered' \subseteq Intents,
         intent' \in [Intents -> {"none", "open", "clearing", "captured"}],
         \A i \in Intents : intent[i] = "captured" => intent'[i] = "captured",
         sent \subseteq sent', sent' \subseteq Event, StripeInv'
  PROVE  IInv'
<1>1. TypeOK' /\ OrderInv'
  BY DEF IInv, TypeOK, OrderInv, PaidIsCaptured, server
<1>2. JobsInv' /\ CaptureNotForgotten'
  BY DEF IInv, JobsInv, JobOK, Settled, CaptureNotForgotten, server
<1>3. QED
  BY <1>1, <1>2 DEF IInv

LEMMA ConfirmOK == ASSUME IInv, NEW i \in Intents, Confirm(i) \/ Clear(i) PROVE IInv'
<1>1. intent[i] \in {"open", "clearing"} /\ intent \in [Intents -> {"none", "open", "clearing", "captured"}]
  BY DEF Confirm, Clear, IInv, TypeOK
<1>2. \E outcome \in {"captured", "clearing", "open"}, t \in Types :
        /\ intent' = [intent EXCEPT ![i] = outcome] /\ sent' = sent \cup {Ev(i, t)}
        /\ t = "succeeded" => outcome = "captured"
  <2>1. CASE Confirm(i)
    <3>1. PICK o \in {"captured", "clearing", "open"} :
            LET t == CASE o = "captured" -> "succeeded"
                       [] o = "clearing" -> "processing"
                       [] OTHER          -> "failed"
            IN  intent' = [intent EXCEPT ![i] = o] /\ sent' = sent \cup {Ev(i, t)}
      BY <2>1 DEF Confirm
    <3>2. QED
      BY <3>1 DEF Types
  <2>2. CASE Clear(i)
    BY <2>2 DEF Clear, Types
  <2>3. QED
    BY <2>1, <2>2
<1>3. PICK outcome \in {"captured", "clearing", "open"}, t \in Types :
        /\ intent' = [intent EXCEPT ![i] = outcome] /\ sent' = sent \cup {Ev(i, t)}
        /\ t = "succeeded" => outcome = "captured"
  BY <1>2
<1>4. \A j \in Intents : intent[j] = "captured" => intent'[j] = "captured"
  BY <1>1, <1>3
<1>5. UNCHANGED <<server, log, jobs, clients, key, offered, crashes>>
  BY DEF Confirm, Clear
<1>6. sent' \subseteq Event /\ StripeInv'
  BY <1>1, <1>3, <1>4, <1>5, EventOf DEF IInv, TypeOK, StripeInv, Event
<1>7. QED
  BY <1>1, <1>3, <1>4, <1>5, <1>6, StripeMoves DEF IInv, TypeOK

LEMMA KeyExpiresOK == ASSUME IInv, KeyExpires PROVE IInv'
BY StripeMoves, PaymentsAssumption DEF PaymentsAssumption, KeyExpires, IInv, TypeOK, StripeInv

LEMMA MintOK ==
  ASSUME IInv, NEW c \in Clients, CheckPayable(c) \/ Mint(c) PROVE IInv'
<1>1. /\ clients \in [Clients -> Client] /\ intent \in [Intents -> {"none", "open", "clearing", "captured"}]
      /\ key \in Intents \cup {Nobody} /\ offered \subseteq Intents /\ sent \subseteq Event
  BY DEF IInv, TypeOK
<1>2. CASE CheckPayable(c)
  <2>1. clients' \in [Clients -> Client]
    BY <1>1, <1>2 DEF CheckPayable, Client
  <2>2. QED
    BY <1>1, <1>2, <2>1, StripeMoves DEF CheckPayable, stripe, IInv, StripeInv
<1>3. CASE Mint(c)
  <2>1. PICK i \in Intents :
          \/ /\ key = i
             /\ \E s \in {"open", intent[i]} :
                  clients' = [clients EXCEPT ![c] = [at |-> "minted", pi |-> i, saw |-> s]]
             /\ UNCHANGED stripe
          \/ /\ key = Nobody /\ intent[i] = "none"
             /\ key' = i /\ intent' = [intent EXCEPT ![i] = "open"]
             /\ clients' = [clients EXCEPT ![c] = [at |-> "minted", pi |-> i, saw |-> "open"]]
             /\ UNCHANGED <<offered, sent>>
    BY <1>3 DEF Mint
  <2>2. CASE key = i
    <3>1. intent[i] \in {"open", "clearing", "captured"} /\ UNCHANGED stripe
      BY <1>1, <2>1, <2>2, PaymentsAssumption DEF PaymentsAssumption, IInv, StripeInv
    <3>2. clients' \in [Clients -> Client]
      BY <1>1, <2>1, <2>2, <3>1, PaymentsAssumption DEF PaymentsAssumption, Client
    <3>3. QED
      BY <1>1, <1>3, <3>1, <3>2, StripeMoves DEF Mint, stripe, IInv, StripeInv
  <2>3. CASE key # i
    <3>1. /\ intent[i] = "none" /\ key' = i /\ intent' = [intent EXCEPT ![i] = "open"]
          /\ clients' = [clients EXCEPT ![c] = [at |-> "minted", pi |-> i, saw |-> "open"]]
          /\ UNCHANGED <<offered, sent>>
      BY <2>1, <2>3
    <3>2. clients' \in [Clients -> Client]
      BY <1>1, <3>1 DEF Client
    <3>3. StripeInv'
      BY <1>1, <3>1 DEF IInv, StripeInv, Event
    <3>4. QED
      BY <1>1, <1>3, <3>1, <3>2, <3>3, StripeMoves DEF Mint
  <2>4. QED
    BY <2>2, <2>3
<1>4. QED
  BY <1>2, <1>3

-----------------------------------------------------------------------------
(* The server's side: the order only moves on, and who paid stays. *)
LEMMA ServerMoves ==
  ASSUME IInv, UNCHANGED <<intent, key, sent>>, TypeOK', OrderInv',
         status # "pending_payment" => status' # "pending_payment",
         payer # Nobody => payer' # Nobody, alerts \subseteq alerts',
         \A w \in Workers : jobs'[w] = jobs[w] \/ jobs'[w].at = "idle" \/ JobOK(jobs[w])',
         \A i \in Intents : log'[Ev(i, "succeeded")] = "done" =>
                             log[Ev(i, "succeeded")] = "done" \/ Settled(i)'
  PROVE  IInv'
<1>1. StripeInv'
  BY DEF IInv, StripeInv
<1>2. \A i \in Intents : Settled(i) => Settled(i)'
  BY DEF Settled
<1>3. JobsInv'
  <2> SUFFICES ASSUME NEW w \in Workers, jobs'[w].at # "idle", jobs'[w] = jobs[w] PROVE JobOK(jobs[w])'
    BY DEF JobsInv
  <2>1. JobOK(jobs[w])
    BY DEF IInv, JobsInv
  <2>2. jobs[w].ev.pi \in Intents
    BY <2>1 DEF JobOK, IInv, TypeOK, Event
  <2>3. QED
    BY <1>2, <2>1, <2>2 DEF JobOK, Settled
<1>4. CaptureNotForgotten'
  BY <1>2 DEF IInv, CaptureNotForgotten, Settled
<1>5. QED
  BY <1>1, <1>3, <1>4 DEF IInv

LEMMA StoreIntentOK == ASSUME IInv, NEW c \in Clients, StoreIntent(c) PROVE IInv'
<1>1. clients[c] \in [at: {"minted"}, pi: Intents, saw: {"open", "clearing", "captured"}]
  BY DEF StoreIntent, IInv, TypeOK, Client, Idle
<1>2. TypeOK'
  BY <1>1 DEF StoreIntent, IInv, TypeOK, Client, MapIntentStatus, Row
<1>3. OrderInv'
  BY DEF StoreIntent, IInv, OrderInv, PaidIsCaptured
<1>4. QED
  BY <1>2, <1>3, ServerMoves DEF StoreIntent

LEMMA StaffOK == ASSUME IInv, PayManually \/ RecordManual \/ Sweep \/ AdminCancel PROVE IInv'
<1>1. TypeOK'
  BY DEF PayManually, RecordManual, Sweep, AdminCancel, stripe, IInv, TypeOK, Statuses
<1>2. OrderInv' /\ (payer # Nobody => payer' # Nobody)
  BY PaymentsAssumption
     DEF PaymentsAssumption, PayManually, RecordManual, Sweep, AdminCancel, stripe, IInv, OrderInv, PaidIsCaptured
<1>3. QED
  BY <1>1, <1>2, ServerMoves DEF PayManually, RecordManual, Sweep, AdminCancel, stripe

-----------------------------------------------------------------------------
(* The deliveries. *)
Busy == [at: {"claimed", "read", "recorded", "finished"}, ev: Event, seen: Statuses \cup {"unread"}]

(* A step of a delivery that is under way. *)
LEMMA BusyIs ==
  ASSUME IInv, NEW w \in Workers, jobs[w].at # "idle"
  PROVE  jobs[w] \in Busy /\ JobOK(jobs[w]) /\ jobs[w].ev.pi \in Intents /\ jobs[w].ev.type \in Types
BY DEF IInv, TypeOK, Job, Busy, Idle, JobsInv, Event

(* One delivery moves on to job j. *)
LEMMA JobMoves ==
  ASSUME IInv, UNCHANGED <<clients, intent, key, offered, sent, crashes>>,
         status' \in Statuses, payer' \in Intents \cup {Nobody, Manual},
         rows' \in [Intents -> Row], UNCHANGED manualRow, alerts' \subseteq Intents,
         log' \in [Event -> {"unseen", "claimed", "done"}], OrderInv',
         status # "pending_payment" => status' # "pending_payment",
         payer # Nobody => payer' # Nobody, alerts \subseteq alerts',
         NEW w \in Workers, NEW j \in Busy \cup {Idle},
         jobs' = [jobs EXCEPT ![w] = j], j # Idle => JobOK(jobs[w])',
         \A i \in Intents : log'[Ev(i, "succeeded")] = "done" =>
                             log[Ev(i, "succeeded")] = "done" \/ Settled(i)'
  PROVE  IInv'
<1>1. jobs \in [Workers -> Job] /\ j \in Job
  BY DEF IInv, TypeOK, Busy, Job
<1>2. TypeOK'
  BY <1>1 DEF IInv, TypeOK
<1>3. \A v \in Workers : jobs'[v] = jobs[v] \/ jobs'[v].at = "idle" \/ JobOK(jobs[v])'
  BY <1>1 DEF Idle
<1>4. QED
  BY <1>2, <1>3, ServerMoves

LEMMA ClaimOK == ASSUME IInv, NEW w \in Workers, NEW e \in Event, Claim(w, e) PROVE IInv'
<1> DEFINE j == [at |-> "claimed", ev |-> e, seen |-> "unread"]
<1>1. jobs' = [jobs EXCEPT ![w] = j] /\ j \in Busy /\ jobs'[w] = j
  BY DEF Claim, Busy, IInv, TypeOK
<1>2. JobOK(jobs[w])'
  BY <1>1 DEF Claim, JobOK, Settled, stripe
<1>3. log' \in [Event -> {"unseen", "claimed", "done"}]
  BY DEF Claim, IInv, TypeOK
<1>4. \A i \in Intents : log'[Ev(i, "succeeded")] = "done" => log[Ev(i, "succeeded")] = "done"
  BY EventOf DEF Claim, IInv, TypeOK
<1>5. OrderInv'
  BY DEF Claim, server, stripe, IInv, OrderInv, PaidIsCaptured
<1>6. QED
  BY <1>1, <1>2, <1>3, <1>4, <1>5, JobMoves DEF Claim, server, stripe, IInv, TypeOK

LEMMA ReadOrderOK == ASSUME IInv, NEW w \in Workers, ReadOrder(w) PROVE IInv'
<1>1. jobs[w] \in Busy /\ JobOK(jobs[w]) /\ jobs[w].at = "claimed" /\ jobs[w].ev.type \in {"succeeded", "processing"}
  BY BusyIs DEF ReadOrder, Handling
<1> DEFINE at == IF jobs[w].ev.type = "processing" /\ status # "pending_payment" THEN "finished" ELSE "read"
           j  == [at |-> at, ev |-> jobs[w].ev, seen |-> status]
<1>2. status \in Statuses /\ jobs \in [Workers -> Job]
  BY DEF IInv, TypeOK
<1>3. jobs' = [jobs EXCEPT ![w] = j] /\ j \in Busy
  BY <1>1, <1>2 DEF ReadOrder, Busy
<1>4. jobs'[w] = j
  BY <1>2, <1>3
<1>5. OrderInv' /\ UNCHANGED <<server, log, stripe>>
  BY DEF ReadOrder, server, stripe, IInv, OrderInv, PaidIsCaptured
<1>6. JobOK(j)
  BY <1>1, <1>2 DEF JobOK, IInv, OrderInv, Statuses
<1>7. JobOK(jobs[w])'
  BY <1>4, <1>5, <1>6 DEF JobOK, Settled, server, stripe
<1>8. UNCHANGED <<clients, intent, key, offered, sent, crashes, status, payer, rows, manualRow, alerts, log>>
  BY DEF ReadOrder, server, stripe
<1>9. /\ status' \in Statuses /\ payer' \in Intents \cup {Nobody, Manual} /\ rows' \in [Intents -> Row]
      /\ alerts' \subseteq Intents /\ log' \in [Event -> {"unseen", "claimed", "done"}]
  BY <1>8 DEF IInv, TypeOK
<1> HIDE DEF at, j
<1>10. QED
  BY <1>3, <1>5, <1>7, <1>8, <1>9, JobMoves

LEMMA RecordPaymentOK == ASSUME IInv, NEW w \in Workers, RecordPayment(w) PROVE IInv'
<1>1. /\ jobs[w] \in Busy /\ JobOK(jobs[w]) /\ jobs[w].at = "read"
      /\ jobs[w].ev.type \in {"succeeded", "processing"} /\ jobs[w].ev.pi \in Intents
  BY BusyIs DEF RecordPayment, Handling
<1> DEFINE j == [jobs[w] EXCEPT !.at = IF jobs[w].ev.type = "succeeded" THEN "recorded" ELSE "finished"]
<1>2. jobs' = [jobs EXCEPT ![w] = j] /\ j \in Busy
  BY <1>1 DEF RecordPayment, Goto, Confirms, Busy, IInv, TypeOK
<1>3. jobs'[w] = j
  BY <1>2 DEF IInv, TypeOK
<1>4. OrderInv' /\ UNCHANGED <<status, payer, manualRow, alerts, log, stripe>>
  BY DEF RecordPayment, stripe, IInv, OrderInv, PaidIsCaptured
<1>5. JobOK(j)
  BY <1>1 DEF JobOK, Busy
<1>6. JobOK(jobs[w])'
  BY <1>3, <1>4, <1>5 DEF JobOK, Settled, stripe
<1>7. rows' \in [Intents -> Row]
  BY <1>1 DEF RecordPayment, IInv, TypeOK, Row
<1>8. QED
  BY <1>2, <1>4, <1>6, <1>7, JobMoves DEF RecordPayment, stripe, IInv, TypeOK

LEMMA RecordFailureOK == ASSUME IInv, NEW w \in Workers, RecordFailure(w) PROVE IInv'
<1>1. /\ jobs[w] \in Busy /\ JobOK(jobs[w]) /\ jobs[w].at = "claimed"
      /\ jobs[w].ev.type = "failed" /\ jobs[w].ev.pi \in Intents
  BY BusyIs DEF RecordFailure, Handling
<1> DEFINE j == [jobs[w] EXCEPT !.at = "finished"]
<1>2. jobs' = [jobs EXCEPT ![w] = j] /\ j \in Busy
  BY <1>1 DEF RecordFailure, Goto, Busy, IInv, TypeOK
<1>3. jobs'[w] = j
  BY <1>2 DEF IInv, TypeOK
<1>4. OrderInv' /\ UNCHANGED <<status, payer, manualRow, alerts, log, stripe>>
  BY DEF RecordFailure, stripe, IInv, OrderInv, PaidIsCaptured
<1>5. JobOK(j)
  BY <1>1 DEF JobOK, Busy
<1>6. JobOK(jobs[w])'
  BY <1>3, <1>4, <1>5 DEF JobOK, Settled, stripe
<1>7. rows' \in [Intents -> Row]
  BY <1>1 DEF RecordFailure, IInv, TypeOK, Row
<1>8. QED
  BY <1>2, <1>4, <1>6, <1>7, JobMoves DEF RecordFailure, stripe, IInv, TypeOK

(* The transition drives a pending order to paid, for a capture; or throws. *)
LEMMA MarkPaidOK == ASSUME IInv, NEW w \in Workers, MarkPaid(w) PROVE IInv'
<1>1. /\ jobs[w] \in Busy /\ JobOK(jobs[w]) /\ jobs[w].at = "recorded"
      /\ jobs[w].ev \in sent /\ jobs[w].ev.type = "succeeded" /\ jobs[w].ev.pi \in Intents
  BY BusyIs DEF MarkPaid, JobOK
<1>2. UNCHANGED <<rows, manualRow, alerts, log, clients, stripe, crashes>>
  BY DEF MarkPaid
<1>3. CASE status = "pending_payment"
  <2> DEFINE j == [jobs[w] EXCEPT !.at = "finished"]
  <2>1. /\ status' = "paid" /\ payer' = jobs[w].ev.pi
        /\ jobs' = [jobs EXCEPT ![w] = j] /\ j \in Busy
    BY <1>1, <1>3 DEF MarkPaid, Goto, Busy, IInv, TypeOK
  <2>2. jobs'[w] = j
    BY <2>1 DEF IInv, TypeOK
  <2>3. payer' \in Intents /\ payer' # Nobody /\ intent'[payer'] = "captured"
    BY <1>1, <1>2, <2>1, PaymentsAssumption DEF PaymentsAssumption, stripe, IInv, StripeInv
  <2>4. OrderInv'
    BY <2>3 DEF OrderInv, PaidIsCaptured
  <2>5. JobOK(jobs[w])'
    BY <1>1, <1>2, <2>1, <2>2, <2>3 DEF JobOK, Settled, stripe, Busy
  <2>6. status' \in Statuses
    BY <2>1 DEF Statuses
  <2>7. QED
    BY <1>2, <1>3, <2>1, <2>3, <2>4, <2>5, <2>6, JobMoves DEF stripe, IInv, TypeOK
<1>4. CASE status # "pending_payment"
  <2>1. jobs' = [jobs EXCEPT ![w] = Idle] /\ UNCHANGED <<status, payer>>
    BY <1>4 DEF MarkPaid
  <2>2. OrderInv'
    BY <1>2, <2>1 DEF stripe, IInv, OrderInv, PaidIsCaptured
  <2>3. QED
    BY <1>2, <2>1, <2>2, JobMoves DEF stripe, IInv, TypeOK
<1>5. QED
  BY <1>3, <1>4

(* Seen as paid it has a payer, seen as cancelled it is reported. *)
LEMMA ReconcileOK == ASSUME IInv, NEW w \in Workers, Reconcile(w) PROVE IInv'
<1>1. /\ jobs[w] \in Busy /\ JobOK(jobs[w]) /\ jobs[w].at = "recorded"
      /\ jobs[w].seen \in {"paid", "cancelled"} /\ jobs[w].ev.pi \in Intents
  BY BusyIs DEF Reconcile, JobOK, Busy, Statuses
<1> DEFINE j == [jobs[w] EXCEPT !.at = "finished"]
<1>2. jobs' = [jobs EXCEPT ![w] = j] /\ j \in Busy
  BY <1>1 DEF Reconcile, Goto, Busy, IInv, TypeOK
<1>3. jobs'[w] = j
  BY <1>2 DEF IInv, TypeOK
<1>4. OrderInv' /\ UNCHANGED <<status, payer, rows, manualRow, log, stripe>>
  BY DEF Reconcile, stripe, IInv, OrderInv, PaidIsCaptured
<1>5. alerts \subseteq alerts' /\ alerts' \subseteq Intents
  BY <1>1 DEF Reconcile, IInv, TypeOK
<1>6. jobs[w].seen = "cancelled" => jobs[w].ev.pi \in alerts'
  BY DEF Reconcile, MustReport
<1>7. Settled(jobs[w].ev.pi)'
  <2>1. jobs'[w].ev = jobs[w].ev
    BY <1>1, <1>3 DEF Busy
  <2>2. QED
    BY <1>1, <1>4, <1>6, <2>1 DEF JobOK, Settled
<1>8. JobOK(jobs[w])'
  BY <1>1, <1>3, <1>4, <1>7 DEF JobOK, stripe, Busy
<1>9. QED
  BY <1>2, <1>4, <1>5, <1>8, JobMoves DEF Reconcile, stripe, IInv, TypeOK

(* The processed mark: the effect is there already. *)
LEMMA MarkProcessedOK == ASSUME IInv, NEW w \in Workers, MarkProcessed(w) PROVE IInv'
<1>1. /\ jobs[w] \in Busy /\ JobOK(jobs[w]) /\ jobs[w].at = "finished" /\ jobs[w].ev \in Event
  BY BusyIs DEF MarkProcessed, Busy
<1>2. log' \in [Event -> {"unseen", "claimed", "done"}]
  BY <1>1 DEF MarkProcessed, IInv, TypeOK
<1>3. OrderInv' /\ UNCHANGED <<server, stripe>>
  BY DEF MarkProcessed, server, stripe, IInv, OrderInv, PaidIsCaptured
<1>4. ASSUME NEW i \in Intents, log'[Ev(i, "succeeded")] = "done"
      PROVE  log[Ev(i, "succeeded")] = "done" \/ Settled(i)'
  <2>1. Ev(i, "succeeded") \in Event /\ Ev(i, "succeeded").pi = i /\ Ev(i, "succeeded").type = "succeeded"
    BY EventOf DEF Types
  <2>2. CASE jobs[w].ev = Ev(i, "succeeded")
    BY <1>1, <1>3, <2>1, <2>2 DEF JobOK, Settled, server
  <2>3. CASE jobs[w].ev # Ev(i, "succeeded")
    BY <1>1, <1>4, <2>1, <2>3 DEF MarkProcessed, IInv, TypeOK
  <2>4. QED
    BY <2>2, <2>3
<1>5. QED
  BY <1>2, <1>3, <1>4, JobMoves DEF MarkProcessed, server, stripe, IInv, TypeOK

LEMMA CrashOK == ASSUME IInv, NEW w \in Workers, Crash(w) PROVE IInv'
<1>1. TypeOK'
  BY PaymentsAssumption DEF PaymentsAssumption, Crash, server, stripe, IInv, TypeOK, Job
<1>2. OrderInv'
  BY DEF Crash, server, stripe, IInv, OrderInv, PaidIsCaptured
<1>3. \A v \in Workers : jobs'[v] = jobs[v] \/ jobs'[v].at = "idle"
  BY DEF Crash, Idle, IInv, TypeOK
<1>4. QED
  BY <1>1, <1>2, <1>3, ServerMoves DEF Crash, server, stripe

-----------------------------------------------------------------------------
LEMMA StepIInv == IInv /\ [Next]_vars => IInv'
<1> SUFFICES ASSUME IInv, [Next]_vars PROVE IInv'
  OBVIOUS
<1>1. CASE UNCHANGED vars
  <2>1. TypeOK' /\ OrderInv'
    BY <1>1 DEF vars, server, stripe, IInv, TypeOK, OrderInv, PaidIsCaptured
  <2>2. QED
    BY <1>1, <2>1, ServerMoves DEF vars, server, stripe
<1>2. CASE Next
  BY <1>2, ConfirmOK, KeyExpiresOK, MintOK, StoreIntentOK, StaffOK, ClaimOK, ReadOrderOK, RecordPaymentOK,
     RecordFailureOK, MarkPaidOK, ReconcileOK, MarkProcessedOK, CrashOK DEF Next, Handle
<1>3. QED
  BY <1>1, <1>2

(* The inductive invariant of the webhook handlers: what a delivery saw of  *)
(* the order, however stale, still holds when it acts on it.                *)
THEOREM StaleReadsHold == Spec => []IInv
<1>1. QED
  BY InitIInv, StepIInv, PTL DEF Spec

(* Every reachable state of Payments is well typed. *)
THEOREM PaymentsTyped == Spec => []TypeOK
<1>1. IInv => TypeOK
  BY DEF IInv
<1>2. QED
  BY <1>1, StaleReadsHold, PTL

(* No capture that is marked processed is without its effect, for any number *)
(* of intents, deliveries and crashes.                                       *)
THEOREM CapturesHaveEffect == Spec => []CaptureNotForgotten
<1>1. IInv => CaptureNotForgotten
  BY DEF IInv
<1>2. QED
  BY <1>1, StaleReadsHold, PTL

(* Paid by an intent means captured at Stripe. *)
THEOREM OnlyCapturesPay == Spec => []PaidIsCaptured
<1>1. IInv => PaidIsCaptured
  BY DEF IInv, OrderInv
<1>2. QED
  BY <1>1, StaleReadsHold, PTL
=============================================================================
