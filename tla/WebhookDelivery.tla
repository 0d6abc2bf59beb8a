---------------------------- MODULE WebhookDelivery ----------------------------
(***************************************************************************)
(* Outbound webhooks: the fan-out of a domain event into webhook_deliveries *)
(* rows (WebhookEventListener, WebhookDeliveryService.enqueue), and the     *)
(* drain every instance's cron runs over them (processDue) under a session  *)
(* advisory lock and a lease.                                               *)
(*                                                                          *)
(* Time is relative: a row knows how many ticks its next_retry_at is away,  *)
(* a POST how many it has taken.  A POST ends by its deadline (postWebhook),*)
(* and signing and database work of one batch take at most Work ticks, less *)
(* than the lease's slack: both are what leaseMs() is sized for.  Which of  *)
(* several due rows a batch takes first is left open.                       *)
(***************************************************************************)
EXTENDS Integers, Sequences, FiniteSets, FiniteSetsExt

CONSTANTS
  Events,     \* domain events of one tenant
  Subs,       \* subscriptions, each to all of the events
  Instances,  \* processes of the API
  Limit,      \* CLAIM_LIMIT
  Timeout,    \* deliveryTimeoutMs(), in ticks
  Slack,      \* the lease's slack, in ticks
  Work,       \* ticks a batch spends outside its POSTs
  Backoff,    \* BACKOFF_SECONDS, in ticks
  MaxFaults,  \* how many crashes, lost connections and failed statements
  MaxRetries, \* how many admin retries
  Nobody

ASSUME WebhookAssumption ==
  /\ IsFiniteSet(Events) /\ IsFiniteSet(Subs) /\ IsFiniteSet(Instances) /\ Nobody \notin Instances
  /\ Limit \in Nat \ {0} /\ Timeout \in Nat \ {0}
  /\ Slack \in Nat /\ Work \in Nat /\ Work < Slack
  /\ Backoff \in Seq(Nat \ {0})
  /\ MaxFaults \in Nat /\ MaxRetries \in Nat

VARIABLES
  sub,      \* [Subs -> SubState]  webhook_subscriptions
  fan,      \* [Events -> Fan]  the event's way through its process's memory
  row,      \* [Deliveries -> Row]  webhook_deliveries
  lock,     \* the instance whose session holds the drain lock
  job,      \* [Instances -> Job]  processDue
  receiver, \* [Deliveries -> [posts, accepted]]  what the subscriber saw, posts
            \* counted up to MaxAttempts
  severed,  \* did a drain lose the session that held its lock?
  rearmed,  \* deliveries an admin re-armed while a drain was busy with them
  faults, retries

vars == <<sub, fan, row, lock, job, receiver, severed, rearmed, faults, retries>>

-----------------------------------------------------------------------------
Deliveries  == Events \X Subs
SubState    == {"none", "active", "sealed"}
Retryable   == {"failed", "exhausted"}

(* Mutant: an exhausted delivery is claimed again. *)
ClaimExhausted == {"pending", "failed", "exhausted"}
Claimable   == {"pending", "failed"}

(* Mutant: sized for one delivery. *)
LeaseOfOne == Timeout + Slack

(* The worst case of a full batch, and slack. *)
Lease       == Limit * Timeout + Slack
MaxAttempts == Len(Backoff) + 1
MaxWait     == Max({Lease} \cup {Backoff[i] : i \in 1..Len(Backoff)})

(* st = "absent": no such row, or one its subscription's deletion cascaded to. *)
Row     == [st: {"absent", "pending", "failed", "delivered", "exhausted"},
            attempts: 0..(MaxAttempts + MaxRetries), wait: 0..MaxWait]
NoRow   == [st |-> "absent", attempts |-> 0, wait |-> 0]
Queued  == [NoRow EXCEPT !.st = "pending"]

(* A claimed row as claimDue returned it, its attempt counted. *)
Attempt == [d: Deliveries, attempts: 1..(MaxAttempts + MaxRetries)]
Post    == [d: Deliveries, attempts: 1..(MaxAttempts + MaxRetries), age: 0..Timeout,
            res: {"flying", "ok", "bad"}]
NoPost  == [res |-> "none"]

Job     == [at: {"idle", "locked", "draining"}, batch: SUBSET Attempt,
            post: Post \cup {NoPost}, spare: 0..Work]
Idle    == [at |-> "idle", batch |-> {}, post |-> NoPost, spare |-> 0]

(* wants: who was subscribed when the event was committed, and still is. *)
Fan     == [at: {"none", "heard", "read", "over"}, by: Instances \cup {Nobody},
            wants: SUBSET Subs, subs: SUBSET Subs]
NoFan   == [at |-> "none", by |-> Nobody, wants |-> {}, subs |-> {}]
Over(f) == [f EXCEPT !.at = "over", !.by = Nobody, !.subs = {}]

Unsent == [posts |-> 0, accepted |-> FALSE]
Listed == {s \in Subs : sub[s] \in {"active", "sealed"}}
InHand(n) == {a.d : a \in job[n].batch}
               \cup (IF job[n].post = NoPost THEN {} ELSE {job[n].post.d})

-----------------------------------------------------------------------------
Init ==
  /\ sub = [s \in Subs |-> "none"]
  /\ fan = [e \in Events |-> NoFan]
  /\ row = [d \in Deliveries |-> NoRow]
  /\ lock = Nobody
  /\ job = [n \in Instances |-> Idle]
  /\ receiver = [d \in Deliveries |-> Unsent]
  /\ severed = FALSE /\ rearmed = {}
  /\ faults = 0 /\ retries = 0

(* WebhooksService.create.  A name of Subs stands for a new subscription again    *)
(* once nothing in memory speaks of the old one.                                  *)
Unnamed(s) ==
  /\ \A n \in Instances, e \in Events : <<e, s>> \notin InHand(n)
  /\ \A e \in Events : s \notin fan[e].subs

Subscribe(s) ==
  /\ sub[s] = "none" /\ Unnamed(s)
  /\ sub' = [sub EXCEPT ![s] = "active"]
  /\ rearmed' = {d \in rearmed : d[2] # s}
  /\ UNCHANGED <<fan, row, lock, job, receiver, severed, faults, retries>>

(* WebhooksService.delete; the rows of the deliveries go with it. *)
CascadeTo(s) == [d \in Deliveries |-> IF d[2] = s THEN NoRow ELSE row[d]]

Unsubscribe(s) ==
  /\ s \in Listed
  /\ sub' = [sub EXCEPT ![s] = "none"]
  /\ row' = CascadeTo(s)
  /\ fan' = [e \in Events |-> [fan[e] EXCEPT !.wants = @ \ {s}]]
  /\ receiver' = [d \in Deliveries |-> IF d[2] = s THEN Unsent ELSE receiver[d]]
  /\ UNCHANGED <<lock, job, severed, rearmed, faults, retries>>

-----------------------------------------------------------------------------
(* A domain transaction commits and its process emits the event in memory. *)
Emit(e, n) ==
  /\ fan[e].at = "none"
  /\ fan' = [fan EXCEPT ![e] = [NoFan EXCEPT !.at = "heard", !.by = n, !.wants = Listed]]
  /\ UNCHANGED <<sub, row, lock, job, receiver, severed, rearmed, faults, retries>>

(* enqueue: list the active subscriptions, then insert a row for each in one     *)
(* statement.  One that is gone by then breaks the foreign key of the whole      *)
(* statement, and the listener logs the error.                                   *)
ListActive(e) ==
  /\ fan[e].at = "heard"
  /\ fan' = [fan EXCEPT ![e].at = "read", ![e].subs = Listed]
  /\ UNCHANGED <<sub, row, lock, job, receiver, severed, rearmed, faults, retries>>

InsertMany(e) ==
  /\ fan[e].at = "read"
  /\ fan' = [fan EXCEPT ![e] = Over(@)]
  /\ row' = IF fan[e].subs \subseteq Listed
            THEN [d \in Deliveries |-> IF d[1] = e /\ d[2] \in fan[e].subs THEN Queued ELSE row[d]]
            ELSE row
  /\ UNCHANGED <<sub, lock, job, receiver, severed, rearmed, faults, retries>>

-----------------------------------------------------------------------------
(* WebhookDeliveryWorker.tick: no overlap within a process; the session lock     *)
(* keeps the other processes out.                                                *)
LockFree == lock = Nobody

TryDrainLock(n) ==
  /\ job[n].at = "idle" /\ LockFree
  /\ lock' = n
  /\ job' = [job EXCEPT ![n].at = "locked"]
  /\ UNCHANGED <<sub, fan, row, receiver, severed, rearmed, faults, retries>>

(* Mutants: the lease is not looked at; a failed delivery is not claimed again. *)
DueUnleased == {d \in Deliveries : row[d].st \in Claimable}
DueOnce     == {d \in Deliveries : row[d].st = "pending" /\ row[d].wait = 0}

Due == {d \in Deliveries : row[d].st \in Claimable /\ row[d].wait = 0}

(* claimDue: one transaction that skips rows another claim has locked. *)
ClaimDue(n) ==
  /\ job[n].at = "locked"
  /\ \E b \in kSubset(Min({Limit, Cardinality(Due)}), Due) :
       /\ row' = [d \in Deliveries |-> IF d \in b THEN [row[d] EXCEPT !.wait = Lease] ELSE row[d]]
       /\ job' = [job EXCEPT ![n] =
            [at |-> "draining", post |-> NoPost, spare |-> Work,
             batch |-> {[d |-> d, attempts |-> row[d].attempts + 1] : d \in b}]]
  /\ UNCHANGED <<sub, fan, lock, receiver, severed, rearmed, faults, retries>>

(* recordResult updates by id, whatever the row has become since the claim. *)
Recorded(d, st, attempts, wait) ==
  IF row[d].st = "absent" THEN row
  ELSE [row EXCEPT ![d] = [st |-> st, attempts |-> attempts, wait |-> wait]]

Between(n) == job[n].at = "draining" /\ job[n].post = NoPost

(* deliverOne, up to the POST: no subscription or no secret ends the delivery. *)
Abandon(n) ==
  /\ Between(n)
  /\ \E a \in job[n].batch :
       /\ sub[a.d[2]] # "active"
       /\ row' = Recorded(a.d, "exhausted", a.attempts, 0)
       /\ job' = [job EXCEPT ![n].batch = @ \ {a}]
  /\ UNCHANGED <<sub, fan, lock, receiver, severed, rearmed, faults, retries>>

Send(n) ==
  /\ Between(n)
  /\ \E a \in job[n].batch :
       /\ sub[a.d[2]] = "active"
       /\ receiver' = [receiver EXCEPT ![a.d].posts = Min({@ + 1, MaxAttempts})]
       /\ job' = [job EXCEPT ![n].batch = @ \ {a},
                    ![n].post = [d |-> a.d, attempts |-> a.attempts, age |-> 0, res |-> "flying"]]
  /\ UNCHANGED <<sub, fan, row, lock, severed, rearmed, faults, retries>>

(* The receiver takes the event and says so, or its answer is lost or late, or   *)
(* it refuses.                                                                   *)
Answer(n) ==
  /\ job[n].post.res = "flying"
  /\ \E taken, heard \in BOOLEAN :
       /\ heard => taken
       /\ receiver' = [receiver EXCEPT ![job[n].post.d].accepted = @ \/ taken]
       /\ job' = [job EXCEPT ![n].post.res = IF heard THEN "ok" ELSE "bad"]
  /\ UNCHANGED <<sub, fan, row, lock, severed, rearmed, faults, retries>>

(* Mutant: one attempt short. *)
RunOutEarly(attempts) == attempts >= Len(Backoff)
RunOut(attempts) == attempts > Len(Backoff)

Outcome(p) ==
  IF p.res = "ok" THEN Recorded(p.d, "delivered", p.attempts, 0)
  ELSE IF RunOut(p.attempts) THEN Recorded(p.d, "exhausted", p.attempts, 0)
  ELSE Recorded(p.d, "failed", p.attempts, Backoff[p.attempts])

RecordResult(n) ==
  /\ job[n].post.res \in {"ok", "bad"}
  /\ row' = Outcome(job[n].post)
  /\ job' = [job EXCEPT ![n].post = NoPost]
  /\ UNCHANGED <<sub, fan, lock, receiver, severed, rearmed, faults, retries>>

Unlocked(n) == IF lock = n THEN Nobody ELSE lock

Release(n) ==
  /\ Between(n) /\ job[n].batch = {}
  /\ lock' = Unlocked(n)
  /\ job' = [job EXCEPT ![n] = Idle]
  /\ UNCHANGED <<sub, fan, row, receiver, severed, rearmed, faults, retries>>

-----------------------------------------------------------------------------
(* Admin retry-from-failure: attempts stay counted. *)
Retry(d) ==
  /\ retries < MaxRetries
  /\ row[d].st \in Retryable
  /\ row' = [row EXCEPT ![d].st = "pending", ![d].wait = 0]
  /\ rearmed' = IF \E n \in Instances : d \in InHand(n) THEN rearmed \cup {d} ELSE rearmed
  /\ retries' = retries + 1
  /\ UNCHANGED <<sub, fan, lock, job, receiver, severed, faults>>

Sending(j) == j.post.res = "flying"
Working(j) == j.batch # {} \/ j.post # NoPost

MayTick(j) == IF Sending(j) THEN j.post.age < Timeout ELSE Working(j) => j.spare > 0
Ticked(j)  == IF Sending(j) THEN [j EXCEPT !.post.age = @ + 1]
              ELSE IF Working(j) THEN [j EXCEPT !.spare = @ - 1] ELSE j

(* Time passes, unless a POST has to end or a batch has used up its work. *)
Tick ==
  /\ \A n \in Instances : MayTick(job[n])
  /\ row' = [d \in Deliveries |-> [row[d] EXCEPT !.wait = IF @ = 0 THEN 0 ELSE @ - 1]]
  /\ job' = [n \in Instances |-> Ticked(job[n])]
  /\ UNCHANGED <<sub, fan, lock, receiver, severed, rearmed, faults, retries>>

-----------------------------------------------------------------------------
(* The session that holds the lock dies; the drain works on other connections.   *)
LoseSession ==
  /\ faults < MaxFaults /\ lock # Nobody
  /\ lock' = Nobody /\ severed' = TRUE /\ faults' = faults + 1
  /\ UNCHANGED <<sub, fan, row, job, receiver, rearmed, retries>>

(* recordResult throws: a delivered result is then recorded as a failure, and a  *)
(* failure that cannot be recorded ends the drain.                               *)
RecordFails(n) ==
  /\ faults < MaxFaults
  /\ faults' = faults + 1
  /\ \/ /\ job[n].post.res = "ok"
        /\ job' = [job EXCEPT ![n].post.res = "bad"]
        /\ lock' = lock
     \/ /\ job[n].post.res = "bad"
        /\ job' = [job EXCEPT ![n] = Idle]
        /\ lock' = Unlocked(n)
  /\ UNCHANGED <<sub, fan, row, receiver, severed, rearmed, retries>>

Forgotten(ns) == [e \in Events |-> IF fan[e].by \in ns THEN Over(fan[e]) ELSE fan[e]]

(* A process dies: its drain, its session and the events in its memory go. *)
Crash(n) ==
  /\ faults < MaxFaults
  /\ faults' = faults + 1
  /\ job' = [job EXCEPT ![n] = Idle]
  /\ lock' = Unlocked(n)
  /\ fan' = Forgotten({n})
  /\ UNCHANGED <<sub, row, receiver, severed, rearmed, retries>>

(* Every process is restarted with another master key: the stored secrets do not *)
(* decrypt any more.                                                              *)
ChangeKey ==
  /\ faults < MaxFaults
  /\ faults' = faults + 1
  /\ job' = [n \in Instances |-> Idle] /\ lock' = Nobody
  /\ fan' = Forgotten(Instances)
  /\ sub' = [s \in Subs |-> IF sub[s] = "active" THEN "sealed" ELSE sub[s]]
  /\ UNCHANGED <<row, receiver, severed, rearmed, retries>>

-----------------------------------------------------------------------------
DrainStep(n) ==
  \/ TryDrainLock(n) \/ ClaimDue(n) \/ Abandon(n) \/ Send(n)
  \/ Answer(n) \/ RecordResult(n) \/ Release(n)

Next ==
  \/ \E s \in Subs : Subscribe(s) \/ Unsubscribe(s)
  \/ \E e \in Events, n \in Instances : Emit(e, n)
  \/ \E e \in Events : ListActive(e) \/ InsertMany(e)
  \/ \E n \in Instances : DrainStep(n) \/ RecordFails(n) \/ Crash(n)
  \/ \E d \in Deliveries : Retry(d)
  \/ LoseSession \/ ChangeKey
  \/ Tick

Spec == Init /\ [][Next]_vars

(* The cron fires, POSTs meet their deadline and time passes. *)
Fairness == WF_vars(Tick) /\ \A n \in Instances : WF_vars(DrainStep(n))
FairSpec == Spec /\ Fairness

-----------------------------------------------------------------------------
(* Every variable has its type; no count leaves its schedule. *)
TypeOK ==
  /\ sub \in [Subs -> SubState]
  /\ fan \in [Events -> Fan]
  /\ row \in [Deliveries -> Row]
  /\ lock \in Instances \cup {Nobody}
  /\ \A n \in Instances : /\ job[n].at \in {"idle", "locked", "draining"}
                          /\ job[n].batch \subseteq Attempt
                          /\ job[n].post \in Post \cup {NoPost}
                          /\ job[n].spare \in 0..Work
  /\ receiver \in [Deliveries -> [posts: 0..MaxAttempts, accepted: BOOLEAN]]
  /\ severed \in BOOLEAN /\ rearmed \subseteq Deliveries
  /\ faults \in 0..MaxFaults /\ retries \in 0..MaxRetries

(* The lock or, when its session is lost, the lease keeps a delivery in the      *)
(* hands of one drain: both must fail, the lease by an admin's retry of a        *)
(* delivery that is being sent, before two drains hold it.                       *)
BothGuardsFail(d) == severed /\ d \in rearmed

SentByOne ==
  \A m, n \in Instances : m # n => \A d \in InHand(m) \cap InHand(n) : BothGuardsFail(d)

(* What was recorded as delivered is not taken back by a late result, so the     *)
(* subscriber is not sent it again.                                              *)
DeliveredStays ==
  [][\A d \in Deliveries :
       row[d].st = "delivered" => row'[d].st \in {"delivered", "absent"} \/ BothGuardsFail(d)]_vars

(* The log tells the truth: delivered means the subscriber took it, exhausted    *)
(* means every attempt of the schedule was sent, or there was no secret to sign  *)
(* with.  Crashes and failed statements may only add attempts.                   *)
LogIsTrue ==
  \A d \in Deliveries :
    /\ row[d].st = "delivered" => receiver[d].accepted
    /\ row[d].st = "exhausted" => receiver[d].posts >= MaxAttempts \/ sub[d[2]] = "sealed"

(* Every queued delivery is delivered, exhausted or deleted in the end, whatever *)
(* crashes: the lease of a dead drain runs out.                                  *)
DeliveriesSettle ==
  \A d \in Deliveries : row[d].st \in Claimable ~> row[d].st \notin Claimable

=============================================================================
