------------------------- MODULE WebhookDeliveryProofs -------------------------
(***************************************************************************)
(* WebhookDelivery.tla for every number of events, subscriptions, instances *)
(* and faults, every batch size, deadline and backoff: one drain at a time  *)
(* has a delivery in hand, and what it delivered is not taken back.         *)
(*                                                                          *)
(* While the session of the drain lock lives, one instance works (Alone).   *)
(* When it dies, the lease does the lock's work: a row that was claimed     *)
(* waits longer than the batch can still take (Leased), so no other claim   *)
(* finds it due.  Only an admin's retry shortens the wait.  What a row may  *)
(* count and how long it may wait is BoundInv, at the end.                  *)
(***************************************************************************)
EXTENDS WebhookDelivery, FiniteSetTheorems, TLAPS

Claims  == [d: Deliveries, attempts: Nat \ {0}]
Posts   == [d: Deliveries, attempts: Nat \ {0}, age: 0..Timeout, res: {"flying", "ok", "bad"}]
Jobs    == [at: {"idle", "locked", "draining"}, batch: SUBSET Claims, post: Posts \cup {NoPost}, spare: 0..Work]
Rows    == [st: {"absent", "pending", "failed", "delivered", "exhausted"}, attempts: Nat, wait: Nat]
Fans    == [at: {"none", "heard", "read", "over"}, by: Instances \cup {Nobody}, wants: SUBSET Subs, subs: SUBSET Subs]

(* The types the argument needs; BoundInv bounds the counts. *)
Typed ==
  /\ row \in [Deliveries -> Rows]
  /\ job \in [Instances -> Jobs] /\ \A n \in Instances : IsFiniteSet(job[n].batch)
  /\ lock \in Instances \cup {Nobody}
  /\ fan \in [Events -> Fans]
  /\ severed \in BOOLEAN

Hand(j) == {a.d : a \in j.batch} \cup (IF j.post = NoPost THEN {} ELSE {j.post.d})

(* What the batch of a job may still take, at most. *)
Remaining(j) == Cardinality(j.batch) * Timeout + (IF Sending(j) THEN Timeout - j.post.age ELSE 0) + j.spare

Alone == ~severed => \A n \in Instances : job[n].at # "idle" => lock = n

(* A job works on a delivery once, and on none before its claim. *)
TidyJob(j) ==
  /\ j.at # "draining" => j.batch = {} /\ j.post = NoPost
  /\ \A a, b \in j.batch : a.d = b.d => a = b
  /\ j.post # NoPost => \A a \in j.batch : a.d # j.post.d
Tidy == \A n \in Instances : TidyJob(job[n])

Present(d) == row[d].st # "absent"
FannedOut ==
  /\ \A d \in Deliveries : Present(d) => fan[d[1]].at = "over"
  /\ \A n \in Instances : \A d \in Hand(job[n]) : fan[d[1]].at = "over"

Leased ==
  \A n \in Instances : \A d \in Hand(job[n]) :
    d \notin rearmed /\ Present(d) => row[d].wait > Remaining(job[n])

Unsettled ==
  \A n \in Instances : \A d \in Hand(job[n]) :
    Present(d) /\ ~BothGuardsFail(d) => row[d].st \in Claimable

OneHand ==
  \A m, n \in Instances : m # n => \A d \in Hand(job[m]) \cap Hand(job[n]) : BothGuardsFail(d)

IInv == Typed /\ Alone /\ Tidy /\ FannedOut /\ Leased /\ Unsettled /\ OneHand

-----------------------------------------------------------------------------
LEMMA Numbers ==
  /\ Timeout \in Nat \ {0} /\ Work \in Nat /\ Slack \in Nat /\ Work < Slack
  /\ Limit \in Nat \ {0} /\ Lease = Limit * Timeout + Slack /\ Lease \in Nat
  /\ Nobody \notin Instances
  BY WebhookAssumption DEF WebhookAssumption, Lease

LEMMA TimesMono ==
  ASSUME NEW a \in Nat, NEW b \in Nat, NEW t \in Nat, a <= b
  PROVE  a * t \in Nat /\ a * t <= b * t
  BY Z3

LEMMA TimesLess ==
  ASSUME NEW a \in Nat, NEW t \in Nat
  PROVE  (a - 1) * t = a * t - t
  BY Z3

LEMMA RemainingNat ==
  ASSUME NEW j \in Jobs, IsFiniteSet(j.batch)
  PROVE  /\ Cardinality(j.batch) \in Nat /\ Cardinality(j.batch) * Timeout \in Nat
         /\ j.spare \in 0..Work
         /\ Sending(j) => j.post \in Posts /\ j.post.age \in 0..Timeout
         /\ Remaining(j) \in Nat
<1>1. Cardinality(j.batch) \in Nat
  BY FS_CardinalityType
<1>2. Cardinality(j.batch) * Timeout \in Nat
  BY <1>1, Numbers, TimesMono
<1>3. j.spare \in 0..Work /\ j.post \in Posts \cup {NoPost}
  BY DEF Jobs
<1>4. Sending(j) => j.post \in Posts /\ j.post.age \in 0..Timeout
  BY <1>3 DEF Sending, Posts, NoPost
<1> HIDE DEF Jobs
<1>5. Remaining(j) \in Nat
  <2>1. CASE Sending(j)
    BY <1>2, <1>3, <1>4, <2>1, Numbers DEF Remaining
  <2>2. CASE ~Sending(j)
    BY <1>2, <1>3, <2>2, Numbers DEF Remaining
  <2>3. QED
    BY <2>1, <2>2
<1>6. QED
  BY <1>1, <1>2, <1>3, <1>4, <1>5

LEMMA HandIs ==
  ASSUME Typed, NEW n \in Instances
  PROVE  /\ InHand(n) = Hand(job[n]) /\ Hand(job[n]) \subseteq Deliveries
         /\ job[n] \in Jobs /\ IsFiniteSet(job[n].batch)
<1>1. job[n] \in Jobs
  BY DEF Typed
<1>2. InHand(n) = Hand(job[n])
  BY DEF InHand, Hand
<1>3. Hand(job[n]) \subseteq Deliveries
  BY <1>1 DEF Hand, Jobs, Claims, Posts
<1>4. QED
  BY <1>1, <1>2, <1>3 DEF Typed

LEMMA InitIInv == Init => IInv
<1> SUFFICES ASSUME Init PROVE IInv
  OBVIOUS
<1>1. Idle \in Jobs /\ IsFiniteSet(Idle.batch) /\ Hand(Idle) = {} /\ TidyJob(Idle)
  BY Numbers, FS_EmptySet DEF Idle, Jobs, Hand, TidyJob
<1>2. Typed
  BY <1>1 DEF Init, Typed, NoRow, Rows, NoFan, Fans
<1>3. \A n \in Instances : Hand(job[n]) = {} /\ TidyJob(job[n]) /\ job[n].at = "idle"
  BY <1>1 DEF Init, Idle
<1>4. QED
  BY <1>2, <1>3 DEF Init, NoRow, IInv, Alone, Tidy, FannedOut, Present, Leased, Unsettled, OneHand

-----------------------------------------------------------------------------
(* One instance goes on to j.  What it no longer has in hand it may have     *)
(* written to the table; the others had it only when both guards failed.     *)
LEMMA OneWorks ==
  ASSUME IInv, NEW n \in Instances, NEW j \in Jobs, IsFiniteSet(j.batch), TidyJob(j),
         job' = [job EXCEPT ![n] = j],
         Hand(j) \subseteq Hand(job[n]), Remaining(j) <= Remaining(job[n]),
         lock' \in Instances \cup {Nobody}, severed' = severed, rearmed' = rearmed,
         \A m \in Instances \ {n} : lock = m => lock' = m,
         ~severed /\ j.at # "idle" => lock' = n,
         row' \in [Deliveries -> Rows],
         \A d \in Deliveries : row'[d] = row[d] \/ d \in Hand(job[n]) \ Hand(j),
         fan' \in [Events -> Fans],
         \A e \in Events : fan[e].at = "over" => fan'[e].at = "over"
  PROVE  IInv'
<1> USE DEF IInv
<1>1. job' \in [Instances -> Jobs] /\ job'[n] = j /\ \A m \in Instances \ {n} : job'[m] = job[m]
  BY DEF Typed
<1>2. Typed'
  BY <1>1 DEF Typed
<1>3. Alone'
  BY <1>1 DEF Alone
<1>4. Tidy'
  BY <1>1 DEF Tidy
<1>5. \A m \in Instances : /\ Hand(job'[m]) \subseteq Hand(job[m]) /\ Hand(job[m]) \subseteq Deliveries
                           /\ Remaining(job'[m]) <= Remaining(job[m])
                           /\ Remaining(job[m]) \in Nat /\ Remaining(job'[m]) \in Nat
  BY <1>1, HandIs, RemainingNat
<1>6. \A d \in Deliveries : BothGuardsFail(d)' <=> BothGuardsFail(d)
  BY DEF BothGuardsFail
<1>7. \A m \in Instances : \A d \in Hand(job'[m]) : row'[d] = row[d] \/ BothGuardsFail(d)
  BY <1>1, <1>5 DEF OneHand
<1>8. FannedOut'
  <2>1. \A d \in Deliveries : d[1] \in Events
    BY DEF Deliveries
  <2>2. \A d \in Deliveries : Present(d)' => fan[d[1]].at = "over"
    BY <1>5 DEF FannedOut, Present
  <2>3. QED
    BY <1>5, <2>1, <2>2 DEF FannedOut
<1>9. Leased'
  <2> SUFFICES ASSUME NEW m \in Instances, NEW d \in Hand(job'[m]), d \notin rearmed, Present(d)'
               PROVE  row'[d].wait > Remaining(job'[m])
    BY DEF Leased
  <2>1. row'[d] = row[d] /\ Present(d) /\ d \in Hand(job[m])
    BY <1>5, <1>7 DEF BothGuardsFail, Present
  <2>2. row[d].wait > Remaining(job[m]) /\ row[d].wait \in Nat
    BY <2>1, <1>5 DEF Leased, Typed, Rows
  <2>3. QED
    BY <1>5, <2>1, <2>2
<1>10. Unsettled'
  BY <1>5, <1>6, <1>7 DEF Unsettled, Present
<1>11. OneHand'
  BY <1>5, <1>6 DEF OneHand
<1>12. QED
  BY <1>2, <1>3, <1>4, <1>8, <1>9, <1>10, <1>11

LEMMA RecordedIs ==
  ASSUME Typed, NEW d \in Deliveries, NEW attempts \in Nat, NEW wait \in Nat,
         NEW st \in {"failed", "delivered", "exhausted"}
  PROVE  /\ Recorded(d, st, attempts, wait) \in [Deliveries -> Rows]
         /\ \A e \in Deliveries \ {d} : Recorded(d, st, attempts, wait)[e] = row[e]
  BY DEF Recorded, Typed, Rows

LEMMA StillTyped ==
  ASSUME Typed
  PROVE  /\ row' = row => row' \in [Deliveries -> Rows] /\ \A d \in Deliveries : row'[d] = row[d]
         /\ lock' = lock => lock' \in Instances \cup {Nobody}
         /\ fan' = fan => fan' \in [Events -> Fans] /\ \A e \in Events : fan[e].at = "over" => fan'[e].at = "over"
  BY DEF Typed

LEMMA TryDrainLockOK ==
  ASSUME IInv, NEW n \in Instances, TryDrainLock(n) PROVE IInv'
<1> DEFINE j == [job[n] EXCEPT !.at = "locked"]
<1>1. job[n] \in Jobs /\ IsFiniteSet(job[n].batch) /\ TidyJob(job[n]) /\ Remaining(job[n]) \in Nat
  BY HandIs, RemainingNat DEF IInv, Tidy
<1>2. j \in Jobs /\ j.batch = job[n].batch /\ j.post = job[n].post /\ j.spare = job[n].spare /\ j.at = "locked"
  BY <1>1 DEF Jobs
<1> HIDE DEF j
<1>3. Hand(j) = Hand(job[n]) /\ Remaining(j) = Remaining(job[n])
  BY <1>2 DEF Hand, Remaining, Sending
<1>4. TidyJob(j)
  BY <1>1, <1>2 DEF TidyJob, TryDrainLock
<1>5. job' = [job EXCEPT ![n] = j] /\ lock = Nobody /\ lock' = n
  BY DEF TryDrainLock, LockFree, j, IInv, Typed
<1>6. Remaining(j) <= Remaining(job[n]) /\ Hand(j) \subseteq Hand(job[n]) /\ IsFiniteSet(j.batch)
  BY <1>1, <1>2, <1>3
<1>7. UNCHANGED <<row, fan, severed, rearmed>>
  BY DEF TryDrainLock
<1>8. lock' \in Instances \cup {Nobody} /\ \A m \in Instances \ {n} : lock = m => lock' = m
  BY <1>5, Numbers
<1>9. QED
  BY <1>2, <1>4, <1>5, <1>6, <1>7, <1>8, OneWorks, StillTyped DEF IInv

(* A drain that goes on with its lock keeps it. *)
LEMMA Draining ==
  ASSUME IInv, NEW n \in Instances, job[n].at # "idle"
  PROVE  ~severed => lock = n
  BY DEF IInv, Alone

(* Taking a delivery out of the batch. *)
LEMMA OneLess ==
  ASSUME NEW j \in Jobs, IsFiniteSet(j.batch), NEW a \in j.batch
  PROVE  /\ IsFiniteSet(j.batch \ {a})
         /\ Cardinality(j.batch \ {a}) * Timeout = Cardinality(j.batch) * Timeout - Timeout
<1>1. Cardinality(j.batch) \in Nat /\ Cardinality(j.batch \ {a}) = Cardinality(j.batch) - 1
  BY FS_CardinalityType, FS_RemoveElement
<1>2. QED
  BY <1>1, FS_RemoveElement, TimesLess, Numbers

LEMMA AbandonOK ==
  ASSUME IInv, NEW n \in Instances, Abandon(n) PROVE IInv'
<1>1. /\ job[n] \in Jobs /\ IsFiniteSet(job[n].batch) /\ TidyJob(job[n])
      /\ job[n].at = "draining" /\ job[n].post = NoPost
  BY HandIs DEF IInv, Tidy, Abandon, Between
<1>2. PICK a \in job[n].batch : /\ row' = Recorded(a.d, "exhausted", a.attempts, 0)
                                /\ job' = [job EXCEPT ![n].batch = @ \ {a}]
  BY DEF Abandon
<1> DEFINE j == [job[n] EXCEPT !.batch = @ \ {a}]
<1>3. j \in Jobs /\ j.batch = job[n].batch \ {a} /\ j.post = NoPost /\ j.spare = job[n].spare /\ j.at = "draining"
  BY <1>1 DEF Jobs
<1>4. job' = [job EXCEPT ![n] = j]
  BY <1>2 DEF IInv, Typed
<1> HIDE DEF j
<1>5. a.d \in Deliveries /\ a.attempts \in Nat
  BY <1>1 DEF Jobs, Claims
<1>6. Hand(j) \subseteq Hand(job[n]) /\ a.d \in Hand(job[n]) \ Hand(j)
  BY <1>1, <1>3 DEF Hand, TidyJob
<1>7. TidyJob(j)
  BY <1>1, <1>3 DEF TidyJob
<1>8. IsFiniteSet(j.batch) /\ Remaining(j) <= Remaining(job[n])
  <2>1. ~Sending(j) /\ ~Sending(job[n])
    BY <1>1, <1>3 DEF Sending, NoPost
  <2>2. Cardinality(j.batch) * Timeout = Cardinality(job[n].batch) * Timeout - Timeout
    BY <1>1, <1>3, OneLess
  <2>3. /\ IsFiniteSet(j.batch) /\ Cardinality(job[n].batch) * Timeout \in Nat
        /\ job[n].spare \in Nat /\ Timeout \in Nat
    <3>1. IsFiniteSet(j.batch)
      BY <1>1, <1>3, OneLess
    <3>2. Cardinality(job[n].batch) * Timeout \in Nat /\ job[n].spare \in 0..Work
      BY <1>1, RemainingNat
    <3>3. QED
      BY <3>1, <3>2, Numbers
  <2>4. QED
    BY <1>3, <2>1, <2>2, <2>3 DEF Remaining
<1>9. row' \in [Deliveries -> Rows] /\ \A d \in Deliveries : row'[d] = row[d] \/ d \in Hand(job[n]) \ Hand(j)
  <2>1. row' \in [Deliveries -> Rows] /\ \A d \in Deliveries \ {a.d} : row'[d] = row[d]
    BY <1>2, <1>5, RecordedIs DEF IInv
  <2>2. QED
    BY <1>6, <2>1
<1>10. QED
  BY <1>1, <1>3, <1>4, <1>6, <1>7, <1>8, <1>9, OneWorks, StillTyped, Draining DEF Abandon, IInv

LEMMA SendOK ==
  ASSUME IInv, NEW n \in Instances, Send(n) PROVE IInv'
<1>1. /\ job[n] \in Jobs /\ IsFiniteSet(job[n].batch) /\ TidyJob(job[n])
      /\ job[n].at = "draining" /\ job[n].post = NoPost
  BY HandIs DEF IInv, Tidy, Send, Between
<1>2. PICK a \in job[n].batch :
        job' = [job EXCEPT ![n].batch = @ \ {a},
                  ![n].post = [d |-> a.d, attempts |-> a.attempts, age |-> 0, res |-> "flying"]]
  BY DEF Send
<1> DEFINE p == [d |-> a.d, attempts |-> a.attempts, age |-> 0, res |-> "flying"]
           j == [job[n] EXCEPT !.batch = @ \ {a}, !.post = p]
<1>3. p \in Posts /\ p.d = a.d /\ p.age = 0 /\ p.res = "flying"
  BY <1>1, Numbers DEF Jobs, Claims, Posts
<1>4. job' = [job EXCEPT ![n] = j]
  BY <1>2 DEF IInv, Typed
<1> HIDE DEF p
<1>5. j \in Jobs /\ j.batch = job[n].batch \ {a} /\ j.post = p /\ j.spare = job[n].spare /\ j.at = "draining"
  BY <1>1, <1>3 DEF Jobs
<1> HIDE DEF j
<1>6. Hand(j) \subseteq Hand(job[n])
  BY <1>1, <1>3, <1>5 DEF Hand
<1>7. TidyJob(j)
  BY <1>1, <1>3, <1>5 DEF TidyJob
<1>8. IsFiniteSet(j.batch) /\ Remaining(j) <= Remaining(job[n])
  <2>1. Sending(j) /\ ~Sending(job[n])
    BY <1>1, <1>3, <1>5 DEF Sending, NoPost
  <2>2. Cardinality(j.batch) * Timeout = Cardinality(job[n].batch) * Timeout - Timeout
    BY <1>1, <1>5, OneLess
  <2>3. /\ IsFiniteSet(j.batch) /\ Cardinality(job[n].batch) * Timeout \in Nat
        /\ job[n].spare \in Nat /\ Timeout \in Nat
    <3>1. IsFiniteSet(j.batch)
      BY <1>1, <1>5, OneLess
    <3>2. Cardinality(job[n].batch) * Timeout \in Nat /\ job[n].spare \in 0..Work
      BY <1>1, RemainingNat
    <3>3. QED
      BY <3>1, <3>2, Numbers
  <2>4. QED
    BY <1>3, <1>5, <2>1, <2>2, <2>3 DEF Remaining
<1>9. QED
  BY <1>1, <1>4, <1>5, <1>6, <1>7, <1>8, OneWorks, StillTyped, Draining DEF Send, IInv

(* The POST has its answer: the same delivery, and no time left to wait. *)
LEMMA AnsweredOK ==
  ASSUME IInv, NEW n \in Instances, NEW res \in {"ok", "bad"},
         job[n].post.res \in {"flying", "ok", "bad"},
         job' = [job EXCEPT ![n].post.res = res], UNCHANGED <<row, fan, lock, severed, rearmed>>
  PROVE  IInv'
<1>1. /\ job[n] \in Jobs /\ IsFiniteSet(job[n].batch) /\ TidyJob(job[n])
      /\ job[n].post \in Posts /\ job[n].post # NoPost
  BY HandIs DEF IInv, Tidy, Jobs, NoPost, Posts
<1> DEFINE p == [job[n].post EXCEPT !.res = res]
           j == [job[n] EXCEPT !.post = p]
<1>2. p \in Posts /\ p.d = job[n].post.d /\ p.res = res /\ p # NoPost
  BY <1>1 DEF Posts, NoPost
<1>3. job' = [job EXCEPT ![n] = j]
  BY DEF IInv, Typed
<1> HIDE DEF p
<1>4. j \in Jobs /\ j.batch = job[n].batch /\ j.post = p /\ j.spare = job[n].spare /\ j.at = job[n].at
  BY <1>1, <1>2 DEF Jobs
<1> HIDE DEF j
<1>5. Hand(j) = Hand(job[n]) /\ TidyJob(j) /\ ~Sending(j)
  BY <1>1, <1>2, <1>4 DEF Hand, TidyJob, Sending
<1>6. Remaining(j) <= Remaining(job[n])
  BY <1>1, <1>4, <1>5, RemainingNat, Numbers DEF Remaining
<1>7. QED
  BY <1>1, <1>3, <1>4, <1>5, <1>6, OneWorks, StillTyped, Draining DEF IInv

LEMMA OutcomeIs ==
  ASSUME Typed, NEW p \in Posts
  PROVE  /\ Outcome(p) \in [Deliveries -> Rows]
         /\ \A e \in Deliveries \ {p.d} : Outcome(p)[e] = row[e]
<1>1. p.d \in Deliveries /\ p.attempts \in Nat \ {0}
  BY DEF Posts
<1>2. ~RunOut(p.attempts) => Backoff[p.attempts] \in Nat
  BY <1>1, WebhookAssumption DEF WebhookAssumption, RunOut
<1>3. CASE p.res = "ok"
  BY <1>1, <1>3, RecordedIs DEF Outcome
<1>4. CASE p.res # "ok" /\ RunOut(p.attempts)
  BY <1>1, <1>4, RecordedIs DEF Outcome
<1>5. CASE p.res # "ok" /\ ~RunOut(p.attempts)
  BY <1>1, <1>2, <1>5, RecordedIs DEF Outcome
<1>6. QED
  BY <1>3, <1>4, <1>5

LEMMA RecordResultOK ==
  ASSUME IInv, NEW n \in Instances, RecordResult(n) PROVE IInv'
<1>1. /\ job[n] \in Jobs /\ IsFiniteSet(job[n].batch) /\ TidyJob(job[n])
      /\ job[n].post \in Posts /\ job[n].post # NoPost /\ ~Sending(job[n])
  <2>1. job[n] \in Jobs /\ IsFiniteSet(job[n].batch) /\ TidyJob(job[n])
    BY HandIs DEF IInv, Tidy
  <2>2. job[n].post.res \in {"ok", "bad"} /\ ~Sending(job[n])
    BY DEF RecordResult, Sending
  <2>3. job[n].post # NoPost
    BY <2>2 DEF NoPost
  <2>4. QED
    BY <2>1, <2>2, <2>3 DEF Jobs
<1> DEFINE p == job[n].post
           j == [job[n] EXCEPT !.post = NoPost]
<1>2. j \in Jobs /\ j.batch = job[n].batch /\ j.post = NoPost /\ j.spare = job[n].spare /\ j.at = job[n].at
  BY <1>1 DEF Jobs
<1>3. job' = [job EXCEPT ![n] = j]
  BY DEF RecordResult, IInv, Typed
<1> HIDE DEF j
<1>4. Hand(j) \subseteq Hand(job[n]) /\ p.d \in Hand(job[n]) \ Hand(j) /\ TidyJob(j) /\ ~Sending(j)
  BY <1>1, <1>2 DEF Hand, TidyJob, Sending, NoPost
<1>5. Remaining(j) <= Remaining(job[n])
  BY <1>1, <1>2, <1>4, RemainingNat, Numbers DEF Remaining
<1>6. row' \in [Deliveries -> Rows] /\ \A e \in Deliveries \ {p.d} : row'[e] = row[e]
  BY <1>1, OutcomeIs DEF RecordResult, IInv
<1>7. UNCHANGED <<sub, fan, lock, receiver, severed, rearmed, faults, retries>>
  BY DEF RecordResult
<1>8. lock' \in Instances \cup {Nobody} /\ fan' \in [Events -> Fans]
  BY <1>7, StillTyped DEF IInv
<1>9. ~severed /\ j.at # "idle" => lock' = n
  BY <1>1, <1>2, <1>7, Draining
<1>10. \A d \in Deliveries : row'[d] = row[d] \/ d \in Hand(job[n]) \ Hand(j)
  BY <1>4, <1>6
<1>11. QED
  BY <1>1, <1>2, <1>3, <1>4, <1>5, <1>6, <1>7, <1>8, <1>9, <1>10, OneWorks

LEMMA OverIs ==
  ASSUME NEW f \in Fans
  PROVE  Over(f) \in Fans /\ Over(f).at = "over"
<1> DEFINE f1 == [f EXCEPT !.at = "over"]
           f2 == [f1 EXCEPT !.by = Nobody]
           f3 == [f2 EXCEPT !.subs = {}]
<1>1. f1 \in Fans /\ f1.at = "over"
  BY DEF Fans
<1>2. Over(f) = f3
  BY DEF Over
<1> HIDE DEF f1
<1>3. f2 \in Fans /\ f2.at = "over"
  BY <1>1 DEF Fans
<1> HIDE DEF f2
<1>4. f3 \in Fans /\ f3.at = "over"
  BY <1>3 DEF Fans
<1>5. QED
  BY <1>2, <1>4

LEMMA ForgottenIs ==
  ASSUME Typed, NEW ns
  PROVE  /\ fan \in [Events -> Fans] /\ Forgotten(ns) \in [Events -> Fans]
         /\ \A e \in Events : fan[e].at = "over" => Forgotten(ns)[e].at = "over"
  BY OverIs DEF Typed, Forgotten

(* A job ends or is lost, and with it its lock. *)
LEMMA JobEnds ==
  ASSUME IInv, NEW n \in Instances, job' = [job EXCEPT ![n] = Idle], lock' = Unlocked(n),
         UNCHANGED <<row, severed, rearmed>>,
         fan' = fan \/ fan' = Forgotten({n})
  PROVE  IInv'
<1>1. job[n] \in Jobs /\ IsFiniteSet(job[n].batch) /\ Remaining(job[n]) \in Nat
  BY HandIs, RemainingNat DEF IInv
<1>2. /\ Idle \in Jobs /\ IsFiniteSet(Idle.batch) /\ Hand(Idle) = {} /\ TidyJob(Idle)
      /\ Idle.at = "idle" /\ Remaining(Idle) = 0
  BY Numbers, FS_EmptySet DEF Idle, Jobs, Hand, TidyJob, Remaining, Sending, NoPost
<1>3. /\ fan' \in [Events -> Fans]
      /\ \A e \in Events : fan[e].at = "over" => fan'[e].at = "over"
  BY ForgottenIs DEF IInv
<1>4. lock' \in Instances \cup {Nobody} /\ \A m \in Instances \ {n} : lock = m => lock' = m
  BY Numbers DEF Unlocked, IInv, Typed
<1>5. Remaining(Idle) <= Remaining(job[n]) /\ Hand(Idle) \subseteq Hand(job[n])
  BY <1>1, <1>2
<1>6. QED
  BY <1>2, <1>3, <1>4, <1>5, OneWorks, StillTyped DEF IInv

LEMMA DrainFaultOK ==
  ASSUME IInv, NEW n \in Instances, RecordFails(n) \/ Crash(n) \/ Release(n) PROVE IInv'
<1>1. CASE Crash(n)
  BY <1>1, JobEnds DEF Crash
<1>2. CASE Release(n)
  BY <1>2, JobEnds DEF Release
<1>3. CASE RecordFails(n)
  <2>1. CASE job[n].post.res = "ok" /\ job' = [job EXCEPT ![n].post.res = "bad"] /\ lock' = lock
    BY <1>3, <2>1, AnsweredOK DEF RecordFails
  <2>2. CASE job' = [job EXCEPT ![n] = Idle] /\ lock' = Unlocked(n)
    BY <1>3, <2>2, JobEnds DEF RecordFails
  <2>3. QED
    BY <1>3, <2>1, <2>2 DEF RecordFails
<1>4. QED
  BY <1>1, <1>2, <1>3

LEMMA AnswerOK ==
  ASSUME IInv, NEW n \in Instances, Answer(n) PROVE IInv'
<1>1. PICK heard \in BOOLEAN : job' = [job EXCEPT ![n].post.res = IF heard THEN "ok" ELSE "bad"]
  BY DEF Answer
<1>2. (IF heard THEN "ok" ELSE "bad") \in {"ok", "bad"}
  OBVIOUS
<1>3. QED
  BY <1>1, <1>2, AnsweredOK DEF Answer

-----------------------------------------------------------------------------
(* A claim finds only rows whose lease has run out: who still has one of them *)
(* in hand has lost its session, and an admin has re-armed the row.           *)
BatchOf(b) == {[d |-> d, attempts |-> row[d].attempts + 1] : d \in b}

Claimed(c, b) ==
  /\ c \subseteq Claims /\ IsFiniteSet(c) /\ Cardinality(c) * Timeout <= Limit * Timeout
  /\ Cardinality(c) * Timeout \in Nat /\ Limit * Timeout \in Nat
  /\ {a.d : a \in c} = b /\ \A x, y \in c : x.d = y.d => x = y

LEMMA BatchIs ==
  ASSUME IInv, NEW b \in kSubset(Min({Limit, Cardinality(Due)}), Due), b \subseteq Due,
         NEW c, c = BatchOf(b)
  PROVE  Claimed(c, b)
<1> USE DEF BatchOf, Claimed
<1>1. IsFiniteSet(Due) /\ Due \subseteq Deliveries
  BY WebhookAssumption, FS_Product, FS_Subset DEF WebhookAssumption, Due, Deliveries
<1>2. IsFiniteSet(b) /\ Cardinality(b) \in Nat /\ Cardinality(b) <= Limit
  <2>1. IsFiniteSet(b) /\ Cardinality(b) \in Nat /\ Cardinality(Due) \in Nat
    BY <1>1, FS_Subset, FS_CardinalityType
  <2>2. \A x, y \in Nat : Min({x, y}) <= x
    BY DEF Min
  <2>3. Cardinality(b) = Min({Limit, Cardinality(Due)})
    BY DEF kSubset
  <2>4. QED
    BY <2>1, <2>2, <2>3, Numbers
<1>3. IsFiniteSet(c) /\ Cardinality(c) \in Nat /\ Cardinality(c) <= Cardinality(b)
  <2> DEFINE f == [d \in b |-> [d |-> d, attempts |-> row[d].attempts + 1]]
  <2>1. f \in Surjection(b, c)
    BY DEF Surjection
  <2>2. QED
    BY <1>2, <2>1, FS_Surjection, FS_CardinalityType
<1>4. Cardinality(c) * Timeout <= Limit * Timeout /\ Cardinality(c) * Timeout \in Nat /\ Limit * Timeout \in Nat
  <2>1. Cardinality(c) <= Limit
    BY <1>2, <1>3, Numbers
  <2>2. QED
    BY <1>3, <2>1, TimesMono, Numbers
<1>5. c \subseteq Claims
  BY <1>1 DEF Claims, IInv, Typed, Rows
<1>6. {a.d : a \in c} = b
  <2>1. ASSUME NEW x \in b PROVE \E a \in c : a.d = x
    <3>1. [d |-> x, attempts |-> row[x].attempts + 1] \in c
      OBVIOUS
    <3>2. [d |-> x, attempts |-> row[x].attempts + 1].d = x
      OBVIOUS
    <3>3. QED
      BY <3>1, <3>2
  <2>2. \A a \in c : a.d \in b
    OBVIOUS
  <2>3. QED
    BY <2>1, <2>2
<1>7. \A x, y \in c : x.d = y.d => x = y
  OBVIOUS
<1>8. QED
  BY <1>3, <1>4, <1>5, <1>6, <1>7

LEMMA ClaimDueOK ==
  ASSUME IInv, NEW n \in Instances, ClaimDue(n) PROVE IInv'
<1>1. PICK b \in kSubset(Min({Limit, Cardinality(Due)}), Due) :
        /\ row' = [d \in Deliveries |-> IF d \in b THEN [row[d] EXCEPT !.wait = Lease] ELSE row[d]]
        /\ job' = [job EXCEPT ![n] =
             [at |-> "draining", post |-> NoPost, spare |-> Work,
              batch |-> {[d |-> d, attempts |-> row[d].attempts + 1] : d \in b}]]
  BY DEF ClaimDue
<1> DEFINE c == {[d |-> d, attempts |-> row[d].attempts + 1] : d \in b}
           j == [at |-> "draining", post |-> NoPost, spare |-> Work, batch |-> c]
<1>2. b \subseteq Due /\ Due \subseteq Deliveries
  BY DEF kSubset, Due
<1>3. /\ c \subseteq Claims /\ IsFiniteSet(c) /\ Cardinality(c) * Timeout <= Limit * Timeout
      /\ Cardinality(c) * Timeout \in Nat /\ Limit * Timeout \in Nat
      /\ {a.d : a \in c} = b /\ \A x, y \in c : x.d = y.d => x = y
  <2>1. c = BatchOf(b)
    BY DEF BatchOf
  <2> HIDE DEF c
  <2>2. b \subseteq Due
    BY <1>2
  <2>3. Claimed(c, b)
    BY <2>1, <2>2, BatchIs
  <2>4. QED
    BY <2>3 DEF Claimed
<1>4. job' = [job EXCEPT ![n] = j]
  BY <1>1
<1> HIDE DEF c
<1>5. j \in Jobs /\ IsFiniteSet(j.batch) /\ TidyJob(j) /\ Hand(j) = b /\ j.at = "draining"
  BY <1>3, Numbers DEF Jobs, TidyJob, Hand
<1>6. Remaining(j) < Lease /\ Remaining(j) \in Nat
  <2>1. ~Sending(j)
    BY DEF Sending, NoPost
  <2>2. Remaining(j) = Cardinality(c) * Timeout + Work
    BY <1>3, <2>1, Numbers DEF Remaining
  <2>3. QED
    BY <1>3, <2>2, Numbers
<1> HIDE DEF j
<1>7. /\ job' \in [Instances -> Jobs] /\ job'[n] = j
      /\ \A m \in Instances \ {n} : job'[m] = job[m]
  BY <1>4, <1>5 DEF IInv, Typed
<1>8. /\ row' \in [Deliveries -> Rows]
      /\ \A d \in Deliveries : /\ row'[d].st = row[d].st
                               /\ row'[d].wait = IF d \in b THEN Lease ELSE row[d].wait
  BY <1>1, Numbers DEF IInv, Typed, Rows
<1>9. UNCHANGED <<lock, fan, severed, rearmed>> /\ job[n].at = "locked"
  BY DEF ClaimDue
<1>10. \A m \in Instances \ {n} : \A d \in Hand(job[m]) \cap b : BothGuardsFail(d)
  <2> SUFFICES ASSUME NEW m \in Instances \ {n}, NEW d \in Hand(job[m]), d \in b
               PROVE  BothGuardsFail(d)
    OBVIOUS
  <2>1. row[d].wait = 0 /\ Present(d) /\ d \in Deliveries
    BY <1>2 DEF Due, Claimable, Present
  <2>2. d \in rearmed
    BY <2>1, HandIs, RemainingNat DEF Leased, IInv
  <2>3. job[m].at = "draining"
    BY HandIs DEF IInv, Tidy, TidyJob, Hand
  <2>4. severed
    BY <1>9, <2>3 DEF IInv, Alone, Typed
  <2>5. QED
    BY <2>2, <2>4 DEF BothGuardsFail
<1>11. \A d \in Deliveries : (BothGuardsFail(d)' <=> BothGuardsFail(d)) /\ (Present(d)' <=> Present(d))
  BY <1>8, <1>9 DEF BothGuardsFail, Present
<1>12. \A m \in Instances : Hand(job[m]) \subseteq Deliveries /\ Remaining(job[m]) \in Nat
  BY HandIs, RemainingNat DEF IInv
<1>13. Typed' /\ Alone' /\ Tidy'
  BY <1>5, <1>7, <1>8, <1>9 DEF IInv, Typed, Alone, Tidy
<1>14. FannedOut'
  <2>1. \A d \in b : Present(d)
    BY <1>2 DEF Due, Claimable, Present
  <2>2. QED
    BY <1>2, <1>5, <1>7, <1>9, <1>11, <2>1 DEF FannedOut, IInv
<1>15. Leased'
  <2> SUFFICES ASSUME NEW m \in Instances, NEW d \in Hand(job'[m]), d \notin rearmed, Present(d)'
               PROVE  row'[d].wait > Remaining(job'[m])
    BY <1>9 DEF Leased
  <2>1. CASE m = n
    BY <1>2, <1>5, <1>6, <1>7, <1>8, <2>1, Numbers
  <2>2. CASE m # n
    <3>1. d \in Hand(job[m]) /\ d \in Deliveries /\ Present(d) /\ d \notin b
      BY <1>7, <1>10, <1>11, <1>12, <2>2 DEF BothGuardsFail
    <3>2. QED
      BY <1>7, <1>8, <2>2, <3>1 DEF Leased, IInv
  <2>3. QED
    BY <2>1, <2>2
<1>16. Unsettled'
  <2> SUFFICES ASSUME NEW m \in Instances, NEW d \in Hand(job'[m]), Present(d)', ~BothGuardsFail(d)'
               PROVE  row'[d].st \in Claimable
    BY DEF Unsettled
  <2>1. CASE m = n
    BY <1>2, <1>5, <1>7, <1>8, <2>1 DEF Due
  <2>2. CASE m # n
    BY <1>7, <1>8, <1>11, <1>12, <2>2 DEF Unsettled, IInv
  <2>3. QED
    BY <2>1, <2>2
<1>17. OneHand'
  BY <1>2, <1>5, <1>7, <1>10, <1>11, <1>12 DEF OneHand, IInv
<1>18. QED
  BY <1>13, <1>14, <1>15, <1>16, <1>17 DEF IInv

-----------------------------------------------------------------------------
(* Steps that no drain takes.  A row that somebody has in hand keeps its wait *)
(* and its status, is deleted, or was re-armed by an admin.                   *)
LEMMA OthersWork ==
  ASSUME IInv, job' = job, lock' \in {lock, Nobody}, severed' \in BOOLEAN, severed => severed',
         ~severed' => lock' = lock,
         row' \in [Deliveries -> Rows], fan' \in [Events -> Fans],
         \A n \in Instances : \A d \in Hand(job[n]) :
           /\ fan'[d[1]].at = "over"
           /\ d \in rearmed => d \in rearmed'
           /\ \/ row'[d] = row[d]
              \/ row'[d].st = "absent"
              \/ d \in rearmed' /\ row'[d].st \in Claimable,
         \A d \in Deliveries : Present(d)' => fan'[d[1]].at = "over"
  PROVE  IInv'
<1>1. Typed'
  BY DEF IInv, Typed
<1>2. Alone' /\ Tidy'
  BY DEF IInv, Alone, Tidy
<1>3. FannedOut'
  BY DEF FannedOut
<1>4. \A n \in Instances : \A d \in Hand(job[n]) : BothGuardsFail(d) => BothGuardsFail(d)'
  BY DEF BothGuardsFail
<1>5. Leased'
  BY DEF IInv, Leased, Present
<1>6. OneHand'
  BY <1>4 DEF IInv, OneHand
<1>7. Unsettled'
  <2> SUFFICES ASSUME NEW n \in Instances, NEW d \in Hand(job[n]), Present(d)', ~BothGuardsFail(d)'
               PROVE  row'[d].st \in Claimable
    BY DEF Unsettled
  <2>1. row'[d] = row[d] => Present(d)
    BY DEF Present
  <2>2. QED
    BY <1>4, <2>1 DEF IInv, Unsettled, Present
<1>8. QED
  BY <1>1, <1>2, <1>3, <1>5, <1>6, <1>7 DEF IInv

LEMMA HandsFannedOut ==
  ASSUME IInv, NEW n \in Instances, NEW d \in Hand(job[n])
  PROVE  d \in Deliveries /\ d[1] \in Events /\ d[2] \in Subs /\ d = <<d[1], d[2]>> /\ fan[d[1]].at = "over"
  BY HandIs DEF IInv, FannedOut, Deliveries

LEMMA SubscribeOK ==
  ASSUME IInv, NEW s \in Subs, Subscribe(s) PROVE IInv'
<1>1. \A n \in Instances : \A d \in Hand(job[n]) : d[2] # s
  BY HandsFannedOut, HandIs DEF Subscribe, Unnamed, IInv
<1>2. job' = job /\ lock' = lock /\ severed' = severed /\ row' = row /\ fan' = fan
  BY DEF Subscribe
<1>3. \A n \in Instances : \A d \in Hand(job[n]) : d \in rearmed => d \in rearmed'
  BY <1>1 DEF Subscribe
<1>4. QED
  BY <1>2, <1>3, OthersWork, StillTyped DEF IInv, FannedOut, Present, Typed

LEMMA UnsubscribeOK ==
  ASSUME IInv, NEW s \in Subs, Unsubscribe(s) PROVE IInv'
<1>1. job' = job /\ lock' = lock /\ severed' = severed /\ rearmed' = rearmed
  BY DEF Unsubscribe
<1>2. row' \in [Deliveries -> Rows] /\ \A d \in Deliveries : row'[d] = row[d] \/ row'[d].st = "absent"
  BY DEF Unsubscribe, CascadeTo, NoRow, IInv, Typed, Rows
<1>3. fan' \in [Events -> Fans] /\ \A e \in Events : fan'[e].at = fan[e].at
  <2>1. \A e \in Events : [fan[e] EXCEPT !.wants = @ \ {s}] \in Fans /\ [fan[e] EXCEPT !.wants = @ \ {s}].at = fan[e].at
    BY DEF IInv, Typed, Fans
  <2>2. fan' = [e \in Events |-> [fan[e] EXCEPT !.wants = @ \ {s}]]
    BY DEF Unsubscribe
  <2>3. QED
    BY <2>1, <2>2
<1>4. \A d \in Deliveries : Present(d)' => Present(d) /\ d[1] \in Events
  BY <1>2 DEF Present, Deliveries
<1>5. QED
  BY <1>1, <1>2, <1>3, <1>4, OthersWork, HandsFannedOut DEF IInv, FannedOut, Typed

(* The event of a delivery that exists is over, so its fan-out does not come  *)
(* back to it.                                                                *)
LEMMA FanOutOK ==
  ASSUME IInv, NEW e \in Events, (\E n \in Instances : Emit(e, n)) \/ ListActive(e) \/ InsertMany(e)
  PROVE  IInv' /\ \A d \in Deliveries : Present(d) => row'[d] = row[d]
<1>1. job' = job /\ lock' = lock /\ severed' = severed /\ rearmed' = rearmed /\ fan[e].at # "over"
  BY DEF Emit, ListActive, InsertMany
<1>2. fan' \in [Events -> Fans] /\ \A f \in Events \ {e} : fan'[f] = fan[f]
  <2>1. fan[e] \in Fans /\ Listed \subseteq Subs
    BY DEF IInv, Typed, Listed
  <2>2. ASSUME NEW n \in Instances, Emit(e, n)
        PROVE  fan' \in [Events -> Fans] /\ \A f \in Events \ {e} : fan'[f] = fan[f]
    <3>1. [NoFan EXCEPT !.at = "heard", !.by = n, !.wants = Listed] \in Fans
      BY <2>1 DEF NoFan, Fans
    <3>2. QED
      BY <2>2, <3>1 DEF Emit, IInv, Typed
  <2>3. CASE ListActive(e)
    <3> DEFINE f1 == [fan EXCEPT ![e].at = "read"]
               f2 == [f1 EXCEPT ![e].subs = Listed]
    <3>1. fan' = f2
      BY <2>3 DEF ListActive
    <3>2. f1 \in [Events -> Fans] /\ \A f \in Events \ {e} : f1[f] = fan[f]
      BY DEF IInv, Typed, Fans
    <3> HIDE DEF f1
    <3>3. f2 \in [Events -> Fans] /\ \A f \in Events \ {e} : f2[f] = f1[f]
      BY <2>1, <3>2 DEF Fans
    <3>4. QED
      BY <3>1, <3>2, <3>3
  <2>4. CASE InsertMany(e)
    <3>1. Over(fan[e]) \in Fans
      BY <2>1, OverIs
    <3>2. QED
      BY <2>4, <3>1 DEF InsertMany, IInv, Typed
  <2>5. QED
    BY <2>2, <2>3, <2>4
<1>3. InsertMany(e) => fan'[e].at = "over"
  BY OverIs DEF InsertMany, IInv, Typed
<1>4. /\ row' \in [Deliveries -> Rows]
      /\ \A d \in Deliveries : row'[d] = row[d] \/ (d[1] = e /\ InsertMany(e))
  <2>1. CASE row' = row
    BY <2>1, StillTyped DEF IInv
  <2>2. CASE InsertMany(e) /\ row' = [d \in Deliveries |-> IF d[1] = e /\ d[2] \in fan[e].subs THEN Queued ELSE row[d]]
    BY <2>2 DEF Queued, NoRow, Rows, IInv, Typed
  <2>3. QED
    BY <2>1, <2>2 DEF Emit, ListActive, InsertMany
<1>5. \A d \in Deliveries : d[1] \in Events /\ (Present(d) => d[1] # e)
  BY <1>1 DEF Deliveries, IInv, FannedOut
<1>6. \A d \in Deliveries : Present(d)' => fan'[d[1]].at = "over"
  <2> SUFFICES ASSUME NEW d \in Deliveries, Present(d)' PROVE fan'[d[1]].at = "over"
    OBVIOUS
  <2>1. CASE row'[d] = row[d]
    BY <1>2, <1>5, <2>1 DEF Present, IInv, FannedOut
  <2>2. CASE d[1] = e /\ InsertMany(e)
    BY <1>3, <2>2
  <2>3. QED
    BY <1>4, <2>1, <2>2
<1>7. \A n \in Instances : \A d \in Hand(job[n]) : d \in Deliveries /\ d[1] # e /\ fan'[d[1]].at = "over"
  BY <1>1, <1>2, HandsFannedOut
<1>8. IInv'
  BY <1>1, <1>2, <1>4, <1>6, <1>7, OthersWork DEF IInv, Typed
<1>9. QED
  BY <1>4, <1>5, <1>8

LEMMA RetryOK ==
  ASSUME IInv, NEW d \in Deliveries, Retry(d) PROVE IInv'
<1>1. job' = job /\ lock' = lock /\ severed' = severed /\ fan' = fan /\ row[d].st \in {"failed", "exhausted"}
  BY DEF Retry, Retryable
<1>2. /\ row' \in [Deliveries -> Rows] /\ row'[d].st = "pending"
      /\ \A e \in Deliveries \ {d} : row'[e] = row[e]
  <2>1. row' = [row EXCEPT ![d].st = "pending", ![d].wait = 0]
    BY DEF Retry
  <2> DEFINE r1 == [row EXCEPT ![d].st = "pending"]
             r2 == [r1 EXCEPT ![d].wait = 0]
  <2>2. r1 \in [Deliveries -> Rows] /\ r1[d].st = "pending" /\ \A e \in Deliveries \ {d} : r1[e] = row[e]
    BY DEF IInv, Typed, Rows
  <2>3. row' = r2
    BY <2>1
  <2> HIDE DEF r1
  <2>4. r2 \in [Deliveries -> Rows] /\ r2[d].st = "pending" /\ \A e \in Deliveries \ {d} : r2[e] = r1[e]
    BY <2>2 DEF Rows
  <2>5. QED
    BY <2>2, <2>3, <2>4
<1>3. /\ \A e \in rearmed : e \in rearmed'
      /\ \A n \in Instances : d \in Hand(job[n]) => d \in rearmed'
  BY HandIs DEF Retry, IInv
<1>4. \A e \in Deliveries : Present(e)' => Present(e)
  BY <1>1, <1>2 DEF Present
<1>5. QED
  BY <1>1, <1>2, <1>3, <1>4, OthersWork, HandsFannedOut, StillTyped DEF IInv, Typed, FannedOut, Claimable

LEMMA LoseSessionOK ==
  ASSUME IInv, LoseSession PROVE IInv'
<1>1. /\ job' = job /\ lock' = Nobody /\ severed' = TRUE /\ row' = row /\ fan' = fan /\ rearmed' = rearmed
  BY DEF LoseSession
<1>2. QED
  BY <1>1, OthersWork, StillTyped DEF IInv, FannedOut, Present

LEMMA ChangeKeyOK ==
  ASSUME IInv, ChangeKey PROVE IInv'
<1>1. /\ Idle \in Jobs /\ IsFiniteSet(Idle.batch) /\ Hand(Idle) = {} /\ TidyJob(Idle) /\ Idle.at = "idle"
  BY Numbers, FS_EmptySet DEF Idle, Jobs, Hand, TidyJob
<1>2. \A n \in Instances : job'[n] = Idle
  BY DEF ChangeKey
<1>3. /\ fan' \in [Events -> Fans] /\ row' = row /\ lock' = Nobody /\ severed' = severed
      /\ \A e \in Events : fan[e].at = "over" => fan'[e].at = "over"
  BY ForgottenIs DEF ChangeKey, IInv
<1>4. Typed'
  BY <1>1, <1>3 DEF ChangeKey, IInv, Typed
<1>5. Alone' /\ Tidy' /\ Leased' /\ Unsettled' /\ OneHand'
  BY <1>1, <1>2 DEF Alone, Tidy, Leased, Unsettled, OneHand
<1>6. FannedOut'
  BY <1>1, <1>2, <1>3 DEF IInv, FannedOut, Present, Deliveries
<1>7. QED
  BY <1>4, <1>5, <1>6 DEF IInv

-----------------------------------------------------------------------------
(* Time takes as much from what a batch may still take as from its leases. *)
LEMMA TickedIs ==
  ASSUME NEW j \in Jobs, IsFiniteSet(j.batch), TidyJob(j), MayTick(j)
  PROVE  /\ Ticked(j) \in Jobs /\ Ticked(j).batch = j.batch /\ Ticked(j).at = j.at /\ TidyJob(Ticked(j))
         /\ Hand(Ticked(j)) = Hand(j)
         /\ Hand(j) # {} => Remaining(Ticked(j)) = Remaining(j) - 1
<1>1. j.spare \in 0..Work /\ Work \in Nat /\ Timeout \in Nat
  BY Numbers DEF Jobs
<1>2. CASE Sending(j)
  <2>1. j.post \in Posts /\ j.post.age \in 0..(Timeout - 1) /\ j.post # NoPost
    BY <1>2, RemainingNat, Numbers DEF MayTick, NoPost, Sending
  <2> DEFINE p == [j.post EXCEPT !.age = @ + 1]
             k == [j EXCEPT !.post = p]
  <2>2. p \in Posts /\ p.age = j.post.age + 1 /\ p.d = j.post.d /\ p.res = j.post.res /\ p # NoPost
    BY <1>1, <2>1 DEF Posts, NoPost
  <2>3. Ticked(j) = k
    BY <1>2 DEF Ticked
  <2> HIDE DEF p
  <2>4. k \in Jobs /\ k.batch = j.batch /\ k.at = j.at /\ k.post = p /\ k.spare = j.spare
    BY <2>2 DEF Jobs
  <2> HIDE DEF k
  <2>5. TidyJob(k) /\ Hand(k) = Hand(j) /\ Sending(k)
    BY <1>2, <2>1, <2>2, <2>4 DEF TidyJob, Hand, Sending
  <2>6. Remaining(k) = Remaining(j) - 1
    BY <1>1, <1>2, <2>1, <2>2, <2>4, <2>5, RemainingNat DEF Remaining
  <2>7. QED
    BY <2>3, <2>4, <2>5, <2>6
<1>3. CASE ~Sending(j) /\ Working(j)
  <2> DEFINE k == [j EXCEPT !.spare = @ - 1]
  <2>1. j.spare \in 1..Work
    BY <1>1, <1>3 DEF MayTick
  <2>2. Ticked(j) = k
    BY <1>3 DEF Ticked
  <2>3. k \in Jobs /\ k.batch = j.batch /\ k.at = j.at /\ k.post = j.post /\ k.spare = j.spare - 1
    BY <1>1, <2>1 DEF Jobs
  <2> HIDE DEF k
  <2>4. TidyJob(k) /\ Hand(k) = Hand(j) /\ ~Sending(k)
    BY <1>3, <2>3 DEF TidyJob, Hand, Sending
  <2>5. Remaining(k) = Remaining(j) - 1
    BY <1>1, <1>3, <2>1, <2>3, <2>4, RemainingNat DEF Remaining
  <2>6. QED
    BY <2>2, <2>3, <2>4, <2>5
<1>4. CASE ~Sending(j) /\ ~Working(j)
  <2>1. Ticked(j) = j /\ Hand(j) = {}
    BY <1>4 DEF Ticked, Working, Hand
  <2>2. QED
    BY <2>1
<1>5. QED
  BY <1>2, <1>3, <1>4

LEMMA TickOK ==
  ASSUME IInv, Tick PROVE IInv'
<1>1. \A n \in Instances :
        /\ job[n] \in Jobs /\ IsFiniteSet(job[n].batch) /\ TidyJob(job[n]) /\ MayTick(job[n])
        /\ job'[n] = Ticked(job[n]) /\ Hand(job[n]) \subseteq Deliveries /\ Remaining(job[n]) \in Nat
  BY HandIs, RemainingNat DEF IInv, Tidy, Tick
<1>2. \A n \in Instances :
        /\ job'[n] \in Jobs /\ job'[n].batch = job[n].batch /\ job'[n].at = job[n].at /\ TidyJob(job'[n])
        /\ Hand(job'[n]) = Hand(job[n])
        /\ Hand(job[n]) # {} => Remaining(job'[n]) = Remaining(job[n]) - 1
  BY <1>1, TickedIs
<1>3. /\ row' \in [Deliveries -> Rows]
      /\ \A d \in Deliveries : /\ row'[d].st = row[d].st
                               /\ row'[d].wait = IF row[d].wait = 0 THEN 0 ELSE row[d].wait - 1
                               /\ row[d].wait \in Nat
  <2>1. \A d \in Deliveries : row[d] \in Rows
    BY DEF IInv, Typed
  <2>2. \A r \in Rows : /\ [r EXCEPT !.wait = IF @ = 0 THEN 0 ELSE @ - 1] \in Rows
                        /\ [r EXCEPT !.wait = IF @ = 0 THEN 0 ELSE @ - 1].st = r.st
                        /\ [r EXCEPT !.wait = IF @ = 0 THEN 0 ELSE @ - 1].wait = IF r.wait = 0 THEN 0 ELSE r.wait - 1
                        /\ r.wait \in Nat
    BY DEF Rows
  <2>3. row' = [d \in Deliveries |-> [row[d] EXCEPT !.wait = IF @ = 0 THEN 0 ELSE @ - 1]]
    BY DEF Tick
  <2>4. QED
    BY <2>1, <2>2, <2>3
<1>4. UNCHANGED <<lock, fan, severed, rearmed>>
  BY DEF Tick
<1>5. Typed'
  <2>1. job' = [n \in Instances |-> Ticked(job[n])]
    BY DEF Tick
  <2>2. QED
    BY <1>1, <1>2, <1>3, <1>4, <2>1 DEF IInv, Typed
<1>6. Alone' /\ Tidy'
  BY <1>2, <1>4 DEF IInv, Alone, Tidy
<1>7. \A d \in Deliveries : (BothGuardsFail(d)' <=> BothGuardsFail(d)) /\ (Present(d)' <=> Present(d))
  BY <1>3, <1>4 DEF BothGuardsFail, Present
<1>8. FannedOut' /\ Unsettled' /\ OneHand'
  BY <1>1, <1>2, <1>3, <1>4, <1>7 DEF IInv, FannedOut, Unsettled, OneHand
<1>9. Leased'
  <2> SUFFICES ASSUME NEW n \in Instances, NEW d \in Hand(job'[n]), d \notin rearmed, Present(d)'
               PROVE  row'[d].wait > Remaining(job'[n])
    BY <1>4 DEF Leased
  <2>1. d \in Hand(job[n]) /\ d \in Deliveries /\ Present(d)
    BY <1>1, <1>2, <1>7
  <2>2. row[d].wait > Remaining(job[n])
    BY <2>1 DEF IInv, Leased
  <2>3. QED
    BY <1>1, <1>2, <1>3, <2>1, <2>2
<1>10. QED
  BY <1>5, <1>6, <1>8, <1>9 DEF IInv

-----------------------------------------------------------------------------
LEMMA Inductive == IInv /\ [Next]_vars => IInv'
<1> SUFFICES ASSUME IInv, [Next]_vars PROVE IInv'
  OBVIOUS
<1>1. ASSUME NEW s \in Subs, Subscribe(s) \/ Unsubscribe(s) PROVE IInv'
  BY <1>1, SubscribeOK, UnsubscribeOK
<1>2. ASSUME NEW e \in Events, (\E n \in Instances : Emit(e, n)) \/ ListActive(e) \/ InsertMany(e) PROVE IInv'
  BY <1>2, FanOutOK
<1>3. ASSUME NEW n \in Instances, DrainStep(n) \/ RecordFails(n) \/ Crash(n) PROVE IInv'
  BY <1>3, TryDrainLockOK, ClaimDueOK, AbandonOK, SendOK, AnswerOK, RecordResultOK, DrainFaultOK DEF DrainStep
<1>4. ASSUME NEW d \in Deliveries, Retry(d) PROVE IInv'
  BY <1>4, RetryOK
<1>5. CASE LoseSession \/ ChangeKey \/ Tick
  BY <1>5, LoseSessionOK, ChangeKeyOK, TickOK
<1>6. CASE UNCHANGED vars
  BY <1>6 DEF vars, IInv, Typed, Alone, Tidy, FannedOut, Present, Leased, Unsettled, OneHand, BothGuardsFail
<1>7. QED
  BY <1>1, <1>2, <1>3, <1>4, <1>5, <1>6 DEF Next

(* The lock or the lease: Spec keeps the invariant above. *)
THEOREM LeasesOutlastBatches == Spec => []IInv
  BY InitIInv, Inductive, PTL DEF Spec

(* No two drains have one delivery in hand, unless the session of the lock    *)
(* was lost and an admin re-armed the delivery.                               *)
THEOREM NoDoubleSend == Spec => []SentByOne
<1>1. IInv => SentByOne
  <2> SUFFICES ASSUME IInv PROVE SentByOne
    OBVIOUS
  <2>1. \A n \in Instances : InHand(n) = Hand(job[n])
    BY HandIs DEF IInv
  <2>2. QED
    BY <2>1 DEF IInv, OneHand, SentByOne
<1>2. QED
  BY <1>1, LeasesOutlastBatches, PTL

(* Who records a result has the delivery in hand, and no delivered one is in  *)
(* anybody's hand: no late result takes a delivery back.                      *)
THEOREM NoLateResult == Spec => DeliveredStays
<1>1. ASSUME IInv, [Next]_vars
      PROVE  [\A d \in Deliveries :
                row[d].st = "delivered" => row'[d].st \in {"delivered", "absent"} \/ BothGuardsFail(d)]_vars
  <2> SUFFICES ASSUME NEW d \in Deliveries, row[d].st = "delivered", ~BothGuardsFail(d), Next
               PROVE  row'[d].st \in {"delivered", "absent"}
    BY <1>1
  <2>1. Present(d) /\ \A n \in Instances : d \notin Hand(job[n])
    BY <1>1 DEF Present, IInv, Unsettled, Claimable
  <2>2. ASSUME NEW s \in Subs, Subscribe(s) \/ Unsubscribe(s) PROVE row'[d].st \in {"delivered", "absent"}
    BY <2>2 DEF Subscribe, Unsubscribe, CascadeTo, NoRow
  <2>3. ASSUME NEW e \in Events, (\E n \in Instances : Emit(e, n)) \/ ListActive(e) \/ InsertMany(e)
        PROVE  row'[d].st \in {"delivered", "absent"}
    BY <1>1, <2>1, <2>3, FanOutOK
  <2>4. ASSUME NEW n \in Instances, DrainStep(n) \/ RecordFails(n) \/ Crash(n)
        PROVE  row'[d].st \in {"delivered", "absent"}
    <3>1. CASE ClaimDue(n)
      BY <1>1, <3>1 DEF ClaimDue, IInv, Typed, Rows
    <3>2. CASE Abandon(n)
      <4>1. PICK a \in job[n].batch : row' = Recorded(a.d, "exhausted", a.attempts, 0)
        BY <3>2 DEF Abandon
      <4>2. d # a.d
        BY <2>1 DEF Hand
      <4>3. QED
        BY <1>1, <4>1, <4>2 DEF Recorded, IInv, Typed
    <3>3. CASE RecordResult(n)
      <4>1. job[n].post # NoPost
        BY <3>3 DEF RecordResult, NoPost
      <4>2. d # job[n].post.d
        BY <2>1, <4>1 DEF Hand
      <4>3. row'[d] = row[d]
        <5>1. job[n].post \in Posts
          BY <1>1, <4>1, HandIs DEF IInv, Jobs
        <5>2. QED
          BY <1>1, <3>3, <4>2, <5>1, OutcomeIs DEF RecordResult, IInv
      <4>4. QED
        BY <4>3
    <3>4. CASE row' = row
      BY <3>4
    <3>5. QED
      BY <2>4, <3>1, <3>2, <3>3, <3>4 DEF DrainStep, TryDrainLock, Send, Answer, Release, RecordFails, Crash
  <2>5. ASSUME NEW e \in Deliveries, Retry(e) PROVE row'[d].st \in {"delivered", "absent"}
    <3>1. e # d
      BY <2>5 DEF Retry, Retryable
    <3>2. QED
      BY <1>1, <2>5, <3>1 DEF Retry, IInv, Typed
  <2>6. CASE Tick
    BY <1>1, <2>6 DEF Tick, IInv, Typed, Rows
  <2>7. CASE LoseSession \/ ChangeKey
    BY <2>7 DEF LoseSession, ChangeKey
  <2>8. QED
    BY <2>2, <2>3, <2>4, <2>5, <2>6, <2>7 DEF Next
<1>2. QED
  BY <1>1, LeasesOutlastBatches, PTL DEF Spec, DeliveredStays

-----------------------------------------------------------------------------
(* The log.  Every attempt a row counts was sent, or the subscription has no  *)
(* readable secret; and who holds a good answer has been heard.               *)
Sealed(d) == sub[d[2]] = "sealed"
Sent(d, attempts) == receiver[d].posts >= attempts \/ receiver[d].posts >= MaxAttempts \/ Sealed(d)

Seen     == [posts: 0..MaxAttempts, accepted: BOOLEAN]
LogTyped == sub \in [Subs -> SubState] /\ receiver \in [Deliveries -> Seen]

RowLogged(d) ==
  Present(d) => sub[d[2]] \in {"active", "sealed"} /\ Sent(d, row[d].attempts)
ClaimLogged(a) == Present(a.d) => Sent(a.d, a.attempts - 1)
PostLogged(p)  == Present(p.d) => Sent(p.d, p.attempts) /\ (p.res = "ok" => receiver[p.d].accepted)

LogInv ==
  /\ LogTyped /\ LogIsTrue
  /\ \A d \in Deliveries : RowLogged(d)
  /\ \A n \in Instances : /\ \A a \in job[n].batch : ClaimLogged(a)
                          /\ job[n].post # NoPost => PostLogged(job[n].post)

LEMMA MaxAttemptsIs == Len(Backoff) \in Nat /\ MaxAttempts = Len(Backoff) + 1
  BY WebhookAssumption DEF WebhookAssumption, MaxAttempts

LEMMA PostsCounted ==
  /\ LogTyped => \A d \in Deliveries : receiver[d].posts \in Nat /\ receiver[d].posts <= MaxAttempts
  /\ LogTyped' => \A d \in Deliveries : receiver'[d].posts \in Nat /\ receiver'[d].posts <= MaxAttempts
<1> USE MaxAttemptsIs
<1>1. \A r \in Seen : r.posts \in Nat /\ r.posts <= MaxAttempts
  BY DEF Seen
<1>2. QED
  BY <1>1 DEF LogTyped

LEMMA MinOfTwo ==
  ASSUME NEW a \in Int, NEW b \in Int
  PROVE  Min({a, b}) \in {a, b} /\ Min({a, b}) <= a /\ Min({a, b}) <= b
  BY DEF Min

(* Sending more, or losing the secret, leaves what was sent as sent. *)
LEMMA SentStays ==
  ASSUME LogTyped, LogTyped', NEW d \in Deliveries, NEW k \in Int, Sent(d, k),
         receiver'[d].posts >= receiver[d].posts, Sealed(d) => Sealed(d)'
  PROVE  Sent(d, k)'
<1>1. receiver[d].posts \in Nat /\ receiver'[d].posts \in Nat /\ MaxAttempts \in Nat
  BY MaxAttemptsIs, PostsCounted
<1>2. QED
  BY <1>1 DEF Sent

(* A step after which every row that is there, and every claim and POST in     *)
(* hand, is the one it was or is logged anew.                                  *)
LEMMA LogStep ==
  ASSUME IInv, IInv', LogInv, LogTyped',
         \A d \in Deliveries : Present(d)' =>
           /\ receiver'[d].posts >= receiver[d].posts /\ (receiver[d].accepted => receiver'[d].accepted)
           /\ (Sealed(d) => Sealed(d)') /\ sub'[d[2]] \in {"active", "sealed"}
           /\ \/ /\ Present(d) /\ row'[d].attempts = row[d].attempts
                 /\ row'[d].st \in {row[d].st, "pending"}
              \/ /\ Sent(d, row[d].attempts)'
                 /\ row'[d].st = "delivered" => receiver'[d].accepted
                 /\ row'[d].st = "exhausted" => receiver'[d].posts >= MaxAttempts \/ Sealed(d)',
         \A n \in Instances : \A a \in job'[n].batch :
           Present(a.d)' => (a \in job[n].batch /\ Present(a.d)) \/ ClaimLogged(a)',
         \A n \in Instances : job'[n].post # NoPost /\ Present(job[n].post.d)' =>
           \/ /\ job[n].post # NoPost /\ Present(job[n].post.d) /\ job[n].post.d = job'[n].post.d
              /\ job[n].post.attempts = job'[n].post.attempts
              /\ job'[n].post.res = "ok" => job[n].post.res = "ok"
           \/ PostLogged(job[n].post)'
  PROVE  LogInv'
<1>1. \A n \in Instances :
        /\ \A a \in job[n].batch \cup job'[n].batch : a.d \in Deliveries /\ a.attempts - 1 \in Int
        /\ job[n].post # NoPost => job[n].post.d \in Deliveries /\ job[n].post.attempts \in Int
        /\ job'[n].post # NoPost => job'[n].post.d \in Deliveries /\ job'[n].post.attempts \in Int
  BY DEF IInv, Typed, Jobs, Claims, Posts
<1>2. \A d \in Deliveries : row[d].attempts \in Int /\ row'[d].attempts \in Int
  BY DEF IInv, Typed, Rows
<1>3. ASSUME NEW d \in Deliveries PROVE RowLogged(d)'
  <2> SUFFICES ASSUME Present(d)' PROVE sub'[d[2]] \in {"active", "sealed"} /\ Sent(d, row[d].attempts)'
    BY DEF RowLogged
  <2>1. CASE Present(d) /\ row'[d].attempts = row[d].attempts
    <3>1. Sent(d, row[d].attempts) /\ row[d].attempts \in Int
      BY <1>2, <2>1 DEF LogInv, RowLogged
    <3>2. \A k \in Int : Sent(d, k) => Sent(d, k)'
      BY SentStays DEF LogInv
    <3>3. PICK k \in Int : k = row[d].attempts /\ k = row'[d].attempts
      BY <2>1, <3>1
    <3>4. QED
      BY <3>1, <3>2, <3>3 DEF Sent, Sealed
  <2>2. QED
    BY <2>1
<1>4. LogIsTrue'
  <2> SUFFICES ASSUME NEW d \in Deliveries
               PROVE  /\ row'[d].st = "delivered" => receiver'[d].accepted
                      /\ row'[d].st = "exhausted" => receiver'[d].posts >= MaxAttempts \/ sub'[d[2]] = "sealed"
    BY DEF LogIsTrue
  <2>1. row'[d].st \in {"delivered", "exhausted"} => Present(d)'
    BY DEF Present
  <2>2. receiver[d].posts \in Nat /\ receiver'[d].posts \in Nat /\ MaxAttempts \in Nat
    BY MaxAttemptsIs, PostsCounted DEF LogInv
  <2>3. QED
    BY <2>1, <2>2 DEF LogInv, LogIsTrue, Sealed
<1>5. ASSUME NEW n \in Instances, NEW a \in job'[n].batch PROVE ClaimLogged(a)'
  BY <1>1, SentStays DEF LogInv, ClaimLogged
<1>6. ASSUME NEW n \in Instances, job'[n].post # NoPost PROVE PostLogged(job[n].post)'
  <2> DEFINE p == job[n].post
  <2> SUFFICES ASSUME Present(p.d)', p # NoPost, Present(p.d), p.d = p'.d, p.attempts = p'.attempts, p'.res = "ok" => p.res = "ok"
               PROVE  Sent(p.d, p.attempts)' /\ (p'.res = "ok" => receiver'[p'.d].accepted)
    BY <1>6 DEF PostLogged
  <2>1. PICK d \in Deliveries, k \in Int : d = p.d /\ k = p.attempts /\ d = p'.d /\ k = p'.attempts
    BY <1>1
  <2>2. Sent(d, k) /\ Present(d)' /\ (p.res = "ok" => receiver[d].accepted)
    BY <2>1 DEF LogInv, PostLogged, Present
  <2>3. Sent(d, k)'
    BY <2>1, <2>2, SentStays DEF LogInv
  <2>4. QED
    BY <2>1, <2>2, <2>3 DEF Sent, Sealed
<1>7. QED
  BY <1>3, <1>4, <1>5, <1>6 DEF LogInv

LEMMA InitLogInv == Init => LogInv
<1> SUFFICES ASSUME Init PROVE LogInv
  OBVIOUS
<1>1. \A d \in Deliveries : ~Present(d) /\ row[d].st = "absent"
  BY DEF Init, Present, NoRow
<1>2. \A n \in Instances : job[n].batch = {} /\ job[n].post = NoPost
  BY DEF Init, Idle
<1>3. LogTyped
  <2>1. Unsent \in Seen
    BY MaxAttemptsIs DEF Unsent, Seen
  <2>2. QED
    BY <2>1 DEF Init, LogTyped, SubState
<1>4. QED
  BY <1>1, <1>2, <1>3 DEF LogInv, LogIsTrue, RowLogged

(* Steps that write no row, no receiver and no job but to drop what it had. *)
LEMMA LogQuiet ==
  ASSUME IInv, IInv', LogInv, row' = row, receiver' = receiver,
         sub' \in [Subs -> SubState],
         \A d \in Deliveries : Present(d) => sub'[d[2]] \in {"active", "sealed"} /\ (Sealed(d) => Sealed(d)'),
         \A n \in Instances :
           /\ job'[n].batch \subseteq job[n].batch
           /\ job'[n].post \in {job[n].post, NoPost}
  PROVE  LogInv'
<1>1. LogTyped'
  BY DEF LogInv, LogTyped
<1>2. \A d \in Deliveries : Present(d)' => Present(d)
  BY DEF Present
<1>3. \A n \in Instances : /\ \A a \in job[n].batch : a.d \in Deliveries
                           /\ job[n].post # NoPost => job[n].post.d \in Deliveries
  BY DEF IInv, Typed, Jobs, Claims, Posts
<1>4. \A d \in Deliveries : receiver[d].posts \in Nat
  BY PostsCounted DEF LogInv
<1>5. QED
  BY <1>1, <1>2, <1>3, <1>4, LogStep

LEMMA LogSubscriptions ==
  ASSUME IInv, IInv', LogInv, NEW s \in Subs, Subscribe(s) \/ Unsubscribe(s) PROVE LogInv'
<1>0. sub \in [Subs -> SubState] /\ receiver \in [Deliveries -> Seen]
      /\ Unsent \in Seen /\ "none" \in SubState /\ "active" \in SubState
  BY MaxAttemptsIs DEF LogInv, LogTyped, Unsent, Seen, SubState
<1>1. LogTyped' /\ sub' \in [Subs -> SubState]
  <2>1. CASE Subscribe(s)
    BY <1>0, <2>1 DEF Subscribe, LogTyped
  <2>2. CASE Unsubscribe(s)
    <3>1. receiver' = [d \in Deliveries |-> IF d[2] = s THEN Unsent ELSE receiver[d]]
          /\ sub' = [sub EXCEPT ![s] = "none"]
      BY <2>2 DEF Unsubscribe
    <3>2. receiver' \in [Deliveries -> Seen]
      BY <1>0, <3>1
    <3>3. QED
      BY <1>0, <3>1, <3>2 DEF LogTyped
  <2>3. QED
    BY <2>1, <2>2
<1>2. CASE Subscribe(s)
  <2>1. \A d \in Deliveries : Present(d) => d[2] # s
    BY <1>2 DEF Subscribe, LogInv, RowLogged
  <2>2. \A d \in Deliveries : d[2] # s => sub'[d[2]] = sub[d[2]]
    BY <1>2 DEF Subscribe, LogInv, LogTyped
  <2>3. row' = row /\ receiver' = receiver /\ job' = job
    BY <1>2 DEF Subscribe
  <2>4. QED
    BY <1>1, <2>1, <2>2, <2>3, LogQuiet DEF LogInv, RowLogged, Sealed
<1>3. CASE Unsubscribe(s)
  <2>1. \A d \in Deliveries : Present(d)' => d[2] # s /\ row'[d] = row[d] /\ Present(d)
    BY <1>3 DEF Unsubscribe, CascadeTo, NoRow, Present
  <2>2. \A d \in Deliveries : d[2] # s => sub'[d[2]] = sub[d[2]] /\ receiver'[d] = receiver[d]
    BY <1>3 DEF Unsubscribe, LogInv, LogTyped, Deliveries
  <2>3. job' = job
    BY <1>3 DEF Unsubscribe
  <2>4. \A n \in Instances : /\ \A a \in job[n].batch : a.d \in Deliveries
                             /\ job[n].post # NoPost => job[n].post.d \in Deliveries
    BY DEF IInv, Typed, Jobs, Claims, Posts
  <2>5. \A d \in Deliveries : receiver[d].posts \in Nat
    BY PostsCounted DEF LogInv
  <2>6. QED
    BY <1>1, <2>1, <2>2, <2>3, <2>4, <2>5, LogStep DEF LogInv, RowLogged, Sealed
<1>4. QED
  BY <1>2, <1>3

LEMMA LogFanOut ==
  ASSUME IInv, IInv', LogInv, NEW e \in Events,
         (\E n \in Instances : Emit(e, n)) \/ ListActive(e) \/ InsertMany(e)
  PROVE  LogInv'
<1>1. sub' = sub /\ receiver' = receiver /\ job' = job
  BY DEF Emit, ListActive, InsertMany
<1>2. \A d \in Deliveries : /\ Present(d) => row'[d] = row[d]
                            /\ receiver[d].posts \in Nat
  BY FanOutOK, PostsCounted DEF LogInv
<1>3. ASSUME NEW d \in Deliveries, Present(d)', ~Present(d)
      PROVE  row'[d] = Queued /\ sub[d[2]] \in {"active", "sealed"}
  BY <1>3 DEF Emit, ListActive, InsertMany, Present, Listed
<1>4. \A d \in Deliveries : row'[d] = Queued => Sent(d, row[d].attempts)' /\ row'[d].st = "pending"
  BY <1>1, <1>2, MaxAttemptsIs DEF Queued, NoRow, Sent
<1>5. \A n \in Instances : \A d \in Hand(job[n]) : Present(d)' => Present(d)
  <2> SUFFICES ASSUME NEW n \in Instances, NEW d \in Hand(job[n]), Present(d)', ~Present(d)
               PROVE  FALSE
    OBVIOUS
  <2>1. d \in Deliveries /\ fan[d[1]].at = "over"
    BY HandsFannedOut
  <2>2. QED
    BY <2>1 DEF Emit, ListActive, InsertMany, Present
<1>6. \A n \in Instances : /\ \A a \in job[n].batch : a.d \in Hand(job[n])
                           /\ job[n].post # NoPost => job[n].post.d \in Hand(job[n])
  BY DEF Hand
<1>7. LogTyped'
  BY <1>1 DEF LogInv, LogTyped
<1>8. QED
  BY <1>1, <1>2, <1>3, <1>4, <1>5, <1>6, <1>7, LogStep DEF LogInv, RowLogged, Sealed

LEMMA LogClaimDue ==
  ASSUME IInv, IInv', LogInv, NEW n \in Instances, ClaimDue(n) PROVE LogInv'
<1>1. sub' = sub /\ receiver' = receiver /\ LogTyped'
  BY DEF ClaimDue, LogInv, LogTyped
<1>2. PICK b \in kSubset(Min({Limit, Cardinality(Due)}), Due) :
        /\ row' = [d \in Deliveries |-> IF d \in b THEN [row[d] EXCEPT !.wait = Lease] ELSE row[d]]
        /\ job' = [job EXCEPT ![n] =
             [at |-> "draining", post |-> NoPost, spare |-> Work,
              batch |-> {[d |-> d, attempts |-> row[d].attempts + 1] : d \in b}]]
  BY DEF ClaimDue
<1>3. \A d \in Deliveries : row'[d].st = row[d].st /\ row'[d].attempts = row[d].attempts
                            /\ row[d].attempts \in Nat /\ receiver[d].posts \in Nat
  BY <1>2, PostsCounted DEF IInv, Typed, Rows, LogInv
<1>4. \A m \in Instances \ {n} : job'[m] = job[m]
  BY <1>2 DEF IInv, Typed
<1>5. job'[n].post = NoPost /\ \A a \in job'[n].batch : a.d \in Deliveries /\ a.attempts - 1 = row[a.d].attempts
  <2>1. b \subseteq Deliveries
    BY DEF kSubset, Due
  <2>2. /\ job'[n].post = NoPost
        /\ job'[n].batch = {[d |-> d, attempts |-> row[d].attempts + 1] : d \in b}
    BY <1>2 DEF IInv, Typed
  <2>3. ASSUME NEW a \in job'[n].batch
        PROVE  a.d \in Deliveries /\ a.attempts - 1 = row[a.d].attempts
    <3>1. PICK d \in b : a = [d |-> d, attempts |-> row[d].attempts + 1]
      BY <2>2
    <3>2. a.d = d /\ a.attempts = row[d].attempts + 1
      BY <3>1
    <3>3. row[d].attempts \in Nat /\ d \in Deliveries
      BY <1>3, <2>1
    <3>4. QED
      BY <3>2, <3>3
  <2>4. QED
    BY <2>2, <2>3
<1>6. \A a \in job'[n].batch : ClaimLogged(a)'
  <2> SUFFICES ASSUME NEW a \in job'[n].batch, Present(a.d)' PROVE Sent(a.d, a.attempts - 1)'
    BY DEF ClaimLogged
  <2>1. Sent(a.d, row[a.d].attempts)
    BY <1>3, <1>5 DEF LogInv, RowLogged, Present
  <2>2. QED
    BY <1>1, <1>5, <2>1 DEF Sent, Sealed
<1>7. \A d \in Deliveries : Present(d)' => Present(d)
  BY <1>3 DEF Present
<1>8. \A m \in Instances : /\ \A a \in job[m].batch : a.d \in Deliveries
                           /\ job[m].post # NoPost => job[m].post.d \in Deliveries
  BY DEF IInv, Typed, Jobs, Claims, Posts
<1>9. \A m \in Instances : m # n => m \in Instances \ {n}
  OBVIOUS
<1>10. \A m \in Instances : \A a \in job'[m].batch :
         Present(a.d)' => (a \in job[m].batch /\ Present(a.d)) \/ ClaimLogged(a)'
  BY <1>4, <1>6, <1>7, <1>8
<1>11. \A m \in Instances : job'[m].post # NoPost =>
         job'[m].post = job[m].post /\ (Present(job[m].post.d)' => Present(job[m].post.d))
  BY <1>4, <1>5, <1>7, <1>8
<1>12. QED
  BY <1>1, <1>3, <1>7, <1>10, <1>11, LogStep DEF LogInv, RowLogged, Sealed

LEMMA LogKeepsRows ==
  ASSUME IInv, IInv', LogInv,
         (\E n \in Instances : TryDrainLock(n) \/ Release(n) \/ Crash(n)) \/ LoseSession \/ ChangeKey
  PROVE  LogInv'
<1>0. sub \in [Subs -> SubState] /\ \A d \in Deliveries : d[2] \in Subs
  BY DEF LogInv, LogTyped, Deliveries
<1>1. row' = row /\ receiver' = receiver
  BY DEF TryDrainLock, Release, Crash, LoseSession, ChangeKey
<1>2. \A m \in Instances : job'[m].batch \subseteq job[m].batch /\ job'[m].post \in {job[m].post, NoPost}
  <2>1. Idle.batch = {} /\ Idle.post = NoPost
    BY DEF Idle
  <2>2. ASSUME NEW n \in Instances, TryDrainLock(n)
        PROVE  \A m \in Instances : job'[m].batch = job[m].batch /\ job'[m].post = job[m].post
    BY <2>2 DEF TryDrainLock, IInv, Typed, Jobs
  <2>3. ASSUME NEW n \in Instances, Release(n) \/ Crash(n)
        PROVE  \A m \in Instances : job'[m] = Idle \/ job'[m] = job[m]
    BY <2>3 DEF Release, Crash, IInv, Typed
  <2>4. CASE LoseSession \/ ChangeKey
    BY <2>1, <2>4 DEF LoseSession, ChangeKey
  <2>5. QED
    BY <2>1, <2>2, <2>3, <2>4
<1>3. sub' = sub \/ sub' = [s \in Subs |-> IF sub[s] = "active" THEN "sealed" ELSE sub[s]]
  BY DEF TryDrainLock, Release, Crash, LoseSession, ChangeKey
<1>4. sub' \in [Subs -> SubState]
  BY <1>0, <1>3 DEF SubState
<1>5. \A d \in Deliveries : Present(d) => sub'[d[2]] \in {"active", "sealed"} /\ (Sealed(d) => Sealed(d)')
  BY <1>0, <1>3 DEF LogInv, RowLogged, Sealed
<1>6. QED
  BY <1>1, <1>2, <1>4, <1>5, LogQuiet

LEMMA LogAbandon ==
  ASSUME IInv, IInv', LogInv, NEW n \in Instances, Abandon(n) PROVE LogInv'
<1>1. PICK a \in job[n].batch : /\ sub[a.d[2]] # "active"
                                /\ row' = Recorded(a.d, "exhausted", a.attempts, 0)
                                /\ job' = [job EXCEPT ![n].batch = @ \ {a}]
  BY DEF Abandon
<1>2. sub' = sub /\ receiver' = receiver /\ LogTyped'
  BY DEF Abandon, LogInv, LogTyped
<1>3. a.d \in Deliveries /\ \A d \in Deliveries : receiver[d].posts \in Nat
  BY <1>1, PostsCounted DEF IInv, Typed, Jobs, Claims, LogInv
<1>4. Present(a.d) => Sealed(a.d)
  BY <1>1, <1>3 DEF LogInv, RowLogged, Sealed
<1>5. \A d \in Deliveries : /\ Present(d)' => Present(d)
                            /\ Present(d) => row'[d] = row[d] \/ (row'[d].st = "exhausted" /\ Sealed(d))
  BY <1>1, <1>3, <1>4 DEF Recorded, Present, IInv, Typed
<1>6. \A m \in Instances : job'[m].batch \subseteq job[m].batch /\ job'[m].post = job[m].post
  BY <1>1 DEF IInv, Typed, Jobs
<1>7. \A m \in Instances : /\ \A c \in job[m].batch : c.d \in Deliveries
                           /\ job[m].post # NoPost => job[m].post.d \in Deliveries
  BY DEF IInv, Typed, Jobs, Claims, Posts
<1>8. \A d \in Deliveries : Present(d)' =>
           /\ receiver'[d].posts >= receiver[d].posts /\ (receiver[d].accepted => receiver'[d].accepted)
           /\ (Sealed(d) => Sealed(d)') /\ sub'[d[2]] \in {"active", "sealed"}
  BY <1>2, <1>3, <1>5 DEF LogInv, RowLogged, Sealed
<1>9. \A d \in Deliveries : Present(d)' =>
           \/ /\ Present(d) /\ row'[d].attempts = row[d].attempts
              /\ row'[d].st \in {row[d].st, "pending"}
           \/ /\ Sent(d, row[d].attempts)'
              /\ row'[d].st = "delivered" => receiver'[d].accepted
              /\ row'[d].st = "exhausted" => receiver'[d].posts >= MaxAttempts \/ Sealed(d)'
  BY <1>2, <1>5 DEF Sent, Sealed
<1>10. QED
  BY <1>2, <1>5, <1>6, <1>7, <1>8, <1>9, LogStep

(* One instance goes on to j with the rows as they are, and the receiver may   *)
(* see more.                                                                   *)
LEMMA LogOneJob ==
  ASSUME IInv, IInv', LogInv, NEW n \in Instances, NEW j \in Jobs, job' = [job EXCEPT ![n] = j],
         row' = row, sub' = sub, LogTyped',
         \A d \in Deliveries : receiver'[d].posts >= receiver[d].posts
                               /\ (receiver[d].accepted => receiver'[d].accepted),
         j.batch \subseteq job[n].batch,
         \/ /\ job[n].post # NoPost /\ j.post # NoPost /\ j.post.d = job[n].post.d
            /\ j.post.attempts = job[n].post.attempts /\ (j.post.res = "ok" => job[n].post.res = "ok")
         \/ PostLogged(j.post)'
  PROVE  LogInv'
<1>1. job'[n] = j /\ \A m \in Instances \ {n} : job'[m] = job[m]
  BY DEF IInv, Typed
<1>2. \A d \in Deliveries : Present(d)' <=> Present(d)
  BY DEF Present
<1>3. \A m \in Instances : /\ \A a \in job[m].batch : a.d \in Deliveries
                           /\ job[m].post # NoPost => job[m].post.d \in Deliveries
                           /\ job'[m].post # NoPost => job'[m].post.d \in Deliveries
  BY DEF IInv, Typed, Jobs, Claims, Posts
<1>4. \A d \in Deliveries : Present(d)' =>
         /\ receiver'[d].posts >= receiver[d].posts /\ (receiver[d].accepted => receiver'[d].accepted)
         /\ (Sealed(d) => Sealed(d)') /\ sub'[d[2]] \in {"active", "sealed"}
         /\ Present(d) /\ row'[d].attempts = row[d].attempts /\ row'[d].st \in {row[d].st, "pending"}
  BY <1>2 DEF LogInv, RowLogged, Sealed
<1>5. \A m \in Instances : m = n \/ m \in Instances \ {n}
  OBVIOUS
<1>6. \A m \in Instances : \A a \in job'[m].batch : Present(a.d)' => a \in job[m].batch /\ Present(a.d)
  BY <1>1, <1>2, <1>3, <1>5
<1>7. \A m \in Instances : job'[m].post # NoPost /\ Present(job[m].post.d)' =>
           \/ /\ job[m].post # NoPost /\ Present(job[m].post.d) /\ job[m].post.d = job'[m].post.d
              /\ job[m].post.attempts = job'[m].post.attempts
              /\ job'[m].post.res = "ok" => job[m].post.res = "ok"
           \/ PostLogged(job[m].post)'
  <2> SUFFICES ASSUME NEW m \in Instances, job'[m].post # NoPost, Present(job[m].post.d)', ~PostLogged(job[m].post)'
               PROVE  /\ job[m].post # NoPost /\ Present(job[m].post.d) /\ job[m].post.d = job'[m].post.d
                      /\ job[m].post.attempts = job'[m].post.attempts
                      /\ job'[m].post.res = "ok" => job[m].post.res = "ok"
    OBVIOUS
  <2>1. Present(job'[m].post.d)
    BY <1>2, <1>3 DEF Present
  <2>2. CASE m # n
    BY <1>1, <2>1, <2>2
  <2>3. CASE m = n
    <3>1. job'[m].post = j.post
      BY <1>1, <2>3
    <3>2. ~PostLogged(j.post)'
      BY <3>1 DEF PostLogged, Present, Sent, Sealed
    <3>3. QED
      BY <2>1, <2>3, <3>1, <3>2
  <2>4. QED
    BY <2>2, <2>3
<1>8. QED
  BY <1>4, <1>6, <1>7, LogStep

LEMMA LogSend ==
  ASSUME IInv, IInv', LogInv, NEW n \in Instances, Send(n) PROVE LogInv'
<1>1. job[n] \in Jobs /\ MaxAttempts \in Nat /\ MaxAttempts >= 1
  BY HandIs, MaxAttemptsIs DEF IInv
<1>2. PICK a \in job[n].batch :
        /\ receiver' = [receiver EXCEPT ![a.d].posts = Min({@ + 1, MaxAttempts})]
        /\ job' = [job EXCEPT ![n].batch = @ \ {a},
                     ![n].post = [d |-> a.d, attempts |-> a.attempts, age |-> 0, res |-> "flying"]]
  BY DEF Send
<1> DEFINE p == [d |-> a.d, attempts |-> a.attempts, age |-> 0, res |-> "flying"]
           j == [job[n] EXCEPT !.batch = @ \ {a}, !.post = p]
<1>3. /\ p \in Posts /\ p.d = a.d /\ p.attempts = a.attempts /\ p.res = "flying"
      /\ a.d \in Deliveries /\ a.attempts \in Nat \ {0}
  BY <1>1, <1>2, Numbers DEF Jobs, Claims, Posts
<1>4. job' = [job EXCEPT ![n] = j]
  BY <1>2 DEF IInv, Typed
<1> HIDE DEF p
<1>5. j \in Jobs /\ j.batch \subseteq job[n].batch /\ j.post = p
  BY <1>1, <1>3 DEF Jobs
<1> HIDE DEF j
<1>6. receiver \in [Deliveries -> Seen] /\ receiver[a.d].posts \in 0..MaxAttempts
  BY <1>3 DEF LogInv, LogTyped, Seen
<1> DEFINE m == Min({receiver[a.d].posts + 1, MaxAttempts})
           r == [receiver[a.d] EXCEPT !.posts = m]
<1>7. /\ m \in 0..MaxAttempts /\ m >= receiver[a.d].posts
      /\ m >= receiver[a.d].posts + 1 \/ m >= MaxAttempts
  <2>1. receiver[a.d].posts + 1 \in Nat
    BY <1>1, <1>6
  <2>2. m \in {receiver[a.d].posts + 1, MaxAttempts} /\ m <= MaxAttempts
    <3>1. \A x, y \in Int : Min({x, y}) \in {x, y} /\ Min({x, y}) <= y
      BY MinOfTwo
    <3>2. receiver[a.d].posts + 1 \in Int /\ MaxAttempts \in Int
      BY <1>1, <2>1
    <3>3. QED
      BY <3>1, <3>2, Zenon
  <2>3. QED
    BY <1>1, <1>6, <2>1, <2>2
<1>8. receiver' = [receiver EXCEPT ![a.d] = r]
  BY <1>2, <1>3, <1>6
<1> HIDE DEF m
<1>9. r \in Seen /\ r.posts = m /\ r.accepted = receiver[a.d].accepted
  BY <1>3, <1>6, <1>7 DEF Seen
<1> HIDE DEF r
<1>10. receiver' \in [Deliveries -> Seen] /\ receiver'[a.d] = r
       /\ \A d \in Deliveries \ {a.d} : receiver'[d] = receiver[d]
  BY <1>3, <1>6, <1>8, <1>9
<1>11. LogTyped' /\ sub' = sub /\ row' = row
  BY <1>10 DEF Send, LogInv, LogTyped
<1>12. \A d \in Deliveries : receiver'[d].posts >= receiver[d].posts
                             /\ (receiver[d].accepted => receiver'[d].accepted)
  <2>1. \A d \in Deliveries : receiver[d].posts \in Nat
    BY <1>6, MaxAttemptsIs DEF Seen
  <2>2. QED
    BY <1>7, <1>9, <1>10, <2>1
<1>13. PostLogged(p)'
  <2> SUFFICES ASSUME Present(a.d) PROVE Sent(a.d, a.attempts)'
    BY <1>3, <1>11 DEF PostLogged, Present
  <2>1. Sent(a.d, a.attempts - 1)
    BY <1>2 DEF LogInv, ClaimLogged
  <2>2. QED
    BY <1>1, <1>3, <1>6, <1>7, <1>9, <1>10, <1>11, <2>1 DEF Sent, Sealed
<1>14. QED
  BY <1>4, <1>5, <1>11, <1>12, <1>13, LogOneJob DEF PostLogged

LEMMA LogAnswered ==
  ASSUME IInv, IInv', LogInv, NEW n \in Instances, NEW res \in {"ok", "bad"},
         job[n].post.res \in {"flying", "ok", "bad"}, job' = [job EXCEPT ![n].post.res = res],
         row' = row, sub' = sub, LogTyped',
         \A d \in Deliveries : receiver'[d].posts = receiver[d].posts
                               /\ (receiver[d].accepted => receiver'[d].accepted),
         res = "ok" => receiver'[job[n].post.d].accepted
  PROVE  LogInv'
<1>1. job[n] \in Jobs /\ job[n].post \in Posts /\ job[n].post # NoPost
  BY HandIs DEF IInv, Jobs, NoPost, Posts
<1>0. PICK p \in Posts : p = [job[n].post EXCEPT !.res = res]
  BY <1>1 DEF Posts
<1> DEFINE j == [job[n] EXCEPT !.post = p]
<1>2. p \in Posts /\ p.d = job[n].post.d /\ p.attempts = job[n].post.attempts /\ p.res = res /\ p # NoPost
  BY <1>0, <1>1 DEF Posts, NoPost
<1>3. job' = [job EXCEPT ![n] = j]
  BY <1>0 DEF IInv, Typed
<1>4. j \in Jobs /\ j.batch \subseteq job[n].batch /\ j.post = p
  BY <1>1, <1>2 DEF Jobs
<1> HIDE DEF j
<1>5. p.d \in Deliveries /\ p.attempts \in Nat
  BY <1>2 DEF Posts
<1>6. \A d \in Deliveries : receiver[d].posts \in Nat
  BY PostsCounted DEF LogInv
<1>7. PostLogged(p)'
  <2> SUFFICES ASSUME Present(p.d) PROVE Sent(p.d, p.attempts)'
    BY <1>2 DEF PostLogged, Present
  <2>1. Sent(p.d, p.attempts)
    BY <1>1, <1>2 DEF LogInv, PostLogged
  <2>2. QED
    BY <1>5, <1>6, <2>1 DEF Sent, Sealed
<1>8. \A d \in Deliveries : receiver'[d].posts >= receiver[d].posts
  BY <1>6
<1>9. QED
  BY <1>3, <1>4, <1>7, <1>8, LogOneJob DEF PostLogged

LEMMA LogAnswer ==
  ASSUME IInv, IInv', LogInv, NEW n \in Instances, Answer(n) PROVE LogInv'
<1>1. PICK taken \in BOOLEAN, heard \in BOOLEAN :
        /\ heard => taken
        /\ receiver' = [receiver EXCEPT ![job[n].post.d].accepted = @ \/ taken]
        /\ job' = [job EXCEPT ![n].post.res = IF heard THEN "ok" ELSE "bad"]
  BY DEF Answer
<1> DEFINE d == job[n].post.d
           r == [receiver[d] EXCEPT !.accepted = @ \/ taken]
<1>2. job[n].post.res = "flying" /\ d \in Deliveries
  BY HandIs DEF IInv, Answer, Jobs, Posts, NoPost
<1>3. receiver \in [Deliveries -> Seen]
  BY DEF LogInv, LogTyped
<1>4. r \in Seen /\ r.posts = receiver[d].posts
  BY <1>2, <1>3 DEF Seen
<1>5. (receiver[d].accepted => r.accepted) /\ (taken => r.accepted)
  <2>1. receiver[d] \in Seen
    BY <1>2, <1>3
  <2>2. r.accepted = (receiver[d].accepted \/ taken)
    BY <2>1 DEF Seen
  <2>3. QED
    BY <2>2
<1>6. receiver' = [receiver EXCEPT ![d] = r]
  BY <1>1, <1>2, <1>3
<1> HIDE DEF r, d
<1>7. receiver' \in [Deliveries -> Seen] /\ receiver'[d] = r /\ \A e \in Deliveries \ {d} : receiver'[e] = receiver[e]
  BY <1>2, <1>3, <1>4, <1>6
<1>8. LogTyped' /\ row' = row /\ sub' = sub
  BY <1>7 DEF Answer, LogInv, LogTyped
<1>9. \A e \in Deliveries : receiver'[e].posts = receiver[e].posts /\ (receiver[e].accepted => receiver'[e].accepted)
  BY <1>4, <1>5, <1>7
<1>10. (IF heard THEN "ok" ELSE "bad") = "ok" => receiver'[job[n].post.d].accepted
  BY <1>1, <1>5, <1>7 DEF d
<1>11. (IF heard THEN "ok" ELSE "bad") \in {"ok", "bad"}
  OBVIOUS
<1>12. QED
  BY <1>1, <1>2, <1>8, <1>9, <1>10, <1>11, LogAnswered

LEMMA OutcomeLogged ==
  ASSUME IInv, LogInv, NEW p \in Posts, p.res \in {"ok", "bad"}, Present(p.d),
         p.res = "ok" => receiver[p.d].accepted
  PROVE  /\ Outcome(p)[p.d].attempts = p.attempts
         /\ Outcome(p)[p.d].st = "delivered" => receiver[p.d].accepted
         /\ Outcome(p)[p.d].st = "exhausted" => p.attempts >= MaxAttempts
<1>1. /\ p.d \in Deliveries /\ p.attempts \in Nat /\ row[p.d].st # "absent" /\ DOMAIN row = Deliveries
      /\ Len(Backoff) \in Nat /\ MaxAttempts = Len(Backoff) + 1
  BY MaxAttemptsIs DEF Posts, Present, IInv, Typed
<1>2. ASSUME NEW st, NEW attempts, NEW wait
      PROVE  /\ Recorded(p.d, st, attempts, wait)[p.d].st = st
             /\ Recorded(p.d, st, attempts, wait)[p.d].attempts = attempts
  BY <1>1 DEF Recorded
<1>3. CASE p.res = "ok"
  <2>1. Outcome(p) = Recorded(p.d, "delivered", p.attempts, 0)
    BY <1>3 DEF Outcome
  <2>2. QED
    BY <1>2, <1>3, <2>1
<1>4. CASE p.res # "ok" /\ RunOut(p.attempts)
  <2>1. p.attempts >= MaxAttempts
    BY <1>1, <1>4 DEF RunOut
  <2>2. QED
    BY <1>2, <1>4, <2>1 DEF Outcome
<1>5. CASE p.res # "ok" /\ ~RunOut(p.attempts)
  BY <1>2, <1>5 DEF Outcome
<1>6. QED
  BY <1>3, <1>4, <1>5

LEMMA LogRecordResult ==
  ASSUME IInv, IInv', LogInv, NEW n \in Instances, RecordResult(n) PROVE LogInv'
<1>1. job[n] \in Jobs /\ job[n].post \in Posts /\ job[n].post # NoPost /\ job[n].post.res \in {"ok", "bad"}
  BY HandIs DEF IInv, Jobs, NoPost, Posts, RecordResult
<1>2. PICK p \in Posts : p = job[n].post
  BY <1>1
<1>3. row' = Outcome(p) /\ sub' = sub /\ receiver' = receiver /\ LogTyped'
  BY <1>2 DEF RecordResult, LogInv, LogTyped
<1>4. p.d \in Deliveries /\ p.attempts \in Nat /\ \A d \in Deliveries : receiver[d].posts \in Nat
  BY PostsCounted DEF Posts, LogInv
<1>5. \A d \in Deliveries \ {p.d} : row'[d] = row[d]
  BY <1>3, OutcomeIs DEF IInv
<1>6. ~Present(p.d) => row'[p.d] = row[p.d]
  BY <1>3 DEF Outcome, Recorded, Present
<1>7. Present(p.d) => /\ Sent(p.d, p.attempts) /\ sub[p.d[2]] \in {"active", "sealed"}
                      /\ row'[p.d].attempts = p.attempts
                      /\ row'[p.d].st = "delivered" => receiver[p.d].accepted
                      /\ row'[p.d].st = "exhausted" => p.attempts >= MaxAttempts
  <2> SUFFICES ASSUME Present(p.d)
               PROVE  /\ Sent(p.d, p.attempts) /\ sub[p.d[2]] \in {"active", "sealed"}
                      /\ row'[p.d].attempts = p.attempts
                      /\ row'[p.d].st = "delivered" => receiver[p.d].accepted
                      /\ row'[p.d].st = "exhausted" => p.attempts >= MaxAttempts
    OBVIOUS
  <2>1. Sent(p.d, p.attempts) /\ (p.res = "ok" => receiver[p.d].accepted)
    BY <1>1, <1>2 DEF LogInv, PostLogged
  <2>2. QED
    BY <1>1, <1>2, <1>3, <1>4, <2>1, OutcomeLogged DEF LogInv, RowLogged
<1>8. \A d \in Deliveries : Present(d)' => Present(d)
  BY <1>5, <1>6 DEF Present
<1>9. \A d \in Deliveries : Present(d)' =>
           \/ /\ Present(d) /\ row'[d].attempts = row[d].attempts
              /\ row'[d].st \in {row[d].st, "pending"}
           \/ /\ Sent(d, row[d].attempts)'
              /\ row'[d].st = "delivered" => receiver'[d].accepted
              /\ row'[d].st = "exhausted" => receiver'[d].posts >= MaxAttempts \/ Sealed(d)'
  <2> SUFFICES ASSUME Present(p.d)
               PROVE  /\ Sent(p.d, row[p.d].attempts)'
                      /\ row'[p.d].st = "delivered" => receiver'[p.d].accepted
                      /\ row'[p.d].st = "exhausted" => receiver'[p.d].posts >= MaxAttempts \/ Sealed(p.d)'
    BY <1>5, <1>8
  <2>1. receiver[p.d].posts >= p.attempts \/ receiver[p.d].posts >= MaxAttempts \/ Sealed(p.d)
    BY <1>7 DEF Sent
  <2>2. QED
    BY <1>3, <1>4, <1>7, <2>1, MaxAttemptsIs DEF Sent, Sealed
<1>10. job' = [job EXCEPT ![n].post = NoPost]
  BY DEF RecordResult
<1>11. \A m \in Instances : job'[m].batch = job[m].batch /\ job'[m].post \in {job[m].post, NoPost}
  BY <1>10 DEF IInv, Typed, Jobs
<1>12. \A m \in Instances : /\ \A a \in job[m].batch : a.d \in Deliveries
                            /\ job[m].post # NoPost => job[m].post.d \in Deliveries
  BY DEF IInv, Typed, Jobs, Claims, Posts
<1>13. \A d \in Deliveries : Present(d)' =>
           /\ receiver'[d].posts >= receiver[d].posts /\ (receiver[d].accepted => receiver'[d].accepted)
           /\ (Sealed(d) => Sealed(d)') /\ sub'[d[2]] \in {"active", "sealed"}
  BY <1>3, <1>4, <1>8 DEF LogInv, RowLogged, Sealed
<1>14. QED
  BY <1>3, <1>8, <1>9, <1>11, <1>12, <1>13, LogStep

LEMMA LogRecordFails ==
  ASSUME IInv, IInv', LogInv, NEW n \in Instances, RecordFails(n) PROVE LogInv'
<1>1. row' = row /\ receiver' = receiver /\ sub' = sub /\ LogTyped' /\ sub' \in [Subs -> SubState]
  BY DEF RecordFails, LogInv, LogTyped
<1>2. CASE job[n].post.res = "ok" /\ job' = [job EXCEPT ![n].post.res = "bad"]
  BY <1>1, <1>2, LogAnswered
<1>3. CASE job' = [job EXCEPT ![n] = Idle]
  <2>1. \A m \in Instances : job'[m].batch \subseteq job[m].batch /\ job'[m].post \in {job[m].post, NoPost}
    BY <1>3 DEF IInv, Typed, Jobs, Idle
  <2>2. \A d \in Deliveries : Present(d) => sub'[d[2]] \in {"active", "sealed"} /\ (Sealed(d) => Sealed(d)')
    BY <1>1 DEF LogInv, RowLogged, Sealed
  <2>3. QED
    BY <1>1, <2>1, <2>2, LogQuiet
<1>4. QED
  BY <1>2, <1>3 DEF RecordFails

(* An admin's retry and the passing of time keep the attempts of every row. *)
LEMMA LogRowsAge ==
  ASSUME IInv, IInv', LogInv, Tick \/ \E d \in Deliveries : Retry(d) PROVE LogInv'
<1>1. receiver' = receiver /\ sub' = sub /\ LogTyped'
  BY DEF Tick, Retry, LogInv, LogTyped
<1>2. \A d \in Deliveries : /\ Present(d)' <=> Present(d)
                            /\ row'[d].attempts = row[d].attempts /\ row'[d].st \in {row[d].st, "pending"}
  <2>1. \A d \in Deliveries : row[d] \in Rows
    BY DEF IInv, Typed
  <2>2. CASE Tick
    BY <2>1, <2>2 DEF Tick, Present, Rows
  <2>3. ASSUME NEW e \in Deliveries, Retry(e)
        PROVE  /\ Present(e)' /\ Present(e) /\ row'[e].attempts = row[e].attempts /\ row'[e].st = "pending"
               /\ \A d \in Deliveries \ {e} : row'[d] = row[d]
    BY <2>1, <2>3 DEF Retry, Retryable, Present, IInv, Typed, Rows
  <2>4. QED
    BY <2>2, <2>3 DEF Present
<1>3. \A m \in Instances : /\ job'[m].batch = job[m].batch
                           /\ \/ job'[m].post = job[m].post
                              \/ /\ job[m].post # NoPost /\ job'[m].post.d = job[m].post.d
                                 /\ job'[m].post.attempts = job[m].post.attempts
                                 /\ job'[m].post.res = job[m].post.res
  <2>1. CASE Tick
    <3> SUFFICES ASSUME NEW m \in Instances, job'[m] = Ticked(job[m])
                 PROVE  /\ job'[m].batch = job[m].batch
                        /\ \/ job'[m].post = job[m].post
                           \/ /\ job[m].post # NoPost /\ job'[m].post.d = job[m].post.d
                              /\ job'[m].post.attempts = job[m].post.attempts
                              /\ job'[m].post.res = job[m].post.res
      BY <2>1 DEF Tick
    <3>1. job[m] \in Jobs
      BY HandIs DEF IInv
    <3>2. CASE Sending(job[m])
      <4>1. job[m].post \in Posts /\ job[m].post # NoPost
        BY <3>1, <3>2 DEF Sending, Jobs, NoPost
      <4>2. job'[m].post = [job[m].post EXCEPT !.age = @ + 1] /\ job'[m].batch = job[m].batch
        BY <3>1, <3>2 DEF Ticked, Jobs
      <4>3. QED
        BY <4>1, <4>2 DEF Posts
    <3>3. CASE ~Sending(job[m])
      BY <3>1, <3>3 DEF Ticked, Jobs
    <3>4. QED
      BY <3>2, <3>3
  <2>2. CASE \E d \in Deliveries : Retry(d)
    BY <2>2 DEF Retry
  <2>3. QED
    BY <2>1, <2>2
<1>4. \A m \in Instances : /\ \A a \in job[m].batch : a.d \in Deliveries
                           /\ job[m].post # NoPost => job[m].post.d \in Deliveries
  BY DEF IInv, Typed, Jobs, Claims, Posts
<1>5. \A d \in Deliveries : receiver[d].posts \in Nat
  BY PostsCounted DEF LogInv
<1>6. \A d \in Deliveries : Present(d)' =>
           /\ receiver'[d].posts >= receiver[d].posts /\ (receiver[d].accepted => receiver'[d].accepted)
           /\ (Sealed(d) => Sealed(d)') /\ sub'[d[2]] \in {"active", "sealed"}
  BY <1>1, <1>2, <1>5 DEF LogInv, RowLogged, Sealed
<1>7. QED
  BY <1>1, <1>2, <1>3, <1>4, <1>6, LogStep

LEMMA LogInductive == IInv /\ IInv' /\ LogInv /\ [Next]_vars => LogInv'
<1> SUFFICES ASSUME IInv, IInv', LogInv, [Next]_vars PROVE LogInv'
  OBVIOUS
<1>1. ASSUME NEW s \in Subs, Subscribe(s) \/ Unsubscribe(s) PROVE LogInv'
  BY <1>1, LogSubscriptions
<1>2. ASSUME NEW e \in Events, (\E n \in Instances : Emit(e, n)) \/ ListActive(e) \/ InsertMany(e) PROVE LogInv'
  BY <1>2, LogFanOut
<1>3. ASSUME NEW n \in Instances, DrainStep(n) \/ RecordFails(n) \/ Crash(n) PROVE LogInv'
  BY <1>3, LogKeepsRows, LogClaimDue, LogAbandon, LogSend, LogAnswer, LogRecordResult, LogRecordFails DEF DrainStep
<1>4. CASE Tick \/ \E d \in Deliveries : Retry(d)
  BY <1>4, LogRowsAge
<1>5. CASE LoseSession \/ ChangeKey
  BY <1>5, LogKeepsRows
<1>6. CASE UNCHANGED vars
  BY <1>6 DEF vars, LogInv, LogTyped, LogIsTrue, RowLogged, ClaimLogged, PostLogged, Sent, Sealed, Present
<1>7. QED
  BY <1>1, <1>2, <1>3, <1>4, <1>5, <1>6 DEF Next

(* What the log of deliveries says is so: who is recorded as delivered took   *)
(* the event, and who is exhausted was sent every attempt of the schedule or   *)
(* has no readable secret.                                                     *)
THEOREM LogTellsTheTruth == Spec => []LogIsTrue
<1>1. LogInv => LogIsTrue
  BY DEF LogInv
<1>2. QED
  BY <1>1, InitLogInv, LogInductive, LeasesOutlastBatches, PTL DEF Spec

-----------------------------------------------------------------------------
(* The schedule.  An attempt beyond it needs a retry by an admin, so what a   *)
(* row, a claim or a POST counts is bounded by the schedule and the retries.  *)
RowFits(r, k) ==
  /\ r.wait <= MaxWait /\ r.attempts <= MaxAttempts + k
  /\ r.st \in Claimable => r.attempts <= Len(Backoff) + k
Scheduled(attempts, k) == attempts <= MaxAttempts + k

BoundInv ==
  /\ rearmed \subseteq Deliveries /\ faults \in 0..MaxFaults /\ retries \in 0..MaxRetries
  /\ \A d \in Deliveries : RowFits(row[d], retries)
  /\ \A n \in Instances : /\ \A a \in job[n].batch : Scheduled(a.attempts, retries)
                          /\ job[n].post # NoPost => Scheduled(job[n].post.attempts, retries)

(* A finite set of naturals has a greatest element: the one with the fewest   *)
(* above it.                                                                  *)
LEMMA GreatestNat ==
  ASSUME NEW S \in SUBSET Nat, IsFiniteSet(S), S # {}
  PROVE  \E m \in S : \A x \in S : m >= x
<1> DEFINE Above(y) == {x \in S : x > y}
           Counts   == {Cardinality(Above(y)) : y \in S}
<1>1. \A y \in S : IsFiniteSet(Above(y)) /\ Cardinality(Above(y)) \in Nat
  BY FS_Subset, FS_CardinalityType
<1>2. Counts \in SUBSET Nat /\ Counts # {}
  BY <1>1
<1>3. PICK c \in Counts : \A k \in Counts : ~(<<k, c>> \in OpToRel(<, Nat))
  BY <1>2, NatLessThanWellFounded, WFMin
<1>4. PICK m \in S : c = Cardinality(Above(m))
  BY <1>3
<1>5. ASSUME NEW x \in S, x > m PROVE FALSE
  <2>1. Above(x) \subseteq Above(m) /\ x \in Above(m) \ Above(x)
    <3>1. \A z \in S : z \in Nat
      OBVIOUS
    <3>2. \A z \in Above(x) : z > m
      BY <1>5, <3>1
    <3>3. ~(x > x)
      BY <3>1
    <3>4. QED
      BY <1>5, <3>2, <3>3
  <2>2. IsFiniteSet(Above(m)) /\ Above(x) \in SUBSET Above(m) /\ Above(x) # Above(m)
    BY <1>1, <2>1
  <2>3. Cardinality(Above(x)) <= Cardinality(Above(m)) /\ Cardinality(Above(x)) # Cardinality(Above(m))
    BY <2>2, FS_Subset, Zenon
  <2>4. PICK k : k = Cardinality(Above(x))
    OBVIOUS
  <2>5. k \in Nat /\ c \in Nat /\ k \in Counts
    BY <1>1, <1>4, <2>4
  <2>6. k <= c /\ k # c
    BY <1>4, <2>3, <2>4
  <2> HIDE DEF Above, Counts
  <2>7. k < c
    BY <2>5, <2>6
  <2>8. QED
    BY <1>3, <2>5, <2>7 DEF OpToRel
<1>6. QED
  BY <1>5

LEMMA WaitsBounded ==
  /\ MaxWait \in Nat /\ Lease <= MaxWait
  /\ \A i \in 1..Len(Backoff) : Backoff[i] \in Nat /\ Backoff[i] <= MaxWait
<1> DEFINE Waits == {Backoff[i] : i \in 1..Len(Backoff)}
           S     == {Lease} \cup Waits
<1>1. Len(Backoff) \in Nat /\ \A i \in 1..Len(Backoff) : Backoff[i] \in Nat
  BY WebhookAssumption DEF WebhookAssumption
<1>2. IsFiniteSet(Waits)
  <2> DEFINE f == [i \in 1..Len(Backoff) |-> Backoff[i]]
  <2>1. f \in Surjection(1..Len(Backoff), Waits)
    BY DEF Surjection
  <2>2. QED
    BY <1>1, <2>1, FS_Surjection, FS_Interval
<1>3. IsFiniteSet(S)
  BY <1>2, FS_AddElement
<1>4. S \in SUBSET Nat /\ S # {}
  BY <1>1, Numbers
<1>5. \E m \in S : \A x \in S : m >= x
  BY <1>3, <1>4, GreatestNat
<1>6. MaxWait \in S /\ \A x \in S : MaxWait >= x
  BY <1>5 DEF MaxWait, Max
<1>7. QED
  BY <1>1, <1>4, <1>6, Numbers

LEMMA InitBound == Init => BoundInv
<1> SUFFICES ASSUME Init PROVE BoundInv
  OBVIOUS
<1>1. \A d \in Deliveries : row[d].st = "absent" /\ row[d].attempts = 0 /\ row[d].wait = 0
  BY DEF Init, NoRow
<1>2. \A n \in Instances : job[n].batch = {} /\ job[n].post = NoPost
  BY DEF Init, Idle
<1>3. rearmed = {} /\ faults = 0 /\ retries = 0
  BY DEF Init
<1>4. MaxFaults \in Nat /\ MaxRetries \in Nat
  BY WebhookAssumption DEF WebhookAssumption
<1>5. \A d \in Deliveries : RowFits(row[d], retries)
  BY <1>1, <1>3, WaitsBounded, MaxAttemptsIs DEF RowFits
<1>6. QED
  BY <1>2, <1>3, <1>4, <1>5 DEF BoundInv

(* What is left as it was still fits: retries only go up.                      *)
LEMMA BoundStep ==
  ASSUME IInv, IInv', BoundInv, rearmed' \subseteq Deliveries, faults' \in 0..MaxFaults,
         retries' \in 0..MaxRetries, retries <= retries',
         \A d \in Deliveries : row'[d] = row[d] \/ RowFits(row'[d], retries'),
         \A n \in Instances : \A a \in job'[n].batch :
           a \in job[n].batch \/ Scheduled(a.attempts, retries'),
         \A n \in Instances : job'[n].post # NoPost =>
           \/ job[n].post # NoPost /\ job'[n].post.attempts = job[n].post.attempts
           \/ Scheduled(job'[n].post.attempts, retries')
  PROVE  BoundInv'
<1>1. retries \in Int /\ retries' \in Int /\ MaxAttempts \in Int /\ Len(Backoff) \in Int
  BY MaxAttemptsIs, WebhookAssumption DEF BoundInv, WebhookAssumption
<1>2. \A d \in Deliveries : row[d].attempts \in Int /\ RowFits(row[d], retries)
  BY DEF IInv, Typed, Rows, BoundInv
<1>3. \A d \in Deliveries : RowFits(row[d], retries)'
  BY <1>1, <1>2 DEF RowFits
<1>4. \A n \in Instances : /\ \A a \in job[n].batch : a.attempts \in Int
                           /\ job[n].post # NoPost => job[n].post.attempts \in Int
  BY DEF IInv, Typed, Jobs, Claims, Posts
<1>5. \A n \in Instances : \A a \in job'[n].batch : Scheduled(a.attempts, retries')
  BY <1>1, <1>4 DEF BoundInv, Scheduled
<1>6. \A n \in Instances : job'[n].post # NoPost => Scheduled(job'[n].post.attempts, retries')
  BY <1>1, <1>4 DEF BoundInv, Scheduled
<1>7. QED
  BY <1>3, <1>5, <1>6 DEF BoundInv

(* Every step counts its fault or its retry, if it is one.                    *)
LEMMA Counters ==
  ASSUME BoundInv, Next
  PROVE  /\ rearmed' \subseteq Deliveries /\ faults' \in 0..MaxFaults
         /\ retries' \in 0..MaxRetries /\ retries <= retries'
<1>1. MaxFaults \in Nat /\ MaxRetries \in Nat /\ faults \in 0..MaxFaults /\ retries \in 0..MaxRetries /\ rearmed \subseteq Deliveries
  BY WebhookAssumption DEF WebhookAssumption, BoundInv
<1>2. ASSUME NEW s \in Subs, Subscribe(s) \/ Unsubscribe(s)
      PROVE  rearmed' \subseteq rearmed /\ UNCHANGED <<faults, retries>>
  BY <1>2 DEF Subscribe, Unsubscribe
<1>3. ASSUME NEW e \in Events, (\E n \in Instances : Emit(e, n)) \/ ListActive(e) \/ InsertMany(e)
      PROVE  UNCHANGED <<rearmed, faults, retries>>
  BY <1>3 DEF Emit, ListActive, InsertMany
<1>4. ASSUME NEW n \in Instances, DrainStep(n) PROVE UNCHANGED <<rearmed, faults, retries>>
  BY <1>4 DEF DrainStep, TryDrainLock, ClaimDue, Abandon, Send, Answer, RecordResult, Release
<1>5. ASSUME NEW n \in Instances, RecordFails(n) \/ Crash(n)
      PROVE  UNCHANGED <<rearmed, retries>> /\ faults < MaxFaults /\ faults' = faults + 1
  BY <1>5 DEF RecordFails, Crash
<1>6. ASSUME NEW d \in Deliveries, Retry(d)
      PROVE  rearmed' \subseteq rearmed \cup {d} /\ retries < MaxRetries /\ retries' = retries + 1 /\ faults' = faults
  BY <1>6 DEF Retry
<1>7. ASSUME LoseSession \/ ChangeKey
      PROVE  UNCHANGED <<rearmed, retries>> /\ faults < MaxFaults /\ faults' = faults + 1
  BY <1>7 DEF LoseSession, ChangeKey
<1>8. ASSUME Tick PROVE UNCHANGED <<rearmed, faults, retries>>
  BY <1>8 DEF Tick
<1>9. QED
  BY <1>1, <1>2, <1>3, <1>4, <1>5, <1>6, <1>7, <1>8 DEF Next

(* A result fits when what it records does. *)
LEMMA RecordedFits ==
  ASSUME IInv, NEW d \in Deliveries, NEW attempts, NEW wait, NEW st, NEW k,
         RowFits([st |-> st, attempts |-> attempts, wait |-> wait], k)
  PROVE  \A e \in Deliveries : Recorded(d, st, attempts, wait)[e] = row[e] \/ RowFits(Recorded(d, st, attempts, wait)[e], k)
<1>1. row \in [Deliveries -> Rows]
  BY DEF IInv, Typed
<1>2. CASE row[d].st = "absent"
  BY <1>2 DEF Recorded
<1>3. CASE row[d].st # "absent"
  <2>1. Recorded(d, st, attempts, wait) = [row EXCEPT ![d] = [st |-> st, attempts |-> attempts, wait |-> wait]]
    BY <1>3 DEF Recorded
  <2>2. QED
    BY <1>1, <2>1
<1>4. QED
  BY <1>2, <1>3

LEMMA OutcomeFits ==
  ASSUME IInv, BoundInv, NEW p \in Posts, Scheduled(p.attempts, retries)
  PROVE  \A e \in Deliveries : Outcome(p)[e] = row[e] \/ RowFits(Outcome(p)[e], retries)
<1>1. p.d \in Deliveries /\ p.attempts \in Nat \ {0} /\ p.attempts <= MaxAttempts + retries /\ retries \in Nat
  BY WebhookAssumption DEF Posts, Scheduled, BoundInv, WebhookAssumption
<1>2. MaxWait \in Nat /\ 0 <= MaxWait
  BY WaitsBounded
<1>3. CASE p.res = "ok"
  <2>1. RowFits([st |-> "delivered", attempts |-> p.attempts, wait |-> 0], retries)
    BY <1>1, <1>2 DEF RowFits, Claimable
  <2>2. Outcome(p) = Recorded(p.d, "delivered", p.attempts, 0)
    BY <1>3 DEF Outcome
  <2>3. QED
    BY <1>1, <2>1, <2>2, RecordedFits
<1>4. CASE p.res # "ok" /\ RunOut(p.attempts)
  <2>1. RowFits([st |-> "exhausted", attempts |-> p.attempts, wait |-> 0], retries)
    BY <1>1, <1>2 DEF RowFits, Claimable
  <2>2. Outcome(p) = Recorded(p.d, "exhausted", p.attempts, 0)
    BY <1>4 DEF Outcome
  <2>3. QED
    BY <1>1, <2>1, <2>2, RecordedFits
<1>5. CASE p.res # "ok" /\ ~RunOut(p.attempts)
  <2>1. p.attempts <= Len(Backoff)
    BY <1>1, <1>5, MaxAttemptsIs DEF RunOut
  <2>2. Backoff[p.attempts] <= MaxWait /\ p.attempts <= Len(Backoff) + retries
    BY <1>1, <2>1, WaitsBounded, MaxAttemptsIs
  <2>3. RowFits([st |-> "failed", attempts |-> p.attempts, wait |-> Backoff[p.attempts]], retries)
    BY <1>1, <2>2 DEF RowFits
  <2>4. Outcome(p) = Recorded(p.d, "failed", p.attempts, Backoff[p.attempts])
    BY <1>5 DEF Outcome
  <2>5. QED
    BY <1>1, <2>3, <2>4, RecordedFits
<1>6. QED
  BY <1>3, <1>4, <1>5

(* The drain. *)
LEMMA ClaimFits ==
  ASSUME IInv, BoundInv, NEW n \in Instances, ClaimDue(n)
  PROVE  /\ \A d \in Deliveries : row'[d] = row[d] \/ RowFits(row'[d], retries)
         /\ \A m \in Instances : \A a \in job'[m].batch : a \in job[m].batch \/ Scheduled(a.attempts, retries)
         /\ \A m \in Instances : job'[m].post # NoPost => job[m].post # NoPost /\ job'[m].post = job[m].post
<1>1. PICK b \in kSubset(Min({Limit, Cardinality(Due)}), Due) :
        /\ row' = [d \in Deliveries |-> IF d \in b THEN [row[d] EXCEPT !.wait = Lease] ELSE row[d]]
        /\ job' = [job EXCEPT ![n] =
             [at |-> "draining", post |-> NoPost, spare |-> Work,
              batch |-> {[d |-> d, attempts |-> row[d].attempts + 1] : d \in b}]]
  BY DEF ClaimDue
<1>2. b \subseteq Due /\ Due \subseteq Deliveries
  BY DEF kSubset, Due
<1>3. row \in [Deliveries -> Rows] /\ job \in [Instances -> Jobs]
  BY DEF IInv, Typed
<1>4. \A d \in Deliveries : row[d] \in Rows /\ row[d].attempts \in Nat
  BY <1>3 DEF Rows
<1>5. retries \in Nat /\ Len(Backoff) \in Nat /\ MaxAttempts = Len(Backoff) + 1
  BY MaxAttemptsIs, WebhookAssumption DEF BoundInv, WebhookAssumption
<1>6. ASSUME NEW d \in Deliveries PROVE row'[d] = row[d] \/ RowFits(row'[d], retries)
  <2>1. CASE d \in b
    <3>1. row'[d] = [row[d] EXCEPT !.wait = Lease]
      BY <1>1, <2>1
    <3>2. row'[d].wait = Lease /\ row'[d].st = row[d].st /\ row'[d].attempts = row[d].attempts
      BY <1>4, <3>1 DEF Rows
    <3>3. RowFits(row[d], retries)
      BY DEF BoundInv
    <3>4. QED
      BY <3>2, <3>3, WaitsBounded DEF RowFits
  <2>2. QED
    BY <1>1, <2>1
<1>7. \A d \in b : Scheduled(row[d].attempts + 1, retries)
  <2>1. TAKE d \in b
  <2>2. row[d].st \in Claimable /\ d \in Deliveries
    BY <1>2 DEF Due
  <2>3. row[d].attempts <= Len(Backoff) + retries
    BY <2>2 DEF BoundInv, RowFits
  <2>4. QED
    BY <1>4, <1>5, <2>2, <2>3 DEF Scheduled
<1>8. job'[n].post = NoPost /\ job'[n].batch = {[d |-> d, attempts |-> row[d].attempts + 1] : d \in b}
  BY <1>1, <1>3
<1>9. \A m \in Instances \ {n} : job'[m] = job[m]
  BY <1>1, <1>3
<1>10. \A a \in job'[n].batch : Scheduled(a.attempts, retries)
  <2>1. TAKE a \in job'[n].batch
  <2>2. PICK d \in b : a = [d |-> d, attempts |-> row[d].attempts + 1]
    BY <1>8
  <2>3. a.attempts = row[d].attempts + 1
    BY <2>2
  <2>4. QED
    BY <1>7, <2>3
<1>11. QED
  BY <1>6, <1>8, <1>9, <1>10

LEMMA AbandonFits ==
  ASSUME IInv, BoundInv, NEW n \in Instances, Abandon(n)
  PROVE  /\ \A d \in Deliveries : row'[d] = row[d] \/ RowFits(row'[d], retries)
         /\ \A m \in Instances : job'[m].batch \subseteq job[m].batch /\ job'[m].post = job[m].post
<1>1. PICK a \in job[n].batch : /\ row' = Recorded(a.d, "exhausted", a.attempts, 0)
                                /\ job' = [job EXCEPT ![n].batch = @ \ {a}]
  BY DEF Abandon
<1>2. job \in [Instances -> Jobs]
  BY DEF IInv, Typed
<1>3. job[n].batch \subseteq Claims
  BY <1>2 DEF Jobs
<1>4. a.d \in Deliveries /\ a.attempts \in Nat /\ Scheduled(a.attempts, retries)
  BY <1>3 DEF Claims, BoundInv
<1>5. RowFits([st |-> "exhausted", attempts |-> a.attempts, wait |-> 0], retries)
  BY <1>4, WaitsBounded DEF RowFits, Scheduled, Claimable
<1>6. \A d \in Deliveries : row'[d] = row[d] \/ RowFits(row'[d], retries)
  BY <1>1, <1>4, <1>5, RecordedFits
<1>7. \A m \in Instances : job'[m].batch \subseteq job[m].batch /\ job'[m].post = job[m].post
  BY <1>1, <1>2 DEF Jobs
<1>8. QED
  BY <1>6, <1>7

LEMMA PostFits ==
  ASSUME IInv, BoundInv, NEW n \in Instances,
         Send(n) \/ Answer(n) \/ RecordResult(n) \/ TryDrainLock(n) \/ Release(n) \/ RecordFails(n) \/ Crash(n)
  PROVE  /\ \A d \in Deliveries : row'[d] = row[d] \/ RowFits(row'[d], retries)
         /\ \A m \in Instances : job'[m].batch \subseteq job[m].batch
         /\ \A m \in Instances : job'[m].post # NoPost =>
              \/ job[m].post # NoPost /\ job'[m].post.attempts = job[m].post.attempts
              \/ Scheduled(job'[m].post.attempts, retries)
<1>1. job \in [Instances -> Jobs] /\ job[n] \in Jobs
  BY DEF IInv, Typed
<1>2. job[n].batch \subseteq Claims /\ job[n].post \in Posts \cup {NoPost}
  BY <1>1 DEF Jobs
<1>3. CASE Send(n)
  <2>1. PICK a \in job[n].batch :
          job' = [job EXCEPT ![n].batch = @ \ {a},
                    ![n].post = [d |-> a.d, attempts |-> a.attempts, age |-> 0, res |-> "flying"]]
    BY <1>3 DEF Send
  <2>2. Scheduled(a.attempts, retries)
    BY DEF BoundInv
  <2>3. /\ job'[n].post = [d |-> a.d, attempts |-> a.attempts, age |-> 0, res |-> "flying"]
        /\ job'[n].batch = job[n].batch \ {a}
        /\ \A m \in Instances \ {n} : job'[m] = job[m]
    BY <1>1, <2>1 DEF Jobs
  <2>4. row' = row
    BY <1>3 DEF Send
  <2>5. job'[n].post.attempts = a.attempts
    BY <2>3
  <2>6. QED
    BY <2>2, <2>3, <2>4, <2>5
<1>4. CASE Answer(n)
  <2>1. PICK heard \in BOOLEAN : job' = [job EXCEPT ![n].post.res = IF heard THEN "ok" ELSE "bad"]
    BY <1>4 DEF Answer
  <2>2. job[n].post \in Posts /\ job[n].post # NoPost
    <3>1. job[n].post.res = "flying" /\ NoPost.res # "flying"
      BY <1>4 DEF Answer, NoPost
    <3>2. QED
      BY <1>2, <3>1
  <2>3. job'[n].post.attempts = job[n].post.attempts /\ job'[n].batch = job[n].batch
    BY <1>1, <2>1, <2>2 DEF Jobs, Posts
  <2>4. row' = row /\ \A m \in Instances \ {n} : job'[m] = job[m]
    BY <1>1, <1>4, <2>1 DEF Answer
  <2>5. QED
    BY <2>2, <2>3, <2>4
<1>5. CASE RecordResult(n)
  <2>1. job[n].post \in Posts /\ job[n].post # NoPost
    BY <1>2, <1>5 DEF RecordResult, NoPost
  <2>2. Scheduled(job[n].post.attempts, retries)
    BY <2>1 DEF BoundInv
  <2>3. PICK p : p = job[n].post
    OBVIOUS
  <2>4. p \in Posts /\ Scheduled(p.attempts, retries) /\ row' = Outcome(p)
    BY <1>5, <2>1, <2>2, <2>3 DEF RecordResult
  <2>5. \A d \in Deliveries : row'[d] = row[d] \/ RowFits(row'[d], retries)
    BY <2>4, OutcomeFits
  <2>6. /\ job'[n].post = NoPost /\ job'[n].batch = job[n].batch
        /\ \A m \in Instances \ {n} : job'[m] = job[m]
    BY <1>1, <1>5 DEF RecordResult, Jobs
  <2>7. QED
    BY <2>5, <2>6
<1>6. CASE TryDrainLock(n)
  <2>1. row' = row /\ job' = [job EXCEPT ![n].at = "locked"]
    BY <1>6 DEF TryDrainLock
  <2>2. \A m \in Instances : job'[m].batch = job[m].batch /\ job'[m].post = job[m].post
    BY <1>1, <2>1 DEF Jobs
  <2>3. QED
    BY <2>1, <2>2
<1>7. CASE row' = row /\ job' = [job EXCEPT ![n] = Idle]
  <2>1. job'[n].batch = {} /\ job'[n].post = NoPost /\ \A m \in Instances \ {n} : job'[m] = job[m]
    BY <1>1, <1>7 DEF Idle
  <2>2. QED
    BY <1>7, <2>1
<1>8. CASE row' = row /\ job[n].post.res = "ok" /\ job' = [job EXCEPT ![n].post.res = "bad"]
  <2>1. job[n].post \in Posts /\ job[n].post # NoPost
    BY <1>2, <1>8 DEF NoPost
  <2>2. job'[n].post.attempts = job[n].post.attempts /\ job'[n].batch = job[n].batch
    BY <1>1, <1>8, <2>1 DEF Jobs, Posts
  <2>3. \A m \in Instances \ {n} : job'[m] = job[m]
    BY <1>1, <1>8
  <2>4. QED
    BY <1>8, <2>1, <2>2, <2>3
<1>9. QED
  BY <1>3, <1>4, <1>5, <1>6, <1>7, <1>8 DEF Release, RecordFails, Crash

(* Time, the admin, and the subscriptions. *)
LEMMA TickFits ==
  ASSUME IInv, BoundInv, Tick
  PROVE  /\ \A d \in Deliveries : row'[d] = row[d] \/ RowFits(row'[d], retries)
         /\ \A n \in Instances : job'[n].batch = job[n].batch
         /\ \A n \in Instances : job'[n].post # NoPost => job[n].post # NoPost /\ job'[n].post.attempts = job[n].post.attempts
<1>1. ASSUME NEW d \in Deliveries PROVE RowFits(row'[d], retries)
  <2>1. row[d] \in Rows
    BY DEF IInv, Typed
  <2>2. row'[d] = [row[d] EXCEPT !.wait = IF @ = 0 THEN 0 ELSE @ - 1]
    BY DEF Tick
  <2>3. /\ row'[d].st = row[d].st /\ row'[d].attempts = row[d].attempts
        /\ row[d].wait \in Nat /\ row'[d].wait = IF row[d].wait = 0 THEN 0 ELSE row[d].wait - 1
    BY <2>1, <2>2 DEF Rows
  <2>4. RowFits(row[d], retries)
    BY DEF BoundInv
  <2>5. row'[d].wait <= MaxWait
    BY <2>3, <2>4, WaitsBounded DEF RowFits
  <2>6. QED
    BY <2>3, <2>4, <2>5 DEF RowFits
<1>2. ASSUME NEW n \in Instances
      PROVE  /\ job'[n].batch = job[n].batch
             /\ job'[n].post # NoPost => job[n].post # NoPost /\ job'[n].post.attempts = job[n].post.attempts
  <2>1. job[n] \in Jobs /\ job'[n] = Ticked(job[n])
    BY DEF IInv, Typed, Tick
  <2>2. CASE Sending(job[n])
    <3>1. job'[n] = [job[n] EXCEPT !.post.age = @ + 1]
      BY <2>1, <2>2 DEF Ticked
    <3>2. job[n].post \in Posts /\ job[n].post # NoPost
      BY <2>1, <2>2 DEF Sending, Jobs, NoPost
    <3>3. job'[n].post = [job[n].post EXCEPT !.age = @ + 1] /\ job'[n].batch = job[n].batch
      BY <2>1, <3>1 DEF Jobs
    <3>4. QED
      BY <3>2, <3>3 DEF Posts
  <2>3. CASE ~Sending(job[n])
    <3>1. job'[n].post = job[n].post /\ job'[n].batch = job[n].batch
      BY <2>1, <2>3 DEF Ticked, Jobs
    <3>2. QED
      BY <3>1
  <2>4. QED
    BY <2>2, <2>3
<1>3. QED
  BY <1>1, <1>2

LEMMA RetryFits ==
  ASSUME IInv, BoundInv, NEW d \in Deliveries, Retry(d)
  PROVE  \A e \in Deliveries : row'[e] = row[e] \/ RowFits(row'[e], retries')
<1>1. row \in [Deliveries -> Rows] /\ row[d] \in Rows
  BY DEF IInv, Typed
<1>2. row' = [row EXCEPT ![d].st = "pending", ![d].wait = 0] /\ retries' = retries + 1
  BY DEF Retry
<1>3. row'[d].attempts = row[d].attempts /\ row'[d].wait = 0
  BY <1>1, <1>2 DEF Rows
<1>4. \A e \in Deliveries \ {d} : row'[e] = row[e]
  BY <1>1, <1>2
<1>5. retries \in Nat /\ row[d].attempts \in Nat /\ row[d].attempts <= MaxAttempts + retries
  BY <1>1, WebhookAssumption DEF BoundInv, WebhookAssumption, RowFits, Rows
<1>6. RowFits(row'[d], retries')
  BY <1>2, <1>3, <1>5, WaitsBounded, MaxAttemptsIs DEF RowFits
<1>7. QED
  BY <1>4, <1>6

LEMMA OthersFit ==
  ASSUME IInv, BoundInv,
         \/ \E s \in Subs : Subscribe(s) \/ Unsubscribe(s)
         \/ \E e \in Events : (\E n \in Instances : Emit(e, n)) \/ ListActive(e) \/ InsertMany(e)
         \/ LoseSession \/ ChangeKey
  PROVE  /\ \A d \in Deliveries : row'[d] = row[d] \/ RowFits(row'[d], retries)
         /\ \A n \in Instances : job'[n] = job[n] \/ (job'[n].batch = {} /\ job'[n].post = NoPost)
<1>1. retries \in Nat /\ MaxAttempts \in Nat /\ Len(Backoff) \in Nat
  BY WebhookAssumption, MaxAttemptsIs DEF BoundInv, WebhookAssumption
<1>2. RowFits(NoRow, retries) /\ RowFits(Queued, retries)
  BY <1>1, WaitsBounded DEF RowFits, NoRow, Queued
<1>3. ASSUME NEW s \in Subs, Subscribe(s) \/ Unsubscribe(s)
      PROVE  job' = job /\ \A d \in Deliveries : row'[d] = row[d] \/ row'[d] = NoRow
  BY <1>3 DEF Subscribe, Unsubscribe, CascadeTo
<1>4. ASSUME NEW e \in Events, (\E n \in Instances : Emit(e, n)) \/ ListActive(e) \/ InsertMany(e)
      PROVE  job' = job /\ \A d \in Deliveries : row'[d] = row[d] \/ row'[d] = Queued
  BY <1>4 DEF Emit, ListActive, InsertMany
<1>5. ASSUME LoseSession \/ ChangeKey
      PROVE  row' = row /\ \A n \in Instances : job'[n] = job[n] \/ job'[n] = Idle
  BY <1>5 DEF LoseSession, ChangeKey
<1>6. Idle.batch = {} /\ Idle.post = NoPost
  BY DEF Idle
<1>7. QED
  BY <1>2, <1>3, <1>4, <1>5, <1>6

LEMMA BoundInductive == IInv /\ IInv' /\ BoundInv /\ [Next]_vars => BoundInv'
<1> SUFFICES ASSUME IInv, IInv', BoundInv, [Next]_vars PROVE BoundInv'
  OBVIOUS
<1>1. CASE UNCHANGED vars
  BY <1>1 DEF vars, BoundInv
<1>2. ASSUME Next PROVE BoundInv'
  <2>1. /\ rearmed' \subseteq Deliveries /\ faults' \in 0..MaxFaults
        /\ retries' \in 0..MaxRetries /\ retries <= retries'
    BY <1>2, Counters
  <2>2. ASSUME NEW n \in Instances, ClaimDue(n) PROVE BoundInv'
    BY <2>1, <2>2, ClaimFits, BoundStep DEF ClaimDue
  <2>3. ASSUME NEW n \in Instances, Abandon(n) PROVE BoundInv'
    BY <2>1, <2>3, AbandonFits, BoundStep DEF Abandon
  <2>4. ASSUME NEW n \in Instances,
               Send(n) \/ Answer(n) \/ RecordResult(n) \/ TryDrainLock(n) \/ Release(n) \/ RecordFails(n) \/ Crash(n)
        PROVE  BoundInv'
    <3>1. retries' = retries
      BY <2>4 DEF Send, Answer, RecordResult, TryDrainLock, Release, RecordFails, Crash
    <3>2. QED
      BY <2>1, <2>4, <3>1, PostFits, BoundStep
  <2>5. ASSUME Tick PROVE BoundInv'
    BY <2>1, <2>5, TickFits, BoundStep DEF Tick
  <2>6. ASSUME NEW d \in Deliveries, Retry(d) PROVE BoundInv'
    BY <2>1, <2>6, RetryFits, BoundStep DEF Retry
  <2>7. ASSUME \/ \E s \in Subs : Subscribe(s) \/ Unsubscribe(s)
               \/ \E e \in Events : (\E n \in Instances : Emit(e, n)) \/ ListActive(e) \/ InsertMany(e)
               \/ LoseSession \/ ChangeKey
        PROVE  BoundInv'
    <3>1. retries' = retries
      BY <2>7 DEF Subscribe, Unsubscribe, Emit, ListActive, InsertMany, LoseSession, ChangeKey
    <3>2. QED
      BY <2>1, <2>7, <3>1, OthersFit, BoundStep
  <2>8. QED
    BY <1>2, <2>2, <2>3, <2>4, <2>5, <2>6, <2>7 DEF Next, DrainStep
<1>3. QED
  BY <1>1, <1>2

(* The schedule is kept: a row counts no attempt and waits no longer than the  *)
(* schedule, the lease and the admins' retries allow, for any backoff, any     *)
(* number of instances and however two drains overlap.                        *)
THEOREM WebhooksTyped == Spec => []TypeOK
<1>1. IInv /\ LogInv /\ BoundInv => TypeOK
  <2> SUFFICES ASSUME IInv, LogInv, BoundInv PROVE TypeOK
    OBVIOUS
  <2>1. retries \in Nat /\ retries <= MaxRetries /\ MaxRetries \in Nat /\ MaxAttempts \in Nat
    BY WebhookAssumption, MaxAttemptsIs DEF BoundInv, WebhookAssumption
  <2>2. ASSUME NEW d \in Deliveries PROVE row[d] \in Row
    <3>1. row[d] \in Rows /\ RowFits(row[d], retries)
      BY DEF IInv, Typed, BoundInv
    <3>2. PICK r : r = row[d]
      OBVIOUS
    <3>3. r \in Rows /\ r.wait \in 0..MaxWait /\ r.attempts \in 0..(MaxAttempts + MaxRetries)
      BY <2>1, <3>1, <3>2, WaitsBounded DEF Rows, RowFits
    <3>4. QED
      BY <3>2, <3>3 DEF Rows, Row
  <2>3. row \in [Deliveries -> Row]
    BY <2>2 DEF IInv, Typed
  <2>4. ASSUME NEW n \in Instances
        PROVE  /\ job[n].at \in {"idle", "locked", "draining"} /\ job[n].batch \subseteq Attempt
               /\ job[n].post \in Post \cup {NoPost} /\ job[n].spare \in 0..Work
    <3>1. PICK j : j = job[n]
      OBVIOUS
    <3>2. j \in Jobs /\ (\A a \in j.batch : Scheduled(a.attempts, retries)) /\ (j.post # NoPost => Scheduled(j.post.attempts, retries))
      BY <3>1 DEF IInv, Typed, BoundInv
    <3>3. \A a \in j.batch : a \in Attempt
      <4>1. TAKE a \in j.batch
      <4>2. a \in Claims /\ a.attempts <= MaxAttempts + retries
        BY <3>2 DEF Jobs, Scheduled
      <4>3. a.attempts \in 1..(MaxAttempts + MaxRetries)
        BY <2>1, <4>2 DEF Claims
      <4>4. QED
        BY <4>2, <4>3 DEF Claims, Attempt
    <3>4. ASSUME j.post # NoPost PROVE j.post \in Post
      <4>1. PICK p : p = j.post
        OBVIOUS
      <4>2. p \in Posts /\ p.attempts <= MaxAttempts + retries
        BY <3>2, <3>4, <4>1 DEF Jobs, Scheduled
      <4>3. p.attempts \in 1..(MaxAttempts + MaxRetries)
        BY <2>1, <4>2 DEF Posts
      <4>4. QED
        BY <4>1, <4>2, <4>3 DEF Posts, Post
    <3>5. j.at \in {"idle", "locked", "draining"} /\ j.spare \in 0..Work
      BY <3>2 DEF Jobs
    <3>6. QED
      BY <3>1, <3>3, <3>4, <3>5
  <2>5. sub \in [Subs -> SubState] /\ receiver \in [Deliveries -> [posts: 0..MaxAttempts, accepted: BOOLEAN]]
    BY DEF LogInv, LogTyped, Seen
  <2>6. fan \in [Events -> Fan] /\ lock \in Instances \cup {Nobody} /\ severed \in BOOLEAN
    BY DEF IInv, Typed, Fans, Fan
  <2>7. rearmed \subseteq Deliveries /\ faults \in 0..MaxFaults /\ retries \in 0..MaxRetries
    BY DEF BoundInv
  <2>8. QED
    BY <2>3, <2>4, <2>5, <2>6, <2>7 DEF TypeOK
<1>2. QED
  BY <1>1, InitLogInv, LogInductive, InitBound, BoundInductive, LeasesOutlastBatches, PTL DEF Spec

=============================================================================
