---------------------------- MODULE InvoicesProofs ----------------------------
(***************************************************************************)
(* Invoices.tla for every number of orders, issuers, refunds and faults: the *)
(* numbers of a series have no gap, and notes correct the invoice they name. *)
(*                                                                          *)
(* Who has read the counter has its lock until the document commits, so the *)
(* number it carries stays the first free one (WorkOK) whatever rolls back  *)
(* elsewhere; and a refund that has resolved its invoice may rely on it,    *)
(* because invoices are never deleted and an order never gets a second one. *)
(***************************************************************************)
EXTENDS Invoices, FiniteSetTheorems, TLAPS

Of(s)   == {d \in docs : d.series = s}
Last(s) == IF next[s] = 0 THEN 0 ELSE next[s] - 1

Numbered == \A s \in Series : {d.number : d \in Of(s)} = 1..Last(s) /\ Cardinality(Of(s)) = Last(s)

OneInvoice == \A d, e \in docs : d.series = "STD" /\ e.series = "STD" /\ d.order = e.order => d = e

BooksInv == IsFiniteSet(docs) /\ Numbered /\ OneInvoice /\ NotesCorrect

(* What a refund has resolved: its order's invoice, or a failure to issue it. *)
Original(r) == IF work[r].original = 0 THEN r \in failed
               ELSE \E d \in InvoicesOf(work[r].order) : d.number = work[r].original

WorkOK(p) ==
  /\ work[p].at # "idle" => work[p].order \in Orders
  /\ p \in Refunds /\ stage[p] = "pending" => work[p].order \in Orders
  /\ work[p].at \in {"insert", "commit"} =>
       held[work[p].series] = p /\ work[p].number = FirstNumber(work[p].series)
  /\ work[p].at = "commit" /\ work[p].series = "STD" => InvoicesOf(work[p].order) = {}
  /\ work[p].at \in {"counter", "first", "insert", "commit"} /\ work[p].series = "CN" =>
       p \in Refunds /\ Original(p)
  /\ p \in Refunds /\ work[p].at \in {"lock", "locked"} /\ stage[p] = "new" => Original(p)

HeldInv == \A s \in Series : held[s] # Nobody => work[held[s]].series = s

IInv == TypeOK /\ BooksInv /\ HeldInv /\ (\A p \in Processes : WorkOK(p))

-----------------------------------------------------------------------------
LEMMA InvoiceIs ==
  ASSUME docs \subseteq Doc, NEW o
  PROVE  /\ Invoice(o) \in Nat
         /\ Invoice(o) = 0 <=> InvoicesOf(o) = {}
         /\ Invoice(o) # 0 => \E d \in InvoicesOf(o) : d.number = Invoice(o)
<1>1. CASE InvoicesOf(o) = {}
  BY <1>1 DEF Invoice
<1>2. CASE InvoicesOf(o) # {}
  <2>1. PICK d \in InvoicesOf(o) : d = CHOOSE e \in InvoicesOf(o) : TRUE
    BY <1>2
  <2>2. Invoice(o) = d.number
    BY <1>2, <2>1 DEF Invoice
  <2>3. d.number \in Nat \ {0}
    BY DEF InvoicesOf, Doc
  <2>4. QED
    BY <1>2, <2>2, <2>3
<1>3. QED
  BY <1>1, <1>2

LEMMA InitIInv == Init => IInv
<1> SUFFICES ASSUME Init PROVE IInv
  OBVIOUS
<1>1. TypeOK /\ HeldInv
  BY InvoicesAssumption DEF InvoicesAssumption, Init, TypeOK, HeldInv, Work, Rested, Series, Processes
<1>2. \A p \in Processes : WorkOK(p)
  BY DEF Init, WorkOK, Rested
<1>3. \A s : Of(s) = {}
  BY DEF Init, Of
<1>4. Numbered
  BY <1>3, FS_EmptySet DEF Init, Numbered, Last
<1>5. BooksInv
  BY <1>4, FS_EmptySet DEF Init, BooksInv, OneInvoice, NotesCorrect
<1>6. QED
  BY <1>1, <1>2, <1>5 DEF IInv

-----------------------------------------------------------------------------
(* One process moves and no document is written: the books stay, and nobody    *)
(* else is disturbed as long as no other lock is taken from them.              *)
LEMMA OneMoves ==
  ASSUME IInv, UNCHANGED <<docs, next>>, NEW p \in Processes, NEW w \in Work,
         work' = [work EXCEPT ![p] = w],
         row' \in [Orders -> Refunds \cup {Nobody}],
         stage' \in [Refunds -> {"new", "pending", "done"}],
         \A q \in Refunds \ {p} : stage'[q] = stage[q],
         faults' \in 0..MaxFaults, failed \subseteq failed', failed' \subseteq Refunds,
         held' \in [Series -> Processes \cup {Nobody}],
         \A s \in Series :
           \/ held'[s] = held[s] /\ held[s] # p
           \/ held'[s] = Nobody /\ held[s] \in {p, Nobody}
           \/ held'[s] = p /\ held[s] \in {p, Nobody} /\ w.at \in {"insert", "commit"} /\ w.series = s,
         WorkOK(p)'
  PROVE  IInv'
<1>1. work \in [Processes -> Work] /\ Nobody \notin Processes
  BY InvoicesAssumption DEF InvoicesAssumption, IInv, TypeOK, Processes
<1>2. TypeOK' /\ HeldInv'
  BY <1>1 DEF IInv, TypeOK, HeldInv
<1>3. BooksInv'
  BY DEF IInv, BooksInv, Numbered, Of, Last, OneInvoice, NotesCorrect, InvoicesOf
<1>4. ASSUME NEW q \in Processes, q # p PROVE WorkOK(q)'
  <2>1. WorkOK(q) /\ work'[q] = work[q] /\ work[q].series \in Series
    BY <1>1, <1>4 DEF IInv, Work
  <2>2. \A s \in Series : held[s] = q => held'[s] = q
    BY <1>1, <1>4
  <2>3. q \in Refunds => stage'[q] = stage[q]
    BY <1>4
  <2>4. QED
    BY <2>1, <2>2, <2>3 DEF WorkOK, Original, FirstNumber, InvoicesOf
<1>5. QED
  BY <1>2, <1>3, <1>4 DEF IInv

(* A process that is not about to use a number holds no counter. *)
LEMMA HoldsNone ==
  ASSUME IInv, NEW p \in Processes, work[p].at \notin {"insert", "commit"}
  PROVE  \A s \in Series : held[s] # p
BY InvoicesAssumption DEF InvoicesAssumption, IInv, TypeOK, Processes

LEMMA HoldsItsOwn ==
  ASSUME IInv, NEW p \in Processes, NEW s \in Series, held[s] = p
  PROVE  s = work[p].series
BY InvoicesAssumption DEF InvoicesAssumption, IInv, HeldInv, Processes

(* issueForOrder returns what Invoice says, its transaction over. *)
LEMMA ResolvedOK ==
  ASSUME IInv, NEW p \in Processes, work[p].at # "idle", Resolved(p, Invoice(work[p].order)),
         UNCHANGED <<docs, next, row, stage>>,
         held' = [s \in Series |-> IF held[s] = p THEN Nobody ELSE held[s]],
         faults' \in 0..MaxFaults, failed \subseteq failed', failed' \subseteq Refunds,
         Invoice(work[p].order) = 0 /\ p \in Refunds => p \in failed'
  PROVE  IInv'
<1> DEFINE o == work[p].order
           n == Invoice(o)
           w == IF p \in Issuers THEN Rested
                ELSE IF row[o] = p
                THEN [work[p] EXCEPT !.at = "counter", !.series = "CN", !.number = 0, !.original = n]
                ELSE [work[p] EXCEPT !.at = "lock", !.number = 0, !.original = n]
<1>1. work[p] \in Work /\ WorkOK(p) /\ o \in Orders /\ n \in Nat
  BY InvoiceIs DEF IInv, TypeOK, WorkOK
<1>2. work' = [work EXCEPT ![p] = w]
  BY DEF Resolved
<1>3. w \in Work /\ w.at \in {"idle", "counter", "lock"}
  BY <1>1 DEF Work, Rested, Series
<1>4. work'[p] = w
  BY <1>2 DEF IInv, TypeOK
<1>5. WorkOK(p)'
  <2>1. CASE p \in Issuers
    BY <1>4, <2>1, InvoicesAssumption DEF InvoicesAssumption, WorkOK, Rested
  <2>2. CASE p \notin Issuers
    <3>1. p \in Refunds /\ w.order = o /\ w.original = n /\ w.at \in {"counter", "lock"}
      BY <1>1, <2>2 DEF Processes, Work
    <3>2. Original(p)'
      BY <1>1, <1>4, <3>1, InvoiceIs DEF Original, InvoicesOf, IInv, TypeOK
    <3>3. QED
      BY <1>1, <1>4, <3>1, <3>2 DEF WorkOK
  <2>3. QED
    BY <2>1, <2>2
<1>6. /\ held' \in [Series -> Processes \cup {Nobody}]
      /\ \A s \in Series : (held'[s] = held[s] /\ held[s] # p)
                           \/ (held'[s] = Nobody /\ held[s] \in {p, Nobody})
  BY DEF IInv, TypeOK
<1>7. row' \in [Orders -> Refunds \cup {Nobody}] /\ stage' \in [Refunds -> {"new", "pending", "done"}]
  BY DEF IInv, TypeOK
<1> HIDE DEF w
<1>8. QED
  BY <1>2, <1>3, <1>5, <1>6, <1>7, OneMoves

-----------------------------------------------------------------------------
(* A process starts, waits, or locks something of its own, and documents stay. *)
LEMMA StartOK ==
  ASSUME IInv, NEW p \in Processes, NEW o \in Orders, Start(p, o) \/ (p \in Refunds /\ Refund(p, o))
  PROVE  IInv'
<1> DEFINE w == [Rested EXCEPT !.at = "check", !.order = o]
<1>1. work[p].at = "idle" /\ work' = [work EXCEPT ![p] = w] /\ w \in Work
  BY DEF Start, Refund, At, Rested, Work, Series
<1>2. work'[p] = w
  BY <1>1 DEF IInv, TypeOK
<1>3. WorkOK(p)'
  BY <1>2 DEF WorkOK, Rested
<1>4. UNCHANGED <<docs, next, held, row, stage, faults, failed>>
  BY DEF Start, Refund
<1>5. QED
  BY <1>1, <1>3, <1>4, HoldsNone, OneMoves DEF IInv, TypeOK

LEMMA CheckOK == ASSUME IInv, NEW p \in Processes, Check(p) \/ Recheck(p) PROVE IInv'
<1>1. work[p] \in Work /\ WorkOK(p) /\ work[p].at \in {"check", "recheck"}
      /\ UNCHANGED <<docs, next, held, row, stage, faults, failed>>
  BY DEF IInv, TypeOK, Check, Recheck, At
<1>2. CASE Invoice(work[p].order) # 0
  <2>1. Resolved(p, Invoice(work[p].order))
    BY <1>2 DEF Check, Recheck
  <2>2. held' = [s \in Series |-> IF held[s] = p THEN Nobody ELSE held[s]]
    BY <1>1, HoldsNone DEF IInv, TypeOK
  <2>3. QED
    BY <1>1, <1>2, <2>1, <2>2, ResolvedOK DEF IInv, TypeOK
<1>3. CASE Invoice(work[p].order) = 0
  <2>1. PICK w \in Work : /\ work' = [work EXCEPT ![p] = w]
                          /\ w.order = work[p].order
                          /\ w.at = "recheck" \/ (w.at = "counter" /\ w.series = "STD")
    <3>1. CASE Check(p)
      <4>1. [work[p] EXCEPT !.at = "recheck"] \in Work
        BY <1>1 DEF Work
      <4>2. QED
        BY <1>1, <1>3, <3>1, <4>1 DEF Check, To, Work
    <3>2. CASE Recheck(p)
      <4>1. [work[p] EXCEPT !.at = "counter", !.series = "STD"] \in Work
        BY <1>1 DEF Work, Series
      <4>2. work' = [work EXCEPT ![p] = [work[p] EXCEPT !.at = "counter", !.series = "STD"]]
        BY <1>3, <3>2 DEF Recheck, IInv, TypeOK
      <4>3. PICK w : w = [work[p] EXCEPT !.at = "counter", !.series = "STD"]
        OBVIOUS
      <4>4. w.order = work[p].order /\ w.at = "counter" /\ w.series = "STD"
        BY <1>1, <4>3 DEF Work
      <4>5. QED
        BY <4>1, <4>2, <4>3, <4>4
    <3>3. QED
      BY <3>1, <3>2
  <2>2. work'[p] = w
    BY <2>1 DEF IInv, TypeOK
  <2>3. WorkOK(p)'
    BY <1>1, <2>1, <2>2 DEF WorkOK
  <2>4. QED
    BY <1>1, <2>1, <2>3, HoldsNone, OneMoves DEF IInv, TypeOK
<1>4. QED
  BY <1>2, <1>3

(* Who gets the lock reads the first free number. *)
LEMMA CounterOK == ASSUME IInv, NEW p \in Processes, LockCounter(p) \/ CreateCounter(p) PROVE IInv'
<1> DEFINE s == work[p].series
<1>1. /\ work[p] \in Work /\ WorkOK(p) /\ work[p].at \in {"counter", "first"} /\ s \in Series
      /\ UNCHANGED <<docs, next, row, stage, faults, failed>>
  BY DEF IInv, TypeOK, Work, LockCounter, CreateCounter, At
<1>2. \A t \in Series : held[t] # p
  BY <1>1, HoldsNone
<1>3. CASE next[s] = 0 /\ LockCounter(p)
  <2> DEFINE w == [work[p] EXCEPT !.at = "first"]
  <2>1. work' = [work EXCEPT ![p] = w] /\ w \in Work /\ held' = held
    BY <1>1, <1>3 DEF LockCounter, To, Work
  <2>2. work'[p] = w
    BY <2>1 DEF IInv, TypeOK
  <2>3. WorkOK(p)'
    BY <1>1, <2>1, <2>2 DEF WorkOK, Original, InvoicesOf, Work
  <2>4. QED
    BY <1>1, <1>2, <2>1, <2>3, OneMoves DEF IInv, TypeOK
<1>4. CASE ~(next[s] = 0 /\ LockCounter(p))
  <2> DEFINE w == [work[p] EXCEPT !.at = "insert", !.number = FirstNumber(s)]
  <2>1. next[s] \in Nat /\ FirstNumber(s) \in Nat
    BY <1>1 DEF IInv, TypeOK, FirstNumber
  <2>2. /\ work' = [work EXCEPT ![p] = w] /\ w \in Work
        /\ held[s] = Nobody /\ held' = [held EXCEPT ![s] = p]
    BY <1>1, <1>4, <2>1 DEF LockCounter, CreateCounter, FirstNumber, Work
  <2>3. work'[p] = w
    BY <2>2 DEF IInv, TypeOK
  <2>4. held' \in [Series -> Processes \cup {Nobody}] /\ held'[s] = p
        /\ \A t \in Series \ {s} : held'[t] = held[t]
    BY <1>1, <2>2 DEF IInv, TypeOK
  <2>5. w.at = "insert" /\ w.series = s /\ w.order = work[p].order /\ w.original = work[p].original
        /\ w.number = FirstNumber(s)
    BY <1>1 DEF Work
  <2> HIDE DEF w
  <2>6. WorkOK(p)'
    BY <1>1, <2>3, <2>4, <2>5 DEF WorkOK, Original, InvoicesOf, FirstNumber
  <2>7. \A t \in Series :
          \/ held'[t] = held[t] /\ held[t] # p
          \/ held'[t] = Nobody /\ held[t] \in {p, Nobody}
          \/ held'[t] = p /\ held[t] \in {p, Nobody} /\ w.at \in {"insert", "commit"} /\ w.series = t
    BY <1>2, <2>2, <2>4, <2>5
  <2>8. row' \in [Orders -> Refunds \cup {Nobody}] /\ stage' \in [Refunds -> {"new", "pending", "done"}]
        /\ faults' \in 0..MaxFaults /\ failed' \subseteq Refunds
    BY <1>1 DEF IInv, TypeOK
  <2>9. QED
    BY <1>1, <2>2, <2>4, <2>6, <2>7, <2>8, OneMoves
<1>5. QED
  BY <1>3, <1>4

(* The unique index refuses a second invoice: the number goes back unused.     *)
LEMMA InsertOK == ASSUME IInv, NEW p \in Processes, Insert(p) PROVE IInv'
<1> DEFINE s == work[p].series
           w == [work[p] EXCEPT !.at = "commit"]
<1>1. /\ work[p] \in Work /\ WorkOK(p) /\ work[p].at = "insert" /\ s \in Series /\ held[s] = p
      /\ UNCHANGED <<docs, next, row, stage, faults, failed>>
  BY DEF IInv, TypeOK, Work, WorkOK, Insert, At
<1>2. CASE Abandon(p) /\ Resolved(p, Invoice(work[p].order)) /\ Invoice(work[p].order) # 0
  <2>1. held' = [t \in Series |-> IF held[t] = p THEN Nobody ELSE held[t]]
    BY <1>1, <1>2, HoldsItsOwn DEF Abandon, IInv, TypeOK
  <2>2. QED
    BY <1>1, <1>2, <2>1, ResolvedOK DEF IInv, TypeOK
<1>3. CASE /\ To(p, "commit") /\ held' = held
           /\ s = "CN" \/ (s = "STD" /\ Invoice(work[p].order) = 0)
  <2>1. work' = [work EXCEPT ![p] = w] /\ w \in Work
    BY <1>1, <1>3 DEF To, Work
  <2>2. work'[p] = w
    BY <2>1 DEF IInv, TypeOK
  <2>3. w.at = "commit" /\ w.series = s /\ w.order = work[p].order /\ w.original = work[p].original
        /\ w.number = work[p].number
    BY <1>1 DEF Work
  <2> HIDE DEF w
  <2>4. s = "STD" => InvoicesOf(work[p].order) = {}
    BY <1>3, InvoiceIs DEF IInv, TypeOK
  <2>5. WorkOK(p)'
    BY <1>1, <1>3, <2>2, <2>3, <2>4 DEF WorkOK, Original, InvoicesOf, FirstNumber
  <2>6. \A t \in Series : (held'[t] = held[t] /\ held[t] # p)
                          \/ (held'[t] = p /\ held[t] = p /\ w.at = "commit" /\ w.series = t)
    BY <1>3, <2>3, HoldsItsOwn
  <2>7. row' \in [Orders -> Refunds \cup {Nobody}] /\ stage' \in [Refunds -> {"new", "pending", "done"}]
        /\ faults' \in 0..MaxFaults /\ failed' \subseteq Refunds
        /\ held' \in [Series -> Processes \cup {Nobody}]
    BY <1>1, <1>3 DEF IInv, TypeOK
  <2>8. QED
    BY <1>1, <2>1, <2>5, <2>6, <2>7, OneMoves
<1>4. QED
  BY <1>2, <1>3 DEF Insert

(* The steps of a refund around its documents. *)
LEMMA RefundOK ==
  ASSUME IInv, NEW r \in Refunds, LockOrder(r) \/ Note(r) \/ Defer(r) \/ Resolve(r) \/ Confirm(r)
  PROVE  IInv'
<1>1. /\ r \in Processes /\ work[r] \in Work /\ WorkOK(r) /\ UNCHANGED <<docs, next, held, faults, failed>>
      /\ work[r].at \in {"lock", "locked", "idle"} /\ work[r].order \in Orders
  BY DEF IInv, TypeOK, Processes, WorkOK, LockOrder, Note, Defer, Resolve, Confirm, At
<1>2. PICK w \in Work :
        /\ work' = [work EXCEPT ![r] = w] /\ w.order = work[r].order
        /\ \/ w.at \in {"idle", "check"}
           \/ w.at = "lock" /\ stage'[r] = "pending"
           \/ w.at = "locked" /\ stage' = stage /\ work[r].at = "lock" /\ w.original = work[r].original
           \/ w.at = "counter" /\ w.original = work[r].original /\ work[r].at = "locked" /\ stage[r] = "new"
  <2>1. /\ [work[r] EXCEPT !.at = "locked"] \in Work /\ [work[r] EXCEPT !.at = "lock"] \in Work
        /\ [work[r] EXCEPT !.at = "check"] \in Work /\ [Rested EXCEPT !.order = work[r].order] \in Work
        /\ [work[r] EXCEPT !.at = "counter", !.series = "CN"] \in Work
    BY <1>1 DEF Work, Rested, Series
  <2>2. CASE LockOrder(r)
    BY <1>1, <2>1, <2>2 DEF LockOrder, To, At, Work
  <2>3. CASE Note(r)
    <3>1. work' = [work EXCEPT ![r] = [work[r] EXCEPT !.at = "counter", !.series = "CN"]]
      BY <1>1, <2>3 DEF Note, IInv, TypeOK
    <3>2. QED
      BY <1>1, <2>1, <2>3, <3>1 DEF Note, At, Work
  <2>4. CASE Defer(r)
    BY <1>1, <2>1, <2>4 DEF Defer, Rested
  <2>5. CASE Resolve(r)
    BY <1>1, <2>1, <2>5 DEF Resolve, To, Work
  <2>6. CASE Confirm(r)
    BY <1>1, <2>1, <2>6 DEF Confirm, To, Work
  <2>7. QED
    BY <2>2, <2>3, <2>4, <2>5, <2>6
<1>3. work'[r] = w
  BY <1>1, <1>2 DEF IInv, TypeOK
<1>4. /\ row' \in [Orders -> Refunds \cup {Nobody}] /\ stage' \in [Refunds -> {"new", "pending", "done"}]
      /\ \A q \in Refunds \ {r} : stage'[q] = stage[q]
  BY <1>1 DEF IInv, TypeOK, LockOrder, Note, Defer, Resolve, Confirm, FreeOrder
<1>5. WorkOK(r)'
  BY <1>1, <1>2, <1>3 DEF WorkOK, Original, InvoicesOf
<1>6. QED
  BY <1>1, <1>2, <1>4, <1>5, HoldsNone, OneMoves DEF IInv, TypeOK

LEMMA FailOK == ASSUME IInv, NEW p \in Processes, Fail(p) PROVE IInv'
<1>1. faults' \in 0..MaxFaults /\ failed' \subseteq Refunds /\ failed \subseteq failed'
  BY InvoicesAssumption DEF InvoicesAssumption, Fail, IInv, TypeOK
<1>2. QED
  BY <1>1, ResolvedOK DEF Fail

LEMMA DieOK == ASSUME IInv, NEW p \in Processes, Die(p) PROVE IInv'
<1> DEFINE w == IF p \in Refunds /\ stage[p] = "pending" THEN [Rested EXCEPT !.order = work[p].order] ELSE Rested
<1>1. work' = [work EXCEPT ![p] = w] /\ w \in Work /\ work[p].order \in Orders
  BY DEF Die, At, IInv, TypeOK, WorkOK, Rested, Work, Series
<1>2. work'[p] = w
  BY <1>1 DEF IInv, TypeOK
<1>3. WorkOK(p)'
  BY <1>1, <1>2 DEF Die, WorkOK, Rested
<1> HIDE DEF w
<1>4. /\ row' \in [Orders -> Refunds \cup {Nobody}] /\ held' \in [Series -> Processes \cup {Nobody}]
      /\ faults' \in 0..MaxFaults
  BY InvoicesAssumption DEF InvoicesAssumption, Die, IInv, TypeOK
<1>5. \A s \in Series : (held'[s] = held[s] /\ held[s] # p) \/ (held'[s] = Nobody /\ held[s] \in {p, Nobody})
  BY DEF Die, IInv, TypeOK
<1>6. QED
  BY <1>1, <1>3, <1>4, <1>5, OneMoves DEF Die, IInv, TypeOK

-----------------------------------------------------------------------------
(* A document is written: it takes the number after the last, and an invoice   *)
(* is the first of its order.                                                  *)
LEMMA WritesNext == ASSUME IInv, NEW p \in Processes, Commit(p) PROVE BooksInv'
<1> DEFINE s == work[p].series
           new == Document(p)
<1>0. PICK o \in Orders : o = work[p].order
  BY DEF IInv, WorkOK, Commit, At
<1>1. /\ work[p] \in Work /\ WorkOK(p) /\ work[p].at = "commit" /\ s \in Series /\ o = work[p].order
      /\ held[s] = p /\ work[p].number = FirstNumber(s)
      /\ docs' = docs \cup {new} /\ next' = [next EXCEPT ![s] = work[p].number + 1] /\ failed' = failed
  BY <1>0 DEF IInv, TypeOK, Work, WorkOK, Commit, At
<1>2. /\ next \in [Series -> Nat] /\ work[p].number \in Nat /\ docs \subseteq Doc /\ IsFiniteSet(docs)
      /\ work[p].original \in Nat
  BY <1>1 DEF IInv, TypeOK, Work, BooksInv
<1>3. Last(s) \in Nat /\ work[p].number = Last(s) + 1
  BY <1>1, <1>2 DEF Last, FirstNumber
<1>4. new.series = s /\ new.number = work[p].number /\ new.order = o /\ new.by = p
      /\ new.corrects = IF s = "CN" THEN work[p].original ELSE 0
  BY <1>0 DEF Document
<1> HIDE DEF new
<1>5. IsFiniteSet(docs')
  BY <1>1, <1>2, FS_AddElement
<1>6. Numbered'
  <2> SUFFICES ASSUME NEW t \in Series
               PROVE  {d.number : d \in Of(t)'} = 1..Last(t)' /\ Cardinality(Of(t)') = Last(t)'
    BY DEF Numbered
  <2>1. /\ IsFiniteSet(Of(t)) /\ {d.number : d \in Of(t)} = 1..Last(t) /\ Cardinality(Of(t)) = Last(t)
    BY <1>2, FS_Subset DEF Of, IInv, BooksInv, Numbered
  <2>2. CASE t = s
    <3>1. Of(t)' = Of(t) \cup {new}
      BY <1>1, <1>4, <2>2 DEF Of
    <3>2. new \notin Of(t)
      <4>1. \A d \in Of(t) : d.number \in 1..Last(t)
        BY <2>1
      <4>2. QED
        BY <1>3, <1>4, <2>2, <4>1
    <3>3. Last(t)' = Last(t) + 1
      BY <1>1, <1>2, <1>3, <2>2 DEF Last
    <3>4. {d.number : d \in Of(t) \cup {new}} = {d.number : d \in Of(t)} \cup {new.number}
      OBVIOUS
    <3>5. {d.number : d \in Of(t)'} = 1..(Last(t) + 1)
      BY <1>3, <1>4, <2>1, <2>2, <3>1, <3>4
    <3>6. Cardinality(Of(t)') = Last(t) + 1
      BY <2>1, <3>1, <3>2, FS_AddElement
    <3>7. QED
      BY <3>3, <3>5, <3>6
  <2>3. CASE t # s
    <3>1. Of(t)' = Of(t) /\ Last(t)' = Last(t)
      BY <1>1, <1>2, <1>4, <2>3 DEF Of, Last
    <3>2. QED
      BY <2>1, <3>1
  <2>4. QED
    BY <2>2, <2>3
<1>7. OneInvoice'
  <2>1. s = "STD" => \A d \in docs : d.series = "STD" => d.order # o
    BY <1>1 DEF WorkOK, InvoicesOf
  <2>2. QED
    BY <1>1, <1>4, <2>1 DEF OneInvoice, IInv, BooksInv
<1>8. NotesCorrect'
  <2> SUFFICES ASSUME NEW d \in docs', d.series = "CN"
               PROVE  IF d.corrects = 0 THEN d.by \in failed
                      ELSE {i.number : i \in InvoicesOf(d.order)'} = {d.corrects}
    BY <1>1 DEF NotesCorrect
  <2>1. CASE d = new
    <3>1. s = "CN" /\ Original(p) /\ d.corrects = work[p].original /\ d.order = o /\ d.by = p
      BY <1>1, <1>4, <2>1 DEF WorkOK
    <3>2. InvoicesOf(o)' = InvoicesOf(o)
      BY <1>1, <1>4, <3>1 DEF InvoicesOf
    <3>3. CASE work[p].original # 0
      <4>1. PICK i \in InvoicesOf(o) : i.number = work[p].original
        BY <1>1, <3>1, <3>3 DEF Original
      <4>2. InvoicesOf(o) = {i}
        BY <4>1 DEF InvoicesOf, IInv, BooksInv, OneInvoice
      <4>3. QED
        BY <3>1, <3>2, <3>3, <4>1, <4>2
    <3>4. CASE work[p].original = 0
      BY <3>1, <3>4 DEF Original
    <3>5. QED
      BY <3>3, <3>4
  <2>2. CASE d \in docs
    <3>1. IF d.corrects = 0 THEN d.by \in failed ELSE {i.number : i \in InvoicesOf(d.order)} = {d.corrects}
      BY <2>2 DEF IInv, BooksInv, NotesCorrect
    <3>2. CASE d.corrects # 0
      <4>1. InvoicesOf(d.order) # {}
        BY <3>1, <3>2
      <4>2. InvoicesOf(d.order)' = InvoicesOf(d.order)
        BY <1>1, <1>4, <4>1 DEF InvoicesOf, WorkOK, Series
      <4>3. QED
        BY <3>1, <3>2, <4>2
    <3>3. QED
      BY <3>1, <3>2
  <2>3. QED
    BY <1>1, <2>1, <2>2
<1>9. QED
  BY <1>5, <1>6, <1>7, <1>8 DEF BooksInv

(* Whoever else carries a number has another counter; what was resolved stays. *)
LEMMA OthersKeep ==
  ASSUME IInv, NEW p \in Processes, Commit(p), NEW q \in Processes, q # p
  PROVE  WorkOK(q)'
<1>1. /\ work[p].at = "commit" /\ held[work[p].series] = p /\ work[p].series \in Series
      /\ docs' = docs \cup {Document(p)}
      /\ next' = [next EXCEPT ![work[p].series] = work[p].number + 1] /\ failed' = failed
      /\ held' = [held EXCEPT ![work[p].series] = Nobody] /\ Document(p).series = work[p].series
  BY DEF IInv, TypeOK, Work, WorkOK, Commit, At, Document
<1>2. WorkOK(q) /\ work[q].series \in Series /\ work'[q] = work[q]
  BY DEF IInv, TypeOK, Work, Commit, Resolved
<1>3. q \in Refunds => stage'[q] = stage[q]
  BY DEF Commit, IInv, TypeOK
<1>4. \A o : InvoicesOf(o) \subseteq InvoicesOf(o)'
  BY <1>1 DEF InvoicesOf
<1>5. Original(q) => Original(q)'
  BY <1>1, <1>2, <1>4 DEF Original
<1>6. CASE work[q].at \in {"insert", "commit"}
  <2>1. work[q].series # work[p].series
    BY <1>1, <1>2, <1>6 DEF WorkOK
  <2>2. held'[work[q].series] = q /\ FirstNumber(work[q].series)' = FirstNumber(work[q].series)
    BY <1>1, <1>2, <1>6, <2>1 DEF WorkOK, FirstNumber, IInv, TypeOK
  <2>3. work[q].series = "STD" => InvoicesOf(work[q].order)' = InvoicesOf(work[q].order)
    BY <1>1, <1>2, <2>1 DEF InvoicesOf
  <2>4. QED
    BY <1>2, <1>3, <1>5, <1>6, <2>2, <2>3 DEF WorkOK
<1>7. CASE work[q].at \notin {"insert", "commit"}
  BY <1>2, <1>3, <1>5, <1>7 DEF WorkOK
<1>8. QED
  BY <1>6, <1>7

LEMMA CommitOK == ASSUME IInv, NEW p \in Processes, Commit(p) PROVE IInv'
<1> DEFINE s == work[p].series
<1>0. PICK o \in Orders : o = work[p].order
  BY DEF IInv, WorkOK, Commit, At
<1>1. /\ work[p] \in Work /\ WorkOK(p) /\ work[p].at = "commit" /\ s \in Series /\ o = work[p].order
      /\ held[s] = p /\ work[p].number = FirstNumber(s) /\ work[p].number \in Nat \ {0}
      /\ docs' = docs \cup {Document(p)} /\ held' = [held EXCEPT ![s] = Nobody] /\ failed' = failed
  <2>1. /\ work[p] \in Work /\ WorkOK(p) /\ work[p].at = "commit" /\ next \in [Series -> Nat]
    BY DEF IInv, TypeOK, Commit, At
  <2>2. QED
    BY <1>0, <2>1 DEF Work, WorkOK, Commit, FirstNumber
<1>2. PICK w \in Work :
        /\ work' = [work EXCEPT ![p] = w]
        /\ \/ w = Rested /\ (p \in Refunds => stage'[p] # "pending")
           \/ /\ p \in Refunds /\ w.at \in {"counter", "lock"} /\ w.order = o
              /\ w.original = work[p].number /\ s = "STD"
  <2>1. CASE s = "STD"
    <3>1. Resolved(p, work[p].number)
      BY <2>1 DEF Commit
    <3>2. CASE p \in Issuers
      <4>1. work' = [work EXCEPT ![p] = Rested] /\ p \notin Refunds
        BY <3>1, <3>2, InvoicesAssumption DEF InvoicesAssumption, Resolved
      <4>2. Rested \in Work
        BY DEF Rested, Work, Series
      <4>3. QED
        BY <4>1, <4>2
    <3>3. CASE p \notin Issuers
      <4> DEFINE a == [work[p] EXCEPT !.at = "counter", !.series = "CN", !.number = 0, !.original = work[p].number]
                 b == [work[p] EXCEPT !.at = "lock", !.number = 0, !.original = work[p].number]
      <4>1. /\ a \in Work /\ b \in Work /\ a.at = "counter" /\ b.at = "lock" /\ a.order = o /\ b.order = o
            /\ a.original = work[p].number /\ b.original = work[p].number
        BY <1>1 DEF Work, Series
      <4>2. work' = [work EXCEPT ![p] = a] \/ work' = [work EXCEPT ![p] = b]
        BY <3>1, <3>3 DEF Resolved
      <4>3. p \in Refunds
        BY <3>3 DEF Processes
      <4>4. QED
        BY <2>1, <4>1, <4>2, <4>3
    <3>4. QED
      BY <3>2, <3>3
  <2>2. CASE s # "STD"
    <3>1. work' = [work EXCEPT ![p] = Rested] /\ stage' = [stage EXCEPT ![p] = "done"]
      BY <2>2 DEF Commit
    <3>2. Rested \in Work /\ (p \in Refunds => stage'[p] # "pending")
      BY <3>1 DEF Rested, Work, Series, IInv, TypeOK
    <3>3. QED
      BY <3>1, <3>2
  <2>3. QED
    BY <2>1, <2>2
<1>3. work'[p] = w
  BY <1>2 DEF IInv, TypeOK
<1>4. Document(p) \in Doc
  BY <1>1 DEF Document, Doc, Work
<1>5. /\ docs' \subseteq Doc /\ next' \in [Series -> Nat] /\ work' \in [Processes -> Work]
      /\ held' \in [Series -> Processes \cup {Nobody}] /\ row' \in [Orders -> Refunds \cup {Nobody}]
      /\ stage' \in [Refunds -> {"new", "pending", "done"}] /\ faults' = faults
  BY <1>1, <1>2, <1>4 DEF Commit, FreeOrder, IInv, TypeOK
<1>6. \A t \in Series : held'[t] = Nobody \/ (held'[t] = held[t] /\ held[t] # p)
  BY <1>1, HoldsItsOwn DEF IInv, TypeOK
<1>7. \A t \in Series : held'[t] # Nobody => work'[held'[t]] = work[held[t]]
  BY <1>2, <1>6 DEF IInv, TypeOK
<1>8. TypeOK' /\ HeldInv'
  BY <1>1, <1>5, <1>6, <1>7 DEF IInv, TypeOK, HeldInv
<1>9. WorkOK(p)'
  <2>1. s = "STD" => Document(p) \in InvoicesOf(o)' /\ Document(p).number = work[p].number
    BY <1>1 DEF InvoicesOf, Document
  <2>2. QED
    BY <1>1, <1>2, <1>3, <2>1 DEF WorkOK, Original, Rested
<1>10. QED
  BY <1>8, <1>9, WritesNext, OthersKeep DEF IInv

-----------------------------------------------------------------------------
LEMMA StepIInv == IInv /\ [Next]_vars => IInv'
<1> SUFFICES ASSUME IInv, [Next]_vars PROVE IInv'
  OBVIOUS
<1>1. CASE UNCHANGED vars
  <2>1. TypeOK' /\ HeldInv' /\ BooksInv'
    BY <1>1 DEF vars, IInv, TypeOK, HeldInv, BooksInv, Numbered, Of, Last, OneInvoice, NotesCorrect, InvoicesOf
  <2>2. \A p \in Processes : WorkOK(p)'
    BY <1>1 DEF vars, IInv, WorkOK, Original, InvoicesOf, FirstNumber
  <2>3. QED
    BY <2>1, <2>2 DEF IInv
<1>2. CASE Next
  <2>1. ASSUME NEW p \in Processes, Step(p) \/ Fail(p) \/ Die(p) PROVE IInv'
    BY <2>1, CheckOK, CounterOK, InsertOK, CommitOK, FailOK, DieOK DEF Step
  <2>2. ASSUME NEW r \in Refunds, RefundStep(r) \/ Confirm(r) PROVE IInv'
    BY <2>2, RefundOK DEF RefundStep
  <2>3. ASSUME NEW o \in Orders, (\E i \in Issuers : Start(i, o)) \/ (\E r \in Refunds : Refund(r, o)) PROVE IInv'
    BY <2>3, StartOK DEF Processes
  <2>4. QED
    BY <1>2, <2>1, <2>2, <2>3 DEF Next
<1>3. QED
  BY <1>1, <1>2

(* The inductive invariant of the invoice numbers: who carries a number has    *)
(* the lock on its counter, and the number is still the first free one.        *)
THEOREM NumbersAreLocked == Spec => []IInv
<1>1. QED
  BY InitIInv, StepIInv, PTL DEF Spec

(* Every reachable state of Invoices is well typed. *)
THEOREM InvoicesTyped == Spec => []TypeOK
<1>1. IInv => TypeOK
  BY DEF IInv
<1>2. QED
  BY <1>1, NumbersAreLocked, PTL

(* Invoice numbers and credit notes: no gap, no number twice, no note without  *)
(* the invoice it corrects, however many orders and processes race or fail.    *)
THEOREM BooksStayInOrder == Spec => []BooksInOrder
<1>1. IInv => BooksInOrder
  BY DEF IInv, BooksInv, BooksInOrder, Gapless, Numbered, Of
<1>2. QED
  BY <1>1, NumbersAreLocked, PTL
=============================================================================
