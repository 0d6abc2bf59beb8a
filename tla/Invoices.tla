-------------------------------- MODULE Invoices --------------------------------
(***************************************************************************)
(* The fiscal documents of one tenant: InvoiceService.issueForOrder, called *)
(* when an order is paid and by a refund that finds no invoice to correct,  *)
(* and the credit notes that refunds issue in their own transaction.        *)
(*                                                                          *)
(* Every order here is paid.  A refund appears as far as its invoice and    *)
(* its note: amounts and the gateway are the subject of Refunds.  Rendering *)
(* the PDF changes no number and no document, and is left out.              *)
(***************************************************************************)
EXTENDS Integers, FiniteSets

CONSTANTS
  Orders,
  Issuers,   \* deliveries of order.paid, again and again
  Refunds,   \* refunds, each handled by one process at a time
  MaxFaults, \* how many statements fail or processes die
  Nobody

ASSUME InvoicesAssumption ==
  /\ Issuers \cap Refunds = {} /\ Nobody \notin Orders \cup Issuers \cup Refunds
  /\ MaxFaults \in Nat

VARIABLES
  docs,    \* the invoices table
  next,    \* [Series -> next_value]  invoice_counters, 0 while there is no row
  held,    \* [Series -> process or Nobody]  the lock on the counter, or its uncommitted row
  row,     \* [Orders -> process or Nobody]  FOR UPDATE on the order
  work,    \* [Processes -> Work]
  stage,   \* [Refunds -> {"new", "pending", "done"}]
  faults,
  failed   \* read by properties only: refunds whose back-issue failed

vars == <<docs, next, held, row, work, stage, faults, failed>>

-----------------------------------------------------------------------------
Processes == Issuers \cup Refunds
Series == {"STD", "CN"}

(* An invoice, or the credit note of a refund and the invoice it corrects (0: none). *)
Doc == [series: Series, number: Nat \ {0}, order: Orders, by: Processes, corrects: Nat]

Work == [at: {"idle", "check", "recheck", "lock", "locked", "counter", "first", "insert", "commit"},
         order: Orders \cup {Nobody}, series: Series, number: Nat, original: Nat]
Rested == [at |-> "idle", order |-> Nobody, series |-> "STD", number |-> 0, original |-> 0]

Init ==
  /\ docs = {} /\ next = [s \in Series |-> 0]
  /\ held = [s \in Series |-> Nobody] /\ row = [o \in Orders |-> Nobody]
  /\ work = [p \in Processes |-> Rested]
  /\ stage = [r \in Refunds |-> "new"]
  /\ faults = 0 /\ failed = {}

At(p, step) == work[p].at = step
To(p, step) == work' = [work EXCEPT ![p].at = step]

(* findInvoiceForOrder: its number, 0 when there is none. *)
InvoicesOf(o) == {d \in docs : d.series = "STD" /\ d.order = o}
Invoice(o)    == IF InvoicesOf(o) = {} THEN 0 ELSE (CHOOSE d \in InvoicesOf(o) : TRUE).number

-----------------------------------------------------------------------------
(* What issueForOrder returns to: the listener ends, a refund goes on with the   *)
(* invoice (or none), in its transaction if it has opened it.                    *)
Resolved(p, number) ==
  work' = [work EXCEPT ![p] =
    IF p \in Issuers THEN Rested
    ELSE IF row[@.order] = p
    THEN [@ EXCEPT !.at = "counter", !.series = "CN", !.number = 0, !.original = number]
    ELSE [@ EXCEPT !.at = "lock", !.number = 0, !.original = number]]

(* order.paid *)
Start(i, o) ==
  /\ i \in Issuers /\ At(i, "idle")
  /\ work' = [work EXCEPT ![i] = [Rested EXCEPT !.at = "check", !.order = o]]
  /\ UNCHANGED <<docs, next, held, row, stage, faults, failed>>

(* The check before the transaction (a refund's resolveOriginalInvoice makes one *)
(* more before it), and the one in it.                                           *)
Check(p) ==
  /\ At(p, "check")
  /\ IF Invoice(work[p].order) # 0 THEN Resolved(p, Invoice(work[p].order)) ELSE To(p, "recheck")
  /\ UNCHANGED <<docs, next, held, row, stage, faults, failed>>

Recheck(p) ==
  /\ At(p, "recheck")
  /\ IF Invoice(work[p].order) # 0 THEN Resolved(p, Invoice(work[p].order))
     ELSE work' = [work EXCEPT ![p].at = "counter", ![p].series = "STD"]
  /\ UNCHANGED <<docs, next, held, row, stage, faults, failed>>

-----------------------------------------------------------------------------
(* allocateGaplessNumber: lock the counter and read it; when there is no row     *)
(* yet, insert it (which waits for another that is inserting it) and lock it.    *)
LockCounter(p) ==
  LET s == work[p].series IN
  /\ At(p, "counter")
  /\ IF next[s] = 0
     THEN To(p, "first") /\ held' = held
     ELSE /\ held[s] = Nobody
          /\ held' = [held EXCEPT ![s] = p]
          /\ work' = [work EXCEPT ![p].at = "insert", ![p].number = next[s]]
  /\ UNCHANGED <<docs, next, row, stage, faults, failed>>

(* Mutant: who finds no counter starts at 1. *)
StartsAtOne(s) == 1
FirstNumber(s) == IF next[s] = 0 THEN 1 ELSE next[s]

CreateCounter(p) ==
  LET s == work[p].series IN
  /\ At(p, "first") /\ held[s] = Nobody
  /\ held' = [held EXCEPT ![s] = p]
  /\ work' = [work EXCEPT ![p].at = "insert", ![p].number = FirstNumber(s)]
  /\ UNCHANGED <<docs, next, row, stage, faults, failed>>

(* Mutants: the transaction of the loser, or of a refund, stays open. *)
KeepCounter(p) == held' = held
KeepOrder(r)   == row' = row

(* A transaction that ends frees what it has locked. *)
Abandon(p)   == held' = [held EXCEPT ![work[p].series] = Nobody]
FreeOrder(r) == row' = [row EXCEPT ![work[r].order] = Nobody]

(* The insert of an invoice takes FOR KEY SHARE on its order (the foreign key),  *)
(* and waits for whoever has it FOR UPDATE.  The partial unique index refuses a  *)
(* second invoice: roll back, and return the other's.                            *)
Insert(p) ==
  LET o == work[p].order IN
  /\ At(p, "insert")
  /\ \/ /\ work[p].series = "STD" /\ row[o] = Nobody /\ Invoice(o) # 0
        /\ Abandon(p) /\ Resolved(p, Invoice(o))
     \/ /\ work[p].series = "STD" /\ row[o] = Nobody /\ Invoice(o) = 0
        /\ To(p, "commit") /\ held' = held
     \/ /\ work[p].series = "CN"
        /\ To(p, "commit") /\ held' = held
  /\ UNCHANGED <<docs, next, row, stage, faults, failed>>

Shared(o) == \E p \in Processes : At(p, "commit") /\ work[p].series = "STD" /\ work[p].order = o

(* The document and the counter commit together. *)
Document(p) == [series |-> work[p].series, number |-> work[p].number, order |-> work[p].order, by |-> p,
                corrects |-> IF work[p].series = "CN" THEN work[p].original ELSE 0]

Commit(p) ==
  LET s == work[p].series IN
  /\ At(p, "commit")
  /\ docs' = docs \cup {Document(p)}
  /\ next' = [next EXCEPT ![s] = work[p].number + 1]
  /\ held' = [held EXCEPT ![s] = Nobody]
  /\ IF s = "STD"
     THEN Resolved(p, work[p].number) /\ UNCHANGED <<row, stage>>
     ELSE /\ FreeOrder(p)
          /\ stage' = [stage EXCEPT ![p] = "done"]
          /\ work' = [work EXCEPT ![p] = Rested]
  /\ UNCHANGED <<faults, failed>>

-----------------------------------------------------------------------------
(* RefundService.create resolves the invoice, then locks the order; a refund    *)
(* whose money is still on its way commits without a note.                       *)
Refund(r, o) ==
  /\ At(r, "idle") /\ stage[r] = "new"
  /\ work' = [work EXCEPT ![r] = [Rested EXCEPT !.at = "check", !.order = o]]
  /\ UNCHANGED <<docs, next, held, row, stage, faults, failed>>

LockOrder(r) ==
  /\ At(r, "lock")
  /\ row[work[r].order] = Nobody /\ ~Shared(work[r].order)
  /\ row' = [row EXCEPT ![work[r].order] = r]
  /\ To(r, "locked")
  /\ UNCHANGED <<docs, next, held, stage, faults, failed>>

Note(r) ==
  /\ At(r, "locked") /\ stage[r] = "new"
  /\ work' = [work EXCEPT ![r].at = "counter", ![r].series = "CN"]
  /\ UNCHANGED <<docs, next, held, row, stage, faults, failed>>

Defer(r) ==
  /\ At(r, "locked") /\ stage[r] = "new"
  /\ stage' = [stage EXCEPT ![r] = "pending"]
  /\ FreeOrder(r)
  /\ work' = [work EXCEPT ![r] = [Rested EXCEPT !.order = work[r].order]]
  /\ UNCHANGED <<docs, next, held, faults, failed>>

(* applyDeferredRefund locks the order first, and resolves the invoice then. *)
Confirm(r) ==
  /\ At(r, "idle") /\ stage[r] = "pending"
  /\ To(r, "lock")
  /\ UNCHANGED <<docs, next, held, row, stage, faults, failed>>

Resolve(r) ==
  /\ At(r, "locked") /\ stage[r] = "pending"
  /\ To(r, "check")
  /\ UNCHANGED <<docs, next, held, row, stage, faults, failed>>

-----------------------------------------------------------------------------
(* A statement of issueForOrder fails: its transaction rolls back, and the       *)
(* caller goes on with the invoice another has issued, or with none.             *)
Fail(p) ==
  LET o == work[p].order IN
  /\ faults < MaxFaults /\ work[p].series = "STD"
  /\ work[p].at \in {"check", "recheck", "counter", "first", "insert", "commit"}
  /\ faults' = faults + 1
  /\ held' = [s \in Series |-> IF held[s] = p THEN Nobody ELSE held[s]]
  /\ Resolved(p, Invoice(o))
  /\ failed' = IF p \in Refunds /\ Invoice(o) = 0 THEN failed \cup {p} ELSE failed
  /\ UNCHANGED <<docs, next, row, stage>>

(* The process dies, or its refund transaction fails.  A pending refund is      *)
(* confirmed again, another is asked for again.                                  *)
Die(p) ==
  /\ faults < MaxFaults /\ ~At(p, "idle")
  /\ faults' = faults + 1
  /\ held' = [s \in Series |-> IF held[s] = p THEN Nobody ELSE held[s]]
  /\ row' = [o \in Orders |-> IF row[o] = p THEN Nobody ELSE row[o]]
  /\ work' = [work EXCEPT ![p] = IF p \in Refunds /\ stage[p] = "pending"
                                 THEN [Rested EXCEPT !.order = work[p].order] ELSE Rested]
  /\ UNCHANGED <<docs, next, stage, failed>>

-----------------------------------------------------------------------------
Step(p)       == Check(p) \/ Recheck(p) \/ LockCounter(p) \/ CreateCounter(p) \/ Insert(p) \/ Commit(p)
RefundStep(r) == LockOrder(r) \/ Note(r) \/ Defer(r) \/ Resolve(r)

Next ==
  \/ \E p \in Processes : Step(p) \/ Fail(p) \/ Die(p)
  \/ \E r \in Refunds : RefundStep(r) \/ Confirm(r)
  \/ \E o \in Orders : (\E i \in Issuers : Start(i, o)) \/ (\E r \in Refunds : Refund(r, o))

(* A process that has begun goes on; nothing else need happen. *)
Fairness == /\ \A p \in Processes : WF_vars(Step(p))
            /\ \A r \in Refunds : WF_vars(RefundStep(r))

Spec == Init /\ [][Next]_vars
FairSpec == Spec /\ Fairness

-----------------------------------------------------------------------------
(* Every variable has its type, and a counter that is held is held by a process  *)
(* that is about to use its number.                                              *)
TypeOK ==
  /\ docs \subseteq Doc /\ next \in [Series -> Nat]
  /\ held \in [Series -> Processes \cup {Nobody}] /\ row \in [Orders -> Refunds \cup {Nobody}]
  /\ work \in [Processes -> Work] /\ stage \in [Refunds -> {"new", "pending", "done"}]
  /\ faults \in 0..MaxFaults /\ failed \subseteq Refunds
  /\ \A s \in Series : held[s] # Nobody => work[held[s]].at \in {"insert", "commit"}

(* The numbers of a series are 1, 2, 3, ... and each is on one document.         *)
Gapless ==
  \A s \in Series : LET used == {d \in docs : d.series = s} IN
    {d.number : d \in used} = 1..Cardinality(used)

(* A note corrects the one invoice of its order; one that corrects none is of a  *)
(* refund whose back-issue failed.                                               *)
NotesCorrect ==
  \A d \in docs : d.series = "CN" =>
    IF d.corrects = 0 THEN d.by \in failed ELSE {i.number : i \in InvoicesOf(d.order)} = {d.corrects}

(* The books of a tenant survive every race for a number or an order, and every  *)
(* rollback: no gap, no number twice, no note without the invoice it corrects.   *)
BooksInOrder == Gapless /\ NotesCorrect

(* A confirmation has the order FOR UPDATE and waits for its issueForOrder, on   *)
(* another connection; that one, or the holder of the counter it waits for, has  *)
(* to insert an invoice of this order.  PostgreSQL sees no cycle of waits.       *)
Hung(r) ==
  LET o == work[r].order  p == held["STD"] IN
  /\ work[r].at \in {"counter", "first", "insert"} /\ work[r].series = "STD" /\ row[o] = r
  /\ p # Nobody /\ At(p, "insert") /\ work[p].order = o

(* Whatever has begun ends, unless a confirmation waits for itself.              *)
IssuersEnd == \A p \in Processes : ~At(p, "idle") ~> At(p, "idle") \/ \E q \in Refunds : Hung(q)

=============================================================================
