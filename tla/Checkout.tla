------------------------------- MODULE Checkout -------------------------------
(***************************************************************************)
(* Cart to order: OrderService.createFromCart and createOrLoadFromCart, the *)
(* no-oversell engine they call (InventoryService), the restock listener    *)
(* and the flush of the Redis cart blob onto the carts row.                 *)
(*                                                                          *)
(* A transaction is modelled as Postgres runs it at READ COMMITTED: it      *)
(* takes row locks one at a time (the cart row, then a variant per line),   *)
(* holds them to its end, and its writes are invisible until it commits.    *)
(* taken[r] is what request r has decremented and not committed; `stock`    *)
(* and `hold` are the committed tables.  Transactions that lock a single    *)
(* variant (reserve, release, restock of a line) are one action.            *)
(***************************************************************************)
EXTENDS Integers, FiniteSets

CONSTANTS
  Carts,
  Requests,       \* POST /checkout and POST /payment-intent requests
  Variants,       \* variant ids; createFromCart sorts lines by id
  Backorder,      \* the variants with allow_backorder
  Parts,          \* Parts[b][v]: units of v in one bundle of variant b's product
  InitialBundles, \* the variants whose product starts with is_bundle
  InitialStock,
  Contents,       \* the line quantities a cart blob may hold when it is read
  MaxQty,         \* a line or a hold has at most this many units
  HoldQty,        \* HoldQty[v]: the quantities v is reserved with
  StockCounts,    \* the quantities an admin may set
  MaxCounts,      \* how often an admin may set a stock quantity
  MaxToggles,     \* how often an admin may flip a product's is_bundle
  Unflushed,      \* the carts whose last edit has not reached Postgres at first
  MaxEdits,       \* how often the carts are edited after that
  Outcomes,       \* what may become of a placed order: "paid", "cancelled"
  UsageLimit,     \* usage_limit_total of the one discount of the model
  NoAnswer

ASSUME CheckoutAssumption ==
  /\ IsFiniteSet(Carts)
  /\ Variants \subseteq Nat
  /\ Backorder \subseteq Variants /\ InitialBundles \subseteq Variants
  /\ Parts \in [Variants -> [Variants -> Nat]]
  /\ InitialStock \in [Variants -> Nat]
  /\ MaxQty \in Nat /\ HoldQty \in [Variants -> SUBSET (1..MaxQty)]
  /\ Contents \subseteq [Variants -> 0..MaxQty]
  /\ StockCounts \subseteq Nat /\ Unflushed \subseteq Carts
  /\ MaxCounts \in Nat /\ MaxToggles \in Nat /\ MaxEdits \in Nat /\ UsageLimit \in Nat
  /\ Outcomes \subseteq {"paid", "cancelled"}
  /\ NoAnswer \notin Requests

VARIABLES
  stock,     \* [Variants -> Int]  product_variants.stock_quantity
  hold,      \* [Carts -> [Variants -> Hold]]  inventory_reservations
  bundles,   \* the variants whose product has is_bundle now
  cartRow,   \* [Carts -> status]  carts.status in Postgres
  blob,      \* [Carts -> status]  status in the Redis blob
  dirty,     \* the carts in the Redis dirty set
  order,     \* [Requests -> Order]
  lastNo,    \* the last order number handed out
  used,      \* discounts.used_count
  toRestock, \* orders whose order.cancelled event is undelivered
  pc, kind, cartOf, lines, asBundle, redeem, todo, locked, taken, answer,
  reopened,  \* history: how often a flush made a converted cart row active again
  counts, toggles, edits  \* what the bounds bound

tables  == <<stock, hold, bundles, order, lastNo, used, toRestock>>
carting == <<cartRow, blob, dirty, reopened>>
work    == <<todo, locked, taken, asBundle, redeem>>
request == <<pc, kind, cartOf, lines, answer>>
admin   == <<counts, toggles, edits>>
vars    == <<tables, carting, work, request, admin>>

-----------------------------------------------------------------------------
(* State predicates and the values the actions compute. *)

NoLines == [v \in Variants |-> 0]
NoHold  == [qty |-> 0, is |-> "none"]

(* A row of inventory_reservations: live is reserved and unexpired, expired *)
(* is reserved past expires_at and not yet swept.                           *)
Hold == [qty: 0..MaxQty, is: {"none", "live", "expired", "confirmed"}]

NoOrder == [no |-> 0, cart |-> NoAnswer, units |-> NoLines, status |-> "none",
            due |-> FALSE, credited |-> FALSE, redeemed |-> FALSE]

(* due: cancelled while pending_payment, the one case the listener restocks. *)
Order == [no: Nat, cart: Carts \cup {NoAnswer}, units: [Variants -> Nat],
          status: {"none", "pending_payment", "paid", "cancelled"},
          due: BOOLEAN, credited: BOOLEAN, redeemed: BOOLEAN]

(* conflict: a payment intent after a 409.  done: nothing runs; the order,  *)
(* if there is one, lives on.                                               *)
Stages == {"idle", "loaded", "consuming", "conflict", "restocking", "done"}

Placed      == {r \in Requests : order[r].status # "none"}
OrdersOf(c) == {r \in Placed : order[r].cart = c}

(* findByCartId: newest first. *)
IsNewest(c, r) == r \in OrdersOf(c) /\ \A s \in OrdersOf(c) : order[s].no <= order[r].no

(* The units of v that the carts in C hold, reserved and unexpired.  Counted *)
(* as a set of units, so that it is a Cardinality and not a recursive sum.   *)
HeldBy(C, v) ==
  Cardinality({u \in C \X (1..MaxQty) : hold[u[1]][v].is = "live" /\ u[2] <= hold[u[1]][v].qty})

VariantLocked(v) == \E r \in Requests : v \in locked[r]

(* Mutant: the variant is read without FOR UPDATE. *)
ReadUnlocked(r, v)  == FALSE
LockedByOther(r, v) == \E s \in Requests \ {r} : v \in locked[s]

(* Mutant: the carts row is read without FOR UPDATE. *)
CartReadUnlocked(c) == FALSE
CartLocked(c)       == \E r \in Requests : pc[r] = "consuming" /\ cartOf[r] = c

(* The work of one checkout: <<line, variant to lock and decrement>>. *)
Steps(ls, bs) ==
  {p \in Variants \X Variants :
     /\ ls[p[1]] > 0
     /\ IF p[1] \in bs THEN Parts[p[1]][p[2]] > 0 ELSE p[2] = p[1]}

Units(r, p) == IF p[1] \in asBundle[r] THEN Parts[p[1]][p[2]] * lines[r][p[1]]
                                       ELSE lines[r][p[1]]

(* Mutant: the lines are consumed in the order the cart has them. *)
InCartOrder(r, p) == p \in todo[r]

(* Lines ascending by variant id, a bundle's components ascending within it. *)
IsNext(r, p) ==
  /\ p \in todo[r]
  /\ \A q \in todo[r] : p[1] < q[1] \/ (p[1] = q[1] /\ p[2] <= q[2])

(* The lines whose reservation row the transaction has already written. *)
Settled(r) ==
  {v \in Variants : \E p \in Steps(lines[r], asBundle[r]) : p[1] = v /\ p \notin todo[r]}

RowBusy(c, v) ==
  \E r \in Requests : pc[r] = "consuming" /\ cartOf[r] = c /\ v \in Settled(r)

(* What the transaction of r still sees of v: its own decrements count. *)
Left(r, v) == stock[v] - taken[r][v]

(* consumeLineInTx asks the physical stock alone, whoever holds the units;  *)
(* consumeBundleComponent subtracts every live hold, this cart's own one    *)
(* too unless this transaction has confirmed or released it.                *)
Available(r, p) ==
  IF p[1] \in asBundle[r]
  THEN Left(r, p[2]) -
         HeldBy(IF p[2] \in Settled(r) THEN Carts \ {cartOf[r]} ELSE Carts, p[2])
  ELSE Left(r, p[2])

-----------------------------------------------------------------------------
(* Deadlock: every member of D waits for a member and is waited for by one. *)

WaitsFor(r, s) ==
  /\ pc[r] \in {"consuming", "restocking"} /\ r # s
  /\ \E p \in todo[r] : IsNext(r, p) /\ p[2] \in locked[s]

(* Mutant: a lock wait is never broken. *)
Undetected(D) == FALSE

Deadlock(D) ==
  \A r \in D : (\E s \in D : WaitsFor(r, s)) /\ (\E s \in D : WaitsFor(s, r))

-----------------------------------------------------------------------------
(* How a transaction ends: its locks go, and with them what it did not commit. *)

DropWork(r) ==
  /\ todo'     = [todo EXCEPT ![r] = {}]
  /\ locked'   = [locked EXCEPT ![r] = {}]
  /\ taken'    = [taken EXCEPT ![r] = NoLines]
  /\ asBundle' = [asBundle EXCEPT ![r] = {}]
  /\ redeem'   = [redeem EXCEPT ![r] = FALSE]

(* The transaction and the request end together, and leave no trace but     *)
(* what was committed and answered.                                         *)
End(r) ==
  /\ DropWork(r)
  /\ pc' = [pc EXCEPT ![r] = "done"]
  /\ lines' = [lines EXCEPT ![r] = NoLines]
  /\ IF answer[r] # NoAnswer
     THEN UNCHANGED <<cartOf, kind>>
     ELSE /\ cartOf' = [cartOf EXCEPT ![r] = NoAnswer]
          /\ kind' = [kind EXCEPT ![r] = "checkout"]

(* 409: POST /checkout fails; a payment intent looks for the cart's order. *)
Conflict(r) ==
  IF kind[r] = "checkout" THEN End(r)
  ELSE /\ DropWork(r)
       /\ pc' = [pc EXCEPT ![r] = "conflict"]
       /\ UNCHANGED <<kind, cartOf, lines>>

-----------------------------------------------------------------------------
(* One request: read the cart, lock its row, consume each line, commit. *)

(* createOrLoadFromCart's fast path: the cart has an order already. *)
LoadExisting(r) ==
  /\ pc[r] = "idle"
  /\ \E c \in Carts, s \in Requests :
       /\ IsNewest(c, s)
       /\ cartOf' = [cartOf EXCEPT ![r] = c]
       /\ answer' = [answer EXCEPT ![r] = s]
  /\ kind' = [kind EXCEPT ![r] = "intent"]
  /\ pc' = [pc EXCEPT ![r] = "done"]
  /\ UNCHANGED <<tables, carting, work, lines, admin>>

(* The blob is read before the transaction and never read again. *)
LoadCart(r) ==
  /\ pc[r] = "idle"
  /\ \E c \in Carts, k \in {"checkout", "intent"} :
       /\ k = "intent" => OrdersOf(c) = {}
       /\ cartOf' = [cartOf EXCEPT ![r] = c]
       /\ kind' = [kind EXCEPT ![r] = k]
       /\ \E ls \in IF blob[c] = "active" THEN Contents ELSE {NoLines} :
            lines' = [lines EXCEPT ![r] = ls]
  /\ pc' = [pc EXCEPT ![r] = "loaded"]
  /\ UNCHANGED <<tables, carting, work, answer, admin>>

(* A cart that cannot be ordered: empty, or with a bundle of no components. *)
Unorderable(r) ==
  \/ lines[r] = NoLines
  \/ \E v \in bundles : lines[r][v] > 0 /\ Parts[v] = NoLines

(* Lock the carts row and decide on its status; then evaluate the discount  *)
(* (an unlocked read of used_count) and read which lines are bundles.       *)
LockCart(r) ==
  /\ pc[r] = "loaded"
  /\ ~CartLocked(cartOf[r])
  /\ \/ /\ cartRow[cartOf[r]] = "converted"
        /\ Conflict(r)
     \/ /\ cartRow[cartOf[r]] = "abandoned" \/ Unorderable(r)
        /\ cartRow[cartOf[r]] # "converted"
        /\ End(r)
     \/ /\ cartRow[cartOf[r]] = "active" /\ ~Unorderable(r)
        /\ pc' = [pc EXCEPT ![r] = "consuming"]
        /\ asBundle' = [asBundle EXCEPT ![r] = bundles]
        /\ todo' = [todo EXCEPT ![r] = Steps(lines[r], bundles)]
        /\ \E code \in BOOLEAN : /\ code => used < UsageLimit
                                /\ redeem' = [redeem EXCEPT ![r] = code]
        /\ UNCHANGED <<locked, taken, kind, cartOf, lines>>
  /\ UNCHANGED <<tables, carting, answer, admin>>

(* Lock the variant of step p and decrement it: the line, or a component.   *)
Take(r, p) ==
  /\ todo'   = [todo EXCEPT ![r] = @ \ {p}]
  /\ locked' = [locked EXCEPT ![r] = @ \cup {p[2]}]
  /\ taken'  = [taken EXCEPT ![r][p[2]] = @ + Units(r, p)]
  /\ UNCHANGED <<pc, kind, cartOf, lines, asBundle, redeem>>

Short(r, p) == p[2] \notin Backorder /\ Units(r, p) > Available(r, p)

ConsumeStep(r) ==
  /\ pc[r] = "consuming"
  /\ \E p \in todo[r] :
       /\ IsNext(r, p) /\ ~LockedByOther(r, p[2])
       /\ IF Short(r, p) THEN Conflict(r) ELSE Take(r, p)
  /\ UNCHANGED <<tables, carting, answer, admin>>

(* consumeLineInTx confirms the line's reservation, releaseInTx drops a     *)
(* bundle parent's.                                                         *)
SettledHold(r, v) ==
  LET row == hold[cartOf[r]][v] IN
  IF lines[r][v] = 0 THEN row
  ELSE IF v \in asBundle[r] THEN NoHold
  ELSE IF row.is \in {"live", "expired"} THEN [row EXCEPT !.is = "confirmed"] ELSE row

(* The order row: everything in it was read or taken by this transaction,   *)
(* its number is the tenant's next.                                         *)
NewOrder(r) == [no |-> lastNo + 1, cart |-> cartOf[r], units |-> taken[r],
                status |-> "pending_payment", due |-> FALSE, credited |-> FALSE,
                redeemed |-> redeem[r]]

(* Mutant: the carts row stays active. *)
LeaveCart(c) == UNCHANGED cartRow

(* markCartConverted. *)
MarkCartConverted(c) == cartRow' = [cartRow EXCEPT ![c] = "converted"]

(* Mutant: the limit is compared after one redemption too many. *)
UsedUpLate(r) == redeem[r] /\ used > UsageLimit

(* consumeDiscountUsages locks the discount and counts again. *)
UsedUp(r) == redeem[r] /\ used >= UsageLimit

(* Number, order row, discount usage, converted cart row, commit.  The row  *)
(* lock on order_counters makes this end of every checkout exclusive.       *)
Commit(r) ==
  /\ pc[r] = "consuming" /\ todo[r] = {}
  /\ ~UsedUp(r)
  /\ stock' = [v \in Variants |-> Left(r, v)]
  /\ hold' = [hold EXCEPT ![cartOf[r]] = [v \in Variants |-> SettledHold(r, v)]]
  /\ lastNo' = lastNo + 1
  /\ order' = [order EXCEPT ![r] = NewOrder(r)]
  /\ used' = IF redeem[r] THEN used + 1 ELSE used
  /\ MarkCartConverted(cartOf[r])
  /\ answer' = [answer EXCEPT ![r] = r]
  /\ pc' = [pc EXCEPT ![r] = "done"]
  /\ DropWork(r)
  /\ UNCHANGED <<bundles, toRestock, blob, dirty, reopened, kind, cartOf, lines, admin>>

(* The last redemption went to another order since the cart was evaluated.  *)
DiscountGone(r) ==
  /\ pc[r] = "consuming" /\ todo[r] = {}
  /\ UsedUp(r)
  /\ Conflict(r)
  /\ UNCHANGED <<tables, carting, answer, admin>>

(* After a 409 the payment intent settles for the order another made. *)
Resolve(r) ==
  /\ pc[r] = "conflict"
  /\ \/ /\ OrdersOf(cartOf[r]) = {}
        /\ End(r)
        /\ UNCHANGED answer
     \/ /\ \E s \in Requests : /\ IsNewest(cartOf[r], s)
                                /\ answer' = [answer EXCEPT ![r] = s]
        /\ pc' = [pc EXCEPT ![r] = "done"]
        /\ lines' = [lines EXCEPT ![r] = NoLines]
        /\ UNCHANGED <<work, kind, cartOf>>
  /\ UNCHANGED <<tables, carting, admin>>

(* Postgres kills one transaction of a deadlock. *)
DeadlockVictim(r) ==
  /\ \E D \in SUBSET Requests : r \in D /\ Deadlock(D)
  /\ End(r)
  /\ UNCHANGED <<tables, carting, answer, admin>>

(* The process dies, or a query fails: the transaction never happened. *)
Crash(r) ==
  /\ pc[r] \in {"loaded", "consuming", "restocking"}
  /\ End(r)
  /\ UNCHANGED <<tables, carting, answer, admin>>

-----------------------------------------------------------------------------
(* The order after checkout, as far as stock is concerned. *)

Pay(r) ==
  /\ "paid" \in Outcomes
  /\ order[r].status = "pending_payment"
  /\ order' = [order EXCEPT ![r].status = "paid"]
  /\ UNCHANGED <<stock, hold, bundles, lastNo, used, toRestock, carting, work, request, admin>>

(* Mutant: whatever is cancelled is restocked. *)
AlwaysDue(r) == TRUE
DueOnCancel(r) == order[r].status = "pending_payment"

(* transition(-> cancelled), then order.cancelled with its fromStatus: the  *)
(* listener acts on pending_payment only.                                   *)
Cancel(r) ==
  /\ "cancelled" \in Outcomes
  /\ order[r].status \in {"pending_payment", "paid"}
  /\ order' = [order EXCEPT ![r].status = "cancelled",
                            ![r].due    = DueOnCancel(r)]
  /\ toRestock' = IF DueOnCancel(r) THEN toRestock \cup {r} ELSE toRestock
  /\ UNCHANGED <<stock, hold, bundles, lastNo, used, carting, work, request, admin>>

(* OrderRestockListener.restockOrder: its own transaction after the commit, *)
(* with the lines of the order and today's bundles.                         *)
RestockBegin(r) ==
  /\ r \in toRestock /\ pc[r] = "done"
  /\ toRestock' = toRestock \ {r}
  /\ pc' = [pc EXCEPT ![r] = "restocking"]
  /\ asBundle' = [asBundle EXCEPT ![r] = bundles]
  /\ todo' = [todo EXCEPT ![r] = Steps(lines[r], bundles)]
  /\ UNCHANGED <<stock, hold, bundles, order, lastNo, used, carting, locked, taken, redeem,
                 kind, cartOf, lines, answer, admin>>

RestockStep(r) ==
  /\ pc[r] = "restocking"
  /\ \E p \in todo[r] : IsNext(r, p) /\ ~LockedByOther(r, p[2]) /\ Take(r, p)
  /\ UNCHANGED <<tables, carting, answer, admin>>

RestockCommit(r) ==
  /\ pc[r] = "restocking" /\ todo[r] = {}
  /\ stock' = [v \in Variants |-> stock[v] + taken[r][v]]
  /\ order' = [order EXCEPT ![r].credited = TRUE]
  /\ End(r)
  /\ UNCHANGED <<hold, bundles, lastNo, used, toRestock, carting, answer, admin>>

-----------------------------------------------------------------------------
(* Reservations: carts, the clock and the sweeper. *)

(* Mutant: the holds of the other carts are not counted. *)
LeftOnShelf(c, v) == stock[v]

(* What reserve() finds for cart c: its own hold is about to be replaced.   *)
LeftFor(c, v) == stock[v] - HeldBy(Carts \ {c}, v)

TooMuch(c, v, q) == v \notin Backorder /\ q > LeftFor(c, v)

(* Mutant: the quantity is added to the hold instead of replacing it. *)
AddedTo(c, v, q) == hold[c][v].qty + q
Granted(c, v, q) == IF ~TooMuch(c, v, q) THEN q ELSE IF LeftFor(c, v) > 0 THEN LeftFor(c, v) ELSE 0

(* reserve(): an absolute quantity.  Asking for more than is left is a 409  *)
(* without effect, or with clampToAvailable (merge, reconcile) takes what   *)
(* there is, and a clamp to nothing drops the row.                          *)
Reserve(c, v, q, clamp) ==
  LET granted == Granted(c, v, q) IN
  /\ ~VariantLocked(v) /\ ~RowBusy(c, v)
  /\ TooMuch(c, v, q) => clamp
  /\ hold' = [hold EXCEPT ![c][v] = IF granted = 0 THEN NoHold ELSE [qty |-> granted, is |-> "live"]]
  /\ UNCHANGED <<stock, bundles, order, lastNo, used, toRestock, carting, work, request, admin>>

(* release(): the item left the cart. *)
Release(c, v) ==
  /\ hold[c][v] # NoHold /\ ~RowBusy(c, v)
  /\ hold' = [hold EXCEPT ![c][v] = NoHold]
  /\ UNCHANGED <<stock, bundles, order, lastNo, used, toRestock, carting, work, request, admin>>

(* expires_at passes: the hold stops counting at once. *)
Expire(c, v) ==
  /\ hold[c][v].is = "live"
  /\ hold' = [hold EXCEPT ![c][v].is = "expired"]
  /\ UNCHANGED <<stock, bundles, order, lastNo, used, toRestock, carting, work, request, admin>>

(* deleteExpired(): reserved rows past their time; a confirmed row stays. *)
Sweep ==
  LET gone == {x \in Carts \X Variants : hold[x[1]][x[2]].is = "expired" /\ ~RowBusy(x[1], x[2])} IN
  /\ gone # {}
  /\ hold' = [c \in Carts |-> [v \in Variants |-> IF <<c, v>> \in gone THEN NoHold ELSE hold[c][v]]]
  /\ UNCHANGED <<stock, bundles, order, lastNo, used, toRestock, carting, work, request, admin>>

-----------------------------------------------------------------------------
(* The cart blob in Redis and its flush to Postgres; the catalogue. *)

(* Any mutate(): nothing rejects a cart whose row is converted. *)
EditCart(c) ==
  /\ blob[c] = "active" /\ c \notin dirty
  /\ edits < MaxEdits
  /\ dirty' = dirty \cup {c}
  /\ edits' = edits + 1
  /\ UNCHANGED <<tables, cartRow, blob, reopened, work, request, counts, toggles>>

(* abandon(): every reservation of the cart released and the blob emptied. *)
(* (The rows go first; Release has the states in between.)                 *)
Abandon(c) ==
  /\ blob[c] = "active" /\ edits < MaxEdits
  /\ \A v \in Variants : ~RowBusy(c, v)
  /\ blob' = [blob EXCEPT ![c] = "abandoned"]
  /\ dirty' = dirty \cup {c}
  /\ edits' = edits + 1
  /\ hold' = [hold EXCEPT ![c] = [v \in Variants |-> NoHold]]
  /\ UNCHANGED <<stock, bundles, order, lastNo, used, toRestock, cartRow, reopened, work, request,
                 counts, toggles>>

(* flushDirty / upsertToPostgres: the blob's status overwrites the row's. *)
Flush(c) ==
  /\ c \in dirty /\ ~CartLocked(c)
  /\ dirty' = dirty \ {c}
  /\ cartRow' = [cartRow EXCEPT ![c] = blob[c]]
  /\ reopened' = [reopened EXCEPT ![c] =
                    IF cartRow[c] = "converted" /\ blob[c] = "active" THEN @ + 1 ELSE @]
  /\ UNCHANGED <<tables, blob, work, request, admin>>

(* An admin writes a counted quantity over the column. *)
SetStock(v, n) ==
  /\ counts < MaxCounts /\ ~VariantLocked(v)
  /\ stock' = [stock EXCEPT ![v] = n]
  /\ counts' = counts + 1
  /\ UNCHANGED <<hold, bundles, order, lastNo, used, toRestock, carting, work, request, toggles, edits>>

(* An admin turns a product into a bundle or back. *)
ToggleBundle(v) ==
  /\ toggles < MaxToggles
  /\ bundles' = IF v \in bundles THEN bundles \ {v} ELSE bundles \cup {v}
  /\ toggles' = toggles + 1
  /\ UNCHANGED <<stock, hold, order, lastNo, used, toRestock, carting, work, request, counts, edits>>

-----------------------------------------------------------------------------
Init ==
  /\ stock = InitialStock /\ bundles = InitialBundles
  /\ hold = [c \in Carts |-> [v \in Variants |-> NoHold]]
  /\ order = [r \in Requests |-> NoOrder]
  /\ lastNo = 0 /\ used = 0 /\ toRestock = {}
  /\ cartRow = [c \in Carts |-> "active"] /\ blob = [c \in Carts |-> "active"]
  /\ dirty = Unflushed
  /\ reopened = [c \in Carts |-> 0]
  /\ todo = [r \in Requests |-> {}] /\ locked = [r \in Requests |-> {}]
  /\ taken = [r \in Requests |-> NoLines]
  /\ pc = [r \in Requests |-> "idle"] /\ kind = [r \in Requests |-> "checkout"]
  /\ cartOf = [r \in Requests |-> NoAnswer]
  /\ lines = [r \in Requests |-> NoLines] /\ asBundle = [r \in Requests |-> {}]
  /\ redeem = [r \in Requests |-> FALSE] /\ answer = [r \in Requests |-> NoAnswer]
  /\ counts = 0 /\ toggles = 0 /\ edits = 0

(* What the server does with a request once it has it. *)
Serve(r) ==
  \/ LockCart(r) \/ ConsumeStep(r) \/ Commit(r) \/ DiscountGone(r) \/ Resolve(r)
  \/ DeadlockVictim(r) \/ RestockStep(r) \/ RestockCommit(r)

Next ==
  \/ \E r \in Requests : \/ LoadExisting(r) \/ LoadCart(r) \/ Serve(r) \/ Crash(r)
                         \/ Pay(r) \/ Cancel(r) \/ RestockBegin(r)
  \/ \E c \in Carts : EditCart(c) \/ Abandon(c) \/ Flush(c)
  \/ \E c \in Carts, v \in Variants :
       \/ \E q \in HoldQty[v], clamp \in BOOLEAN : Reserve(c, v, q, clamp)
       \/ Release(c, v) \/ Expire(c, v)
  \/ Sweep
  \/ \E v \in Variants : ToggleBundle(v) \/ \E n \in StockCounts : SetStock(v, n)

Spec == Init /\ [][Next]_vars

(* Postgres runs a statement whose locks are free, and finds deadlocks. *)
Fairness == \A r \in Requests : WF_vars(Serve(r))

FairSpec == Spec /\ Fairness
-----------------------------------------------------------------------------
(* Properties. *)

TablesOK ==
  /\ stock \in [Variants -> Int] /\ bundles \subseteq Variants
  /\ hold \in [Carts -> [Variants -> Hold]]
  /\ order \in [Requests -> Order]
  /\ lastNo \in Nat /\ used \in Nat /\ toRestock \subseteq Requests

CartingOK ==
  /\ cartRow \in [Carts -> {"active", "converted", "abandoned"}]
  /\ blob \in [Carts -> {"active", "abandoned"}]
  /\ dirty \subseteq Carts /\ reopened \in [Carts -> Nat]

WorkOK ==
  /\ todo \in [Requests -> SUBSET (Variants \X Variants)]
  /\ locked \in [Requests -> SUBSET Variants]
  /\ taken \in [Requests -> [Variants -> Nat]]
  /\ asBundle \in [Requests -> SUBSET Variants]
  /\ redeem \in [Requests -> BOOLEAN]

RequestOK ==
  /\ pc \in [Requests -> Stages]
  /\ kind \in [Requests -> {"checkout", "intent"}]
  /\ cartOf \in [Requests -> Carts \cup {NoAnswer}]
  /\ lines \in [Requests -> [Variants -> 0..MaxQty]]
  /\ answer \in [Requests -> Requests \cup {NoAnswer}]

AdminOK == counts \in Nat /\ toggles \in Nat /\ edits \in Nat

(* The rows, blobs, transactions and requests have the shape the code gives *)
(* them; in particular a hold never exceeds what was asked for.             *)
TypeOK == TablesOK /\ CartingOK /\ WorkOK /\ RequestOK /\ AdminOK

(* "A lagging sweeper can never cause oversell" (inventory.service.ts): the *)
(* stock of a variant without backorder is never negative, whichever holds  *)
(* expired, were swept or belong to others while checkouts interleave.      *)
NoOversell == \A v \in Variants \ Backorder : stock[v] >= 0

(* reserve() never promises units twice: when a cart is granted a hold, the *)
(* live holds of all carts together fit the stock.  (Later checkouts that   *)
(* sell unreserved units may undercut a hold; granting one may not.)        *)
NewHoldsCovered ==
  [][\A c \in Carts, v \in Variants \ Backorder :
       hold'[c][v].is = "live" /\ hold'[c][v] # hold[c][v] => HeldBy(Carts, v)' <= stock'[v]]_vars

(* The carts row lock and the status check in createFromCart: each order of *)
(* a cart beyond the first is paid for with one reopening of the row by a   *)
(* flush, and an active row means all conversions so far were reopened.     *)
OrdersMatchConversions ==
  \A c \in Carts :
    Cardinality(OrdersOf(c)) <= IF cartRow[c] = "active" THEN reopened[c] ELSE reopened[c] + 1

(* createOrLoadFromCart: payment intents of one cart agree on the order, as *)
(* long as no flush reopened the cart, however their reads interleave.      *)
IntentsAgree ==
  \A r, s \in Requests :
    /\ kind[r] = "intent" /\ kind[s] = "intent"
    /\ cartOf[r] = cartOf[s] /\ cartOf[r] # NoAnswer
    /\ answer[r] # NoAnswer /\ answer[s] # NoAnswer
    /\ reopened[cartOf[r]] = 0
    => answer[r] = answer[s]

(* consumeDiscountUsages: used_count counts the orders that redeemed the    *)
(* code, and stays within usage_limit_total, although carts are evaluated   *)
(* against an unlocked used_count.                                          *)
RedemptionsWithinLimit ==
  /\ used = Cardinality({r \in Placed : order[r].redeemed})
  /\ used <= UsageLimit

(* The sorted locking of createFromCart ("a single deterministic global     *)
(* order makes that impossible") does exclude deadlock between transactions *)
(* whose lines are no bundles.                                              *)
PlainLinesNeverDeadlock ==
  \A D \in (SUBSET Requests) \ {{}} :
    Deadlock(D) => \E r \in D : \E v \in asBundle[r] : lines[r][v] > 0

(* Every request that reached the server is answered, and every restock     *)
(* that began ends, deadlocks included.                                     *)
RequestsEnd ==
  \A r \in Requests : pc[r] \in {"loaded", "consuming", "conflict", "restocking"} ~> pc[r] = "done"

(* The promise without transactions, see OrderBook. *)
Entry(r) == [status |-> order[r].status, units |-> order[r].units,
             due |-> order[r].due, credited |-> order[r].credited]

Book == INSTANCE OrderBook WITH book <- [r \in Requests |-> Entry(r)]

ImplementsOrderBook == Book!Spec
=============================================================================
