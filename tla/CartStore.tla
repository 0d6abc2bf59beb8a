-------------------------------- MODULE CartStore --------------------------------
(***************************************************************************)
(* One cart in its three places: the Redis blob that is the truth of a      *)
(* session, the Postgres row a flush copies it to, and the stock holds that *)
(* its lines keep in Postgres (CartService, CartRepository.mutate and       *)
(* findById, CartFlushRepository.flushDirty).                               *)
(*                                                                          *)
(* A cart state is its lines, its status and the set of the edits that made *)
(* it; its updatedAt is its latest edit (two edits are never in the same    *)
(* millisecond here).  Addresses, codes and totals are edits that touch no  *)
(* line.  The cart was just created: saved, flagged dirty and persisted.    *)
(* The other carts are left open: at any time they leave this one some of   *)
(* the stock, and at least what it holds.                                   *)
(***************************************************************************)
EXTENDS Integers, FiniteSets, FiniteSetsExt

CONSTANTS
  Requests,  \* requests for the cart, one after the other in each
  Flushers,  \* flush workers, one for each instance
  Variants,
  Stock,     \* units of each variant
  Amounts,   \* the quantities a request may name
  MaxEdits,  \* how many edits commit
  MaxTries,  \* MAX_MUTATE_RETRIES
  MaxFaults  \* how many crashes, failed statements, evictions and holds that run out

ASSUME CartAssumption ==
  /\ IsFiniteSet(Requests) /\ IsFiniteSet(Flushers) /\ IsFiniteSet(Variants)
  /\ Stock \in Nat \ {0} /\ Amounts \subseteq 1..Stock /\ MaxEdits \in Nat /\ MaxTries \in Nat \ {0} /\ MaxFaults \in Nat

VARIABLES
  blob,    \* the cart's key in Redis
  dirty,   \* is the cart in the dirty set?
  row,     \* carts and cart_items, which rowsToState reads
  hold,    \* [Variants -> units]  the cart's live inventory_reservations
  req,     \* [Requests -> Req]
  flush,   \* [Flushers -> Flush]
  clock,   \* the latest committed edit
  faults,
  \* read by properties only:
  evicted, \* has Redis ever dropped the blob?
  lapsed,  \* variants whose hold ran out since an edit last reserved it
  astray,  \* variants whose hold was changed by an edit that came to nothing
  unseen   \* an edit fell between a flush's comparison and its SREM, or a
           \* slower flush or refill wrote another state over it

vars == <<blob, dirty, row, hold, req, flush, clock, faults, evicted, lapsed, astray, unseen>>

-----------------------------------------------------------------------------
Units   == 0..Stock
NoLine  == [id |-> 0, qty |-> 0]
Line    == [id: 1..(MaxEdits + 1), qty: 1..Stock] \cup {NoLine}
State   == [lines: [Variants -> Line], status: {"active", "abandoned"}, edits: SUBSET (1..MaxEdits)]
NoState == [status |-> "none"]
Empty   == [lines |-> [v \in Variants |-> NoLine], status |-> "active", edits |-> {}]

UpdatedAt(s) == Max({0} \cup s.edits)

(* A state read from the row earlier, which the row has since lost. *)
LeftBehind(s) == ~(s.edits \subseteq row.edits)

(* addItem(variant, qty), updateItem(id, qty), removeItem(id), abandon, a setter *)
(* that leaves the lines alone, or a plain read.                                 *)
Op == [kind: {"add"}, v: Variants, qty: Amounts]
        \cup [kind: {"update"}, id: 1..MaxEdits, qty: Amounts]
        \cup [kind: {"remove"}, id: 1..MaxEdits]
        \cup [kind: {"abandon", "set", "read"}]
NoOp == [kind |-> "none"]

(* clean: nothing has written the watched key since.  found: the state read.    *)
(* new: what the mutator made of it.  moved: the variants whose hold it changed. *)
Req  == [at: {"idle", "watch", "miss", "fill", "mutate", "exec", "fix"}, op: Op \cup {NoOp},
         found: State \cup {NoState}, new: State \cup {NoState}, clean: BOOLEAN,
         tries: 0..MaxTries, moved: SUBSET Variants, todo: SUBSET Variants]
Idle == [at |-> "idle", op |-> NoOp, found |-> NoState, new |-> NoState, clean |-> FALSE,
         tries |-> 0, moved |-> {}, todo |-> {}]

Flush   == [at: {"idle", "fill", "upsert", "compare", "clear"}, s: State \cup {NoState}]
NoFlush == [at |-> "idle", s |-> NoState]

Init ==
  /\ blob = Empty /\ row = Empty /\ dirty = TRUE
  /\ hold = [v \in Variants |-> 0]
  /\ req = [w \in Requests |-> Idle]
  /\ flush = [f \in Flushers |-> NoFlush]
  /\ clock = 0 /\ faults = 0
  /\ evicted = FALSE /\ lapsed = {} /\ astray = {} /\ unseen = FALSE

-----------------------------------------------------------------------------
(* Redis.  A write of the key breaks every WATCH on it. *)
Unwatched == [w \in Requests |-> [req[w] EXCEPT !.clean = FALSE]]

Evict ==
  /\ faults < MaxFaults /\ blob # NoState
  /\ faults' = faults + 1
  /\ blob' = NoState /\ evicted' = TRUE
  /\ req' = Unwatched
  /\ UNCHANGED <<dirty, row, hold, flush, clock, lapsed, astray, unseen>>

-----------------------------------------------------------------------------
(* CartRepository.mutate: WATCH and GET.                                         *)
Got(r) ==
  IF blob = NoState THEN [r EXCEPT !.at = "miss"]
  ELSE [r EXCEPT !.at = "mutate", !.found = blob, !.clean = TRUE]

Ask(w) ==
  /\ req[w].at = "idle" /\ clock < MaxEdits
  /\ \E op \in Op :
       /\ op.kind # "read"
       /\ op.kind \in {"update", "remove"} => op.id <= clock
       /\ req' = [req EXCEPT ![w] = Got([Idle EXCEPT !.op = op])]
  /\ UNCHANGED <<blob, dirty, row, hold, flush, clock, faults, evicted, lapsed, astray, unseen>>

Watch(w) ==
  /\ req[w].at = "watch"
  /\ req' = [req EXCEPT ![w] = Got(@)]
  /\ UNCHANGED <<blob, dirty, row, hold, flush, clock, faults, evicted, lapsed, astray, unseen>>

(* A read that misses: findById reads the row and puts it back, unconditionally. *)
ReadMiss(w) ==
  /\ req[w].at = "idle" /\ blob = NoState
  /\ req' = [req EXCEPT ![w] = [Idle EXCEPT !.at = "fill", !.op = [kind |-> "read"], !.new = row]]
  /\ UNCHANGED <<blob, dirty, row, hold, flush, clock, faults, evicted, lapsed, astray, unseen>>

(* One more attempt, or the budget is used up: compensate if the edit can, 409. *)
Compensates(op) == op.kind \in {"add", "update", "remove"}

TriesLeft(r) == r.tries + 1 < MaxTries

Again(r) ==
  IF r.op.kind = "read" THEN Idle
  ELSE IF TriesLeft(r)
  THEN [r EXCEPT !.at = "watch", !.tries = @ + 1, !.new = NoState, !.clean = FALSE]
  ELSE IF Compensates(r.op) /\ r.found # NoState
       THEN [r EXCEPT !.at = "fix", !.tries = @ + 1, !.todo = Variants, !.new = NoState, !.clean = FALSE]
       ELSE Idle

GaveUp(r) == Again(r).at \in {"fix", "idle"}

(* UNWATCH, then findById: another GET, the row, SETEX; then the loop's next try. *)
Load(w) ==
  /\ req[w].at = "miss"
  /\ req' = [req EXCEPT ![w] = IF blob # NoState THEN Again(@)
                               ELSE [@ EXCEPT !.at = "fill", !.new = row]]
  /\ astray' = IF blob # NoState /\ GaveUp(req[w]) THEN astray \cup req[w].moved ELSE astray
  /\ UNCHANGED <<blob, dirty, row, hold, flush, clock, faults, evicted, lapsed, unseen>>

Warm(w) ==
  /\ req[w].at = "fill"
  /\ blob' = req[w].new
  /\ req' = [Unwatched EXCEPT ![w] = Again(req[w])]
  /\ astray' = IF GaveUp(req[w]) THEN astray \cup req[w].moved ELSE astray
  /\ unseen' = (unseen \/ LeftBehind(req[w].new))
  /\ UNCHANGED <<dirty, row, hold, flush, clock, faults, evicted, lapsed>>

-----------------------------------------------------------------------------
(* The mutators of CartService.  authoriseCart refuses an abandoned cart.        *)
Alive(s)      == s.status = "active"
LineOf(s, id) == {v \in Variants : s.lines[v].id = id}

(* The variants an operation touches on state s. *)
Touches(op, s) ==
  CASE op.kind = "add"                   -> {op.v}
    [] op.kind \in {"update", "remove"}  -> LineOf(s, op.id)
    [] op.kind = "abandon"               -> Variants
    [] op.kind = "set"                   -> {}

(* Mutant: the reservation is set to the delta. *)
ReservesDelta(op, s, v) ==
  CASE op.kind \in {"add", "update"}     -> op.qty
    [] op.kind \in {"remove", "abandon"} -> 0

(* The absolute quantity a touched variant is reserved for; 0 releases it. *)
Reserves(op, s, v) ==
  CASE op.kind = "add"                   -> s.lines[v].qty + op.qty
    [] op.kind = "update"                -> op.qty
    [] op.kind \in {"remove", "abandon"} -> 0

(* Mutant: a line that grows gets a new id. *)
NewLineAfter(op, s, v, id) ==
  CASE op.kind = "add"    -> [id |-> id, qty |-> s.lines[v].qty + op.qty]
    [] op.kind = "update" -> [s.lines[v] EXCEPT !.qty = op.qty]
    [] OTHER              -> NoLine

(* The line an operation leaves; the id of a new line is its edit's. *)
LineAfter(op, s, v, id) ==
  CASE op.kind = "add"    -> [id  |-> IF s.lines[v] = NoLine THEN id ELSE s.lines[v].id,
                              qty |-> s.lines[v].qty + op.qty]
    [] op.kind = "update" -> [s.lines[v] EXCEPT !.qty = op.qty]
    [] OTHER              -> NoLine

InStock(op, s, v)      == Reserves(op, s, v) <= Stock

Finds(op, s) == Alive(s) /\ (op.kind = "update" => Touches(op, s) # {})

(* reserve, release and releaseForCart commit on their own, before the EXEC. *)
Mutate(w) ==
  LET r == req[w] t == Touches(r.op, r.found) IN
  /\ r.at = "mutate" /\ Finds(r.op, r.found)
  /\ \A v \in t : InStock(r.op, r.found, v)
  /\ hold' = [v \in Variants |-> IF v \in t THEN Reserves(r.op, r.found, v) ELSE hold[v]]
  /\ lapsed' = lapsed \ t
  /\ req' = [req EXCEPT ![w].at = "exec", ![w].moved = @ \cup t,
       ![w].new = [r.found EXCEPT
         !.status = IF r.op.kind = "abandon" THEN "abandoned" ELSE @,
         !.lines  = [v \in Variants |-> IF v \in t THEN LineAfter(r.op, r.found, v, clock + 1) ELSE @[v]]]]
  /\ UNCHANGED <<blob, dirty, row, flush, clock, faults, evicted, astray, unseen>>

(* 404, 403, 409 InsufficientStock: nothing puts back what an earlier attempt    *)
(* of this request reserved.                                                     *)
Refuse(w) ==
  /\ req[w].at = "mutate"
  /\ \/ ~Finds(req[w].op, req[w].found)
     \/ \E v \in Touches(req[w].op, req[w].found) :
          Reserves(req[w].op, req[w].found, v) > hold[v]
  /\ astray' = astray \cup req[w].moved
  /\ req' = [req EXCEPT ![w] = Idle]
  /\ UNCHANGED <<blob, dirty, row, hold, flush, clock, faults, evicted, lapsed, unseen>>

(* Totals cannot be computed, or the process dies, after the reservation. *)
Fail(w) ==
  /\ faults < MaxFaults /\ req[w].at \notin {"idle", "watch"}
  /\ faults' = faults + 1
  /\ astray' = astray \cup req[w].moved
  /\ req' = [req EXCEPT ![w] = Idle]
  /\ UNCHANGED <<blob, dirty, row, hold, flush, clock, evicted, lapsed, unseen>>

(* Mutant: a plain MULTI without the WATCH. *)
AlwaysApplies(r) == TRUE
Applies(r) == r.clean

(* Mutant: the dirty flag is not set. *)
NotFlagged == dirty
Flagged    == TRUE

(* EXEC: SETEX the blob and SADD the dirty flag, if the watch still stands. *)
Commit(w) ==
  LET r == req[w] IN
  /\ r.at = "exec" /\ Applies(r) /\ clock < MaxEdits
  /\ clock' = clock + 1
  /\ blob' = [r.new EXCEPT !.edits = @ \cup {clock + 1}]
  /\ dirty' = Flagged
  /\ req' = [Unwatched EXCEPT ![w] = Idle]
  /\ astray' = astray \cup (r.moved \ Touches(r.op, r.found))
  /\ unseen' = \E f \in Flushers : flush[f].at = "clear"
  /\ UNCHANGED <<row, hold, flush, faults, evicted, lapsed>>

ExecAborts(w) ==
  /\ req[w].at = "exec" /\ ~Applies(req[w])
  /\ req' = [req EXCEPT ![w] = Again(@)]
  /\ astray' = IF GaveUp(req[w]) THEN astray \cup req[w].moved ELSE astray
  /\ UNCHANGED <<blob, dirty, row, hold, flush, clock, faults, evicted, lapsed, unseen>>

(* reconcileCartReservations to the last state read: release what it does not    *)
(* list, reserve the rest as far as the other carts leave it.                    *)
Clamps(w, v) == LET asked == req[w].found.lines[v].qty IN Min({asked, hold[v]})..Min({asked, Stock})

Reconcile(w) ==
  /\ req[w].at = "fix" /\ req[w].todo # {}
  /\ \E v \in req[w].todo : \E n \in Clamps(w, v) :
       /\ hold' = [hold EXCEPT ![v] = n]
       /\ astray' = IF n # hold[v] THEN astray \cup {v} ELSE astray
       /\ req' = [req EXCEPT ![w].todo = @ \ {v}]
  /\ UNCHANGED <<blob, dirty, row, flush, clock, faults, evicted, lapsed, unseen>>

Answer409(w) ==
  /\ req[w].at = "fix" /\ req[w].todo = {}
  /\ req' = [req EXCEPT ![w] = Idle]
  /\ UNCHANGED <<blob, dirty, row, hold, flush, clock, faults, evicted, lapsed, astray, unseen>>

-----------------------------------------------------------------------------
(* The hold runs out. *)
Lapse(v) ==
  /\ faults < MaxFaults /\ hold[v] > 0
  /\ faults' = faults + 1
  /\ hold' = [hold EXCEPT ![v] = 0]
  /\ lapsed' = lapsed \cup {v}
  /\ UNCHANGED <<blob, dirty, row, req, flush, clock, evicted, astray, unseen>>

-----------------------------------------------------------------------------
(* flushDirty for this cart (SMEMBERS is taken when its turn comes): findById,   *)
(* upsertToPostgres, compare, SREM.                                              *)
FlushFind(f) ==
  /\ flush[f].at = "idle" /\ dirty
  /\ flush' = [flush EXCEPT ![f] = IF blob # NoState THEN [at |-> "upsert", s |-> blob]
                                   ELSE [at |-> "fill", s |-> row]]
  /\ UNCHANGED <<blob, dirty, row, hold, req, clock, faults, evicted, lapsed, astray, unseen>>

FlushFill(f) ==
  /\ flush[f].at = "fill"
  /\ blob' = flush[f].s /\ req' = Unwatched
  /\ flush' = [flush EXCEPT ![f].at = "upsert"]
  /\ unseen' = (unseen \/ LeftBehind(flush[f].s))
  /\ UNCHANGED <<dirty, row, hold, clock, faults, evicted, lapsed, astray>>

Upsert(f) ==
  /\ flush[f].at = "upsert"
  /\ row' = flush[f].s
  /\ unseen' = (unseen \/ ~(row.edits \subseteq flush[f].s.edits))
  /\ flush' = [flush EXCEPT ![f].at = "compare"]
  /\ UNCHANGED <<blob, dirty, hold, req, clock, faults, evicted, lapsed, astray>>

(* Mutant: the flag is cleared whatever was written meanwhile. *)
AlwaysCurrent(f) == TRUE
StillCurrent(f)  == blob # NoState /\ UpdatedAt(blob) = UpdatedAt(flush[f].s)

Compare(f) ==
  /\ flush[f].at = "compare"
  /\ flush' = [flush EXCEPT ![f] = IF StillCurrent(f) THEN [at |-> "clear", s |-> NoState] ELSE NoFlush]
  /\ UNCHANGED <<blob, dirty, row, hold, req, clock, faults, evicted, lapsed, astray, unseen>>

Clear(f) ==
  /\ flush[f].at = "clear"
  /\ dirty' = FALSE
  /\ flush' = [flush EXCEPT ![f] = NoFlush]
  /\ UNCHANGED <<blob, row, hold, req, clock, faults, evicted, lapsed, astray, unseen>>

(* A statement fails or the worker dies: the flag stays. *)
FlushFails(f) ==
  /\ faults < MaxFaults /\ flush[f].at # "idle"
  /\ faults' = faults + 1
  /\ flush' = [flush EXCEPT ![f] = NoFlush]
  /\ UNCHANGED <<blob, dirty, row, hold, req, clock, evicted, lapsed, astray, unseen>>

-----------------------------------------------------------------------------
RequestStep(w) ==
  \/ Ask(w) \/ Watch(w) \/ ReadMiss(w) \/ Load(w) \/ Warm(w) \/ Mutate(w) \/ Refuse(w)
  \/ Commit(w) \/ ExecAborts(w) \/ Reconcile(w) \/ Answer409(w) \/ Fail(w)

FlushStep(f) ==
  FlushFind(f) \/ FlushFill(f) \/ Upsert(f) \/ Compare(f) \/ Clear(f)

Next ==
  \/ \E w \in Requests : RequestStep(w)
  \/ \E f \in Flushers : FlushStep(f) \/ FlushFails(f)
  \/ \E v \in Variants : Lapse(v)
  \/ Evict

Spec == Init /\ [][Next]_vars

(* The flush timer fires and its steps are taken. *)
FairSpec == Spec /\ \A f \in Flushers : WF_vars(FlushStep(f))

-----------------------------------------------------------------------------
(* Every variable has its type: no line and no hold beyond the stock.            *)
TypeOK ==
  /\ blob \in State \cup {NoState} /\ row \in State /\ dirty \in BOOLEAN
  /\ hold \in [Variants -> Units]
  /\ \A w \in Requests :
       /\ req[w].at \in {"idle", "watch", "miss", "fill", "mutate", "exec", "fix"}
       /\ req[w].op \in Op \cup {NoOp} /\ req[w].clean \in BOOLEAN
       /\ req[w].found \in State \cup {NoState} /\ req[w].new \in State \cup {NoState}
       /\ req[w].tries \in 0..MaxTries /\ req[w].moved \subseteq Variants
       /\ req[w].todo \subseteq Variants
  /\ \A f \in Flushers : /\ flush[f].at \in {"idle", "fill", "upsert", "compare", "clear"}
                         /\ flush[f].s \in State \cup {NoState}
  /\ clock \in 0..MaxEdits /\ faults \in 0..MaxFaults
  /\ evicted \in BOOLEAN /\ unseen \in BOOLEAN
  /\ lapsed \subseteq Variants /\ astray \subseteq Variants

(* No acknowledged edit is lost to another one ("fixes the S4 last-write-wins    *)
(* loss", mutate), as long as Redis keeps the blob.                              *)
AckedEditsKept == ~evicted => blob # NoState /\ blob.edits = 1..clock

(* The holds are those of the cart's lines when nobody is at work on them,       *)
(* whatever attempts were repeated: reserve is idempotent on the absolute        *)
(* quantity.  Excepted are holds that ran out and those an edit that failed, or  *)
(* a removal that found its line gone on replay, left behind.                    *)
InWork == UNION {req[w].moved \cup req[w].todo : w \in {u \in Requests : req[u].at # "idle"}}

HoldsFollowCart ==
  ~evicted => \A v \in Variants \ (InWork \cup lapsed \cup astray) :
                hold[v] = blob.lines[v].qty

(* An edit that is not in Postgres yet is flagged to be flushed, "never silently *)
(* dropped" (flushDirty), but for an edit between the comparison and the SREM    *)
(* and a slower flush, or refill, of another state.                              *)
Saved == blob = NoState \/ blob.edits \subseteq row.edits

UnsavedIsFlagged == Saved \/ dirty \/ unseen

(* Every edit reaches Postgres, with the same exceptions. *)
EditsReachPostgres == []<>(Saved \/ unseen)

(* "Atomic read-modify-write" (mutate): the promise without attempts, see        *)
(* CartRegister, as long as Redis keeps the blob.                                *)
KeptCart == IF evicted THEN [status |-> "lost"]
            ELSE [lines |-> blob.lines, status |-> blob.status, edits |-> clock]

Register == INSTANCE CartRegister WITH cart <- KeptCart

ImplementsRegister == Register!Spec

=============================================================================
