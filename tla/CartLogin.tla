-------------------------------- MODULE CartLogin --------------------------------
(***************************************************************************)
(* A guest cart meets its customers: CartAssociateService.associateCustomer *)
(* claims the cart in Postgres and then in Redis, or merges it into the     *)
(* active cart the customer already has.  Two customers may hold the cookie *)
(* of one guest cart, and log in at the same moment.                        *)
(*                                                                          *)
(* mutate is one step here: that no edit is lost to another, and what an    *)
(* evicted blob costs, is CartStore's subject.  A cart's token is rotated   *)
(* with its owner, so a guest's cookie opens exactly the unowned carts.     *)
(* Items are named by the cart and the order they were added in; currency,  *)
(* totals, holds and the clamp to stock are left out.                       *)
(***************************************************************************)
EXTENDS Integers, FiniteSets

CONSTANTS
  Customers,
  Carts,     \* guest carts of one tenant, just created
  Logins,    \* POST /carts/:id/associate, each of one customer with one cart
  MaxItems,  \* how many items are put into a cart
  MaxDeaths, \* how many processes die
  Nobody

ASSUME LoginAssumption ==
  /\ IsFiniteSet(Customers) /\ IsFiniteSet(Carts) /\ IsFiniteSet(Logins)
  /\ Nobody \notin Customers \cup Carts
  /\ MaxItems \in Nat \ {0} /\ MaxDeaths \in Nat

VARIABLES
  blobs,     \* [Carts -> Blob]  Redis
  rows,      \* [Carts -> Row]  Postgres
  toFlush,    \* carts to flush
  copy,     \* [Carts -> Blob or NoBlob]  a blob a flush has read
  login,    \* [Logins -> Login]
  made,     \* [Carts -> Nat]  items put into the cart so far
  deaths,
  \* read by properties only:
  taker,    \* [Carts -> Customers]  whose login took the items
  reopened, \* carts whose abandoned row a flush made active again
  dropped   \* items their customer abandoned, or a login lost between two carts

loginVars == <<blobs, rows, toFlush, copy, login, made, deaths, taker, reopened, dropped>>

-----------------------------------------------------------------------------
Items  == Carts \X (1..MaxItems)
Owner  == Customers \cup {Nobody}
Status == {"active", "abandoned"}
Blob   == [status: Status, owner: Owner, items: SUBSET Items]
NoBlob == [status |-> "none"]
Row    == [status: Status, owner: Owner]

Login == [at: {"idle", "claim", "adopt", "merge", "check", "abandon", "capture", "join", "over"},
          who: Owner, cart: Carts \cup {Nobody}, winner: Carts \cup {Nobody}, items: SUBSET Items]
NoLogin == [at |-> "idle", who |-> Nobody, cart |-> Nobody, winner |-> Nobody, items |-> {}]

LoginInit ==
  /\ blobs = [x \in Carts |-> [status |-> "active", owner |-> Nobody, items |-> {<<x, 1>>}]]
  /\ rows = [x \in Carts |-> [status |-> "active", owner |-> Nobody]]
  /\ toFlush = Carts
  /\ copy = [x \in Carts |-> NoBlob]
  /\ login = [l \in Logins |-> NoLogin]
  /\ made = [x \in Carts |-> 1]
  /\ deaths = 0
  /\ taker = [x \in Carts |-> Nobody]
  /\ reopened = {} /\ dropped = {}

(* Postgres: the partial unique index on (tenant, customer) of active carts. *)
Taken(x, c) == \E y \in Carts \ {x} : rows[y] = [status |-> "active", owner |-> c]

To(l, step)   == login' = [login EXCEPT ![l].at = step]
(* What a customer can no longer reach when a login ends early. *)
Ends(l)       == /\ login' = [login EXCEPT ![l].at = "over", ![l].items = {}]
                 /\ dropped' = dropped \cup login[l].items

-----------------------------------------------------------------------------
(* Edits of a live cart. *)
Add(x) ==
  /\ blobs[x].status = "active" /\ made[x] < MaxItems
  /\ made' = [made EXCEPT ![x] = @ + 1]
  /\ blobs' = [blobs EXCEPT ![x].items = @ \cup {<<x, made[x] + 1>>}]
  /\ toFlush' = toFlush \cup {x}
  /\ UNCHANGED <<rows, copy, login, deaths, taker, reopened, dropped>>

Abandon(x) ==
  /\ blobs[x].status = "active"
  /\ blobs' = [blobs EXCEPT ![x].status = "abandoned", ![x].items = {}]
  /\ toFlush' = toFlush \cup {x}
  /\ dropped' = dropped \cup blobs[x].items
  /\ UNCHANGED <<rows, copy, login, made, deaths, taker, reopened>>

(* The flush: read the blob, upsert the row.  A guest's blob leaves the row's    *)
(* owner alone; a row the unique index refuses stays dirty.                      *)
FlushRead(x) ==
  /\ x \in toFlush /\ copy[x] = NoBlob
  /\ copy' = [copy EXCEPT ![x] = blobs[x]]
  /\ UNCHANGED <<blobs, rows, toFlush, login, made, deaths, taker, reopened, dropped>>

FlushedOwner(x) == IF copy[x].owner = Nobody THEN rows[x].owner ELSE copy[x].owner
Accepted(x)     == copy[x].status = "active" /\ FlushedOwner(x) # Nobody => ~Taken(x, FlushedOwner(x))

FlushWrite(x) ==
  /\ copy[x] # NoBlob
  /\ copy' = [copy EXCEPT ![x] = NoBlob]
  /\ IF Accepted(x)
     THEN /\ rows' = [rows EXCEPT ![x] = [status |-> copy[x].status, owner |-> FlushedOwner(x)]]
          /\ toFlush' = IF blobs[x] = copy[x] THEN toFlush \ {x} ELSE toFlush
          /\ reopened' = IF rows[x].status = "abandoned" /\ copy[x].status = "active"
                         THEN reopened \cup {x} ELSE reopened
     ELSE UNCHANGED <<rows, toFlush, reopened>>
  /\ UNCHANGED <<blobs, login, made, deaths, taker, dropped>>

-----------------------------------------------------------------------------
(* associateCustomer: findById and authoriseCart with the cookie.  A cart the    *)
(* cookie does not open, or that is this customer's already, changes nothing.    *)
Begin(l) ==
  /\ login[l].at = "idle"
  /\ \E c \in Customers, x \in Carts :
       /\ blobs[x].status = "active" /\ blobs[x].owner = Nobody
       /\ login' = [login EXCEPT ![l] = [NoLogin EXCEPT !.at = "claim", !.who = c, !.cart = x]]
  /\ UNCHANGED <<blobs, rows, toFlush, copy, made, deaths, taker, reopened, dropped>>

(* Mutants: a row another customer owns; whatever else the customer has. *)
AnyActive(x, c) == rows[x].status = "active"
NoIndex(x, c)   == FALSE

(* claimCustomer and tryAbandonOwnGuestCart: an active row, unowned or mine. *)
Claimable(x, c) == rows[x].status = "active" /\ rows[x].owner \in {Nobody, c}
HasOther(x, c)  == Taken(x, c)

(* One UPDATE: it claims the cart, or the index refuses it (23505) and the cart  *)
(* is merged, or it matches no row and the request ends with 403 or 409.         *)
Claim(l) ==
  LET x == login[l].cart c == login[l].who IN
  /\ login[l].at = "claim"
  /\ \/ /\ Claimable(x, c) /\ ~HasOther(x, c)
        /\ rows' = [rows EXCEPT ![x].owner = c]
        /\ To(l, "adopt")
     \/ /\ Claimable(x, c) /\ HasOther(x, c)
        /\ rows' = rows /\ To(l, "merge")
     \/ /\ ~Claimable(x, c)
        /\ rows' = rows /\ To(l, "over")
  /\ UNCHANGED <<blobs, toFlush, copy, made, deaths, taker, reopened, dropped>>

(* The adoption in Redis, for a cookie that still opens the cart. *)
Adopt(l) ==
  LET x == login[l].cart IN
  /\ login[l].at = "adopt"
  /\ IF blobs[x].status = "active" /\ blobs[x].owner = Nobody
     THEN /\ blobs' = [blobs EXCEPT ![x].owner = login[l].who]
          /\ toFlush' = toFlush \cup {x}
     ELSE UNCHANGED <<blobs, toFlush>>
  /\ To(l, "over")
  /\ UNCHANGED <<rows, copy, made, deaths, taker, reopened, dropped>>

(* Mutant of Winners: by now it may be the guest cart itself. *)
AllMine(l) == {y \in Carts : rows[y] = [status |-> "active", owner |-> login[l].who]}

(* The winner is the active cart Postgres knows; its blob must be live too. *)
Winners(l) == AllMine(l) \ {login[l].cart}

FindWinner(l) ==
  /\ login[l].at = "merge"
  /\ IF Winners(l) = {} THEN To(l, "over")
     ELSE \E y \in Winners(l) : login' = [login EXCEPT ![l].at = "check", ![l].winner = y]
  /\ UNCHANGED <<blobs, rows, toFlush, copy, made, deaths, taker, reopened, dropped>>

CheckWinner(l) ==
  /\ login[l].at = "check"
  /\ To(l, IF blobs[login[l].winner].status = "active" THEN "abandon" ELSE "over")
  /\ UNCHANGED <<blobs, rows, toFlush, copy, made, deaths, taker, reopened, dropped>>

(* tryAbandonOwnGuestCart: Postgres decides who takes the cart. *)
MayTake(x, c) == Claimable(x, c)

TryAbandon(l) ==
  LET x == login[l].cart IN
  /\ login[l].at = "abandon"
  /\ IF MayTake(x, login[l].who)
     THEN rows' = [rows EXCEPT ![x].status = "abandoned"] /\ To(l, "capture")
     ELSE rows' = rows /\ To(l, "over")
  /\ UNCHANGED <<blobs, toFlush, copy, made, deaths, taker, reopened, dropped>>

(* Mutant: the captured items stay in the abandoned blob. *)
KeepItems(b) == [b EXCEPT !.status = "abandoned"]
Emptied(b)   == [b EXCEPT !.status = "abandoned", !.items = {}]

Capture(l) ==
  LET x == login[l].cart IN
  /\ login[l].at = "capture"
  /\ IF blobs[x].owner \in {Nobody, login[l].who}
     THEN /\ login' = [login EXCEPT ![l].at = "join", ![l].items = blobs[x].items]
          /\ blobs' = [blobs EXCEPT ![x] = Emptied(@)]
          /\ toFlush' = toFlush \cup {x}
          /\ taker' = [taker EXCEPT ![x] = login[l].who]
     ELSE UNCHANGED <<blobs, toFlush, taker>> /\ To(l, "over")
  /\ UNCHANGED <<rows, copy, made, deaths, reopened, dropped>>

(* The merge, into a winner that is still active and this customer's; else 409,  *)
(* and the captured items are in no cart.                                        *)
Join(l) ==
  LET w == login[l].winner IN
  /\ login[l].at = "join"
  /\ IF blobs[w].status = "active" /\ blobs[w].owner = login[l].who
     THEN /\ blobs' = [blobs EXCEPT ![w].items = @ \cup login[l].items]
          /\ toFlush' = toFlush \cup {w}
          /\ login' = [login EXCEPT ![l].at = "over", ![l].items = {}]
          /\ dropped' = dropped
     ELSE UNCHANGED <<blobs, toFlush>> /\ Ends(l)
  /\ UNCHANGED <<rows, copy, made, deaths, taker, reopened>>

(* The process dies between two of these steps. *)
Die(l) ==
  /\ deaths < MaxDeaths /\ login[l].at \notin {"idle", "over"}
  /\ deaths' = deaths + 1
  /\ Ends(l)
  /\ UNCHANGED <<blobs, rows, toFlush, copy, made, taker, reopened>>

-----------------------------------------------------------------------------
LoginStep(l) ==
  \/ Begin(l) \/ Claim(l) \/ Adopt(l) \/ FindWinner(l) \/ CheckWinner(l)
  \/ TryAbandon(l) \/ Capture(l) \/ Join(l)

LoginNext ==
  \/ \E l \in Logins : LoginStep(l) \/ Die(l)
  \/ \E x \in Carts : Add(x) \/ Abandon(x) \/ FlushRead(x) \/ FlushWrite(x)

LoginSpec == LoginInit /\ [][LoginNext]_loginVars

-----------------------------------------------------------------------------
(* Every variable has its type; no login merges a cart into itself. *)
LoginTypeOK ==
  /\ blobs \in [Carts -> Blob] /\ rows \in [Carts -> Row] /\ toFlush \subseteq Carts
  /\ copy \in [Carts -> Blob \cup {NoBlob}]
  /\ login \in [Logins -> Login]
  /\ \A l \in Logins : login[l].winner # Nobody => login[l].winner # login[l].cart
  /\ made \in [Carts -> 1..MaxItems] /\ deaths \in 0..MaxDeaths
  /\ taker \in [Carts -> Owner] /\ reopened \subseteq Carts /\ dropped \subseteq Items

(* "A race loser never commits ownership to Redis": who owns a cart in Redis     *)
(* owns it in Postgres, and no customer has two live carts.  A blob may outlive  *)
(* its row: a login that abandoned the row has still to capture it.              *)
Live(x) == blobs[x].status = "active" /\ rows[x].status = "active"

OwnersAgree ==
  /\ \A x \in Carts : blobs[x].owner # Nobody => rows[x].owner = blobs[x].owner
  /\ \A x, y \in Carts : x # y /\ blobs[x].owner = blobs[y].owner /\ blobs[x].owner # Nobody
       => ~(Live(x) /\ Live(y))

(* "We never capture and destroy a stranger's just-adopted cart": the customer   *)
(* who took a cart's items is not another than the one Postgres gave it to.      *)
(* Excepted is a cart whose row a flush made active again behind the abandon.    *)
AdoptedNotCaptured ==
  \A x \in Carts \ reopened : taker[x] # Nobody => rows[x].owner \in {Nobody, taker[x]}

(* An item is in one place, a cart or the hands of a login that merges it, and   *)
(* in none only when its customer abandoned it or its login was cut short.       *)
Made == {i \in Items : i[2] <= made[i[1]]}

ItemsInOnePlace ==
  \A i \in Made :
    LET inCarts  == {x \in Carts : i \in blobs[x].items}
        inLogins == {l \in Logins : i \in login[l].items}
    IN Cardinality(inCarts) + Cardinality(inLogins) = IF i \in dropped THEN 0 ELSE 1

=============================================================================
