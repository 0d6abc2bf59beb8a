------------------------------ MODULE CartProofs ------------------------------
(***************************************************************************)
(* CartLogin.tla for every number of customers, carts and logins.           *)
(*                                                                          *)
(* Postgres is the arbiter, and the proof says why: once a cart's row has   *)
(* an owner it keeps it (a flush writes a blob's owner only over the same   *)
(* owner, RowKnows), an owner has one active row (OneActive), and a login   *)
(* that comes to capture a cart has abandoned its row, which nobody can     *)
(* claim any more (CaptureInv).                                             *)
(***************************************************************************)
EXTENDS CartLogin, CartStore, FiniteSetTheorems, WellFoundedInduction, TLAPS

(* A login at work has a customer and a cart, and one that merges a winner. *)
WorkTyped ==
  \A l \in Logins :
    /\ login[l].at # "idle" => login[l].who \in Customers /\ login[l].cart \in Carts
    /\ login[l].at \in {"check", "abandon", "capture", "join"} => login[l].winner \in Carts

(* What a flush or a login is about to write agrees with the row. *)
RowKnows ==
  /\ \A x \in Carts : copy[x] # NoBlob => copy[x] \in Blob
  /\ \A x \in Carts : copy[x] # NoBlob /\ copy[x].owner # Nobody => rows[x].owner = copy[x].owner
  /\ \A l \in Logins : login[l].at = "adopt" => rows[login[l].cart].owner = login[l].who

OneActive ==
  \A x, y \in Carts : x # y /\ rows[x].owner = rows[y].owner /\ rows[x].owner # Nobody
    => "abandoned" \in {rows[x].status, rows[y].status}

Gone(x, c) == x \in reopened \/ (rows[x].status = "abandoned" /\ rows[x].owner \in {Nobody, c})

CaptureInv ==
  /\ \A l \in Logins : login[l].at = "capture" => Gone(login[l].cart, login[l].who)
  /\ \A x \in Carts : taker[x] # Nobody => Gone(x, taker[x])

(* Items in the carts b, in the hands h of logins, dropped d; m are made. *)
Placed(b, h, d, m) ==
  /\ \A x \in Carts : b[x] \subseteq m
  /\ \A l \in Logins : h[l] \subseteq m
  /\ d \subseteq m
  /\ \A x, y \in Carts : x # y => b[x] \cap b[y] = {}
  /\ \A l, k \in Logins : l # k => h[l] \cap h[k] = {}
  /\ \A x \in Carts, l \in Logins : b[x] \cap h[l] = {}
  /\ \A x \in Carts : b[x] \cap d = {}
  /\ \A l \in Logins : h[l] \cap d = {}
  /\ \A i \in m : i \in d \/ (\E x \in Carts : i \in b[x]) \/ (\E l \in Logins : i \in h[l])

InCarts == [x \in Carts |-> blobs[x].items]
InHands == [l \in Logins |-> login[l].items]
HandsEmpty == \A l \in Logins : login[l].at # "join" => login[l].items = {}

OwnerInv == RowKnows /\ OneActive /\ OwnersAgree
ItemsInv == Placed(InCarts, InHands, dropped, Made) /\ HandsEmpty
IInv     == LoginTypeOK /\ WorkTyped /\ OwnerInv /\ CaptureInv /\ ItemsInv

-----------------------------------------------------------------------------
LEMMA Constants == MaxItems \in Nat \ {0} /\ MaxDeaths \in Nat /\ Nobody \notin Customers \cup Carts
BY LoginAssumption DEF LoginAssumption

LEMMA InitIInv == LoginInit => IInv
<1> SUFFICES ASSUME LoginInit PROVE IInv
  OBVIOUS
<1>1. \A x \in Carts : <<x, 1>> \in Items
  BY Constants DEF Items
<1>2. LoginTypeOK
  <2>1. blobs \in [Carts -> Blob] /\ rows \in [Carts -> Row] /\ copy \in [Carts -> Blob \cup {NoBlob}]
    BY <1>1 DEF LoginInit, Blob, Row, Status, Owner
  <2>2. login \in [Logins -> Login]
    BY DEF LoginInit, Login, NoLogin, Owner
  <2>3. made \in [Carts -> 1..MaxItems] /\ deaths \in 0..MaxDeaths
    BY Constants DEF LoginInit
  <2>4. \A l \in Logins : login[l].winner = Nobody
    BY DEF LoginInit, NoLogin
  <2>5. taker \in [Carts -> Owner] /\ toFlush \subseteq Carts /\ reopened \subseteq Carts /\ dropped \subseteq Items
    BY DEF LoginInit, Owner
  <2>6. QED
    BY <2>1, <2>2, <2>3, <2>4, <2>5 DEF LoginTypeOK
<1>3. WorkTyped /\ OwnerInv /\ CaptureInv
  BY DEF LoginInit, WorkTyped, OwnerInv, RowKnows, OneActive, OwnersAgree, CaptureInv, NoLogin
<1>4. ItemsInv
  <2>1. Made = {i \in Items : i[2] <= 1}
    BY DEF LoginInit, Made, Items
  <2>2. \A i \in Made : i = <<i[1], 1>> /\ i[1] \in Carts
    BY <2>1, Constants DEF Items
  <2>3. InCarts = [x \in Carts |-> {<<x, 1>>}] /\ InHands = [l \in Logins |-> {}] /\ dropped = {}
    BY DEF LoginInit, InCarts, InHands, NoLogin
  <2>4. Placed(InCarts, InHands, dropped, Made)
    BY <1>1, <2>1, <2>2, <2>3 DEF Placed
  <2>5. QED
    BY <2>4 DEF ItemsInv, HandsEmpty, LoginInit, NoLogin
<1>5. QED
  BY <1>2, <1>3, <1>4 DEF IInv

-----------------------------------------------------------------------------
(* A login that goes on to another step, and nothing else. *)
LEMMA OneLogin ==
  ASSUME IInv, NEW l \in Logins, NEW v, login' = [login EXCEPT ![l] = v]
  PROVE  \A k \in Logins : login'[k] = IF k = l THEN v ELSE login[k]
BY DEF IInv, LoginTypeOK

LEMMA LoginAt ==
  ASSUME IInv, NEW l \in Logins, NEW step \in {"adopt", "merge", "over", "abandon", "capture"}
  PROVE  LET v == [login[l] EXCEPT !.at = step] IN
         v \in Login /\ v.at = step /\ v.who = login[l].who /\ v.cart = login[l].cart
         /\ v.winner = login[l].winner /\ v.items = login[l].items
<1>1. login[l] \in Login
  BY DEF IInv, LoginTypeOK
<1>2. QED
  BY <1>1 DEF Login

LEMMA LoginTyped ==
  ASSUME IInv, NEW l \in Logins, NEW v \in Login, login' = [login EXCEPT ![l] = v],
         v.at # "idle" => v.who \in Customers /\ v.cart \in Carts,
         v.at \in {"check", "abandon", "capture", "join"} => v.winner \in Carts,
         v.winner # Nobody => v.winner # v.cart
  PROVE  /\ login' \in [Logins -> Login] /\ WorkTyped'
         /\ \A k \in Logins : login'[k].winner # Nobody => login'[k].winner # login'[k].cart
<1>1. \A k \in Logins : login'[k] = IF k = l THEN v ELSE login[k]
  <2>1. DOMAIN login = Logins
    BY DEF IInv, LoginTypeOK
  <2>2. QED
    BY <2>1
<1>2. login' \in [Logins -> Login]
  <2>1. login \in [Logins -> Login]
    BY DEF IInv, LoginTypeOK
  <2>2. QED
    BY <2>1
<1>3. WorkTyped'
  <2> SUFFICES ASSUME NEW k \in Logins
               PROVE  /\ login'[k].at # "idle" => login'[k].who \in Customers /\ login'[k].cart \in Carts
                      /\ login'[k].at \in {"check", "abandon", "capture", "join"} => login'[k].winner \in Carts
    BY DEF WorkTyped
  <2>1. CASE k = l
    <3>1. login'[k] = v
      BY <1>1, <2>1
    <3>2. QED
      BY <3>1
  <2>2. CASE k # l
    <3>1. login'[k] = login[k]
      BY <1>1, <2>2
    <3>2. QED
      BY <3>1 DEF IInv, WorkTyped
  <2>3. QED
    BY <2>1, <2>2
<1>4. \A k \in Logins : login[k].winner # Nobody => login[k].winner # login[k].cart
  BY DEF IInv, LoginTypeOK
<1>5. \A k \in Logins : login'[k].winner # Nobody => login'[k].winner # login'[k].cart
  BY <1>1, <1>4
<1>6. QED
  BY <1>2, <1>3, <1>5

LoginsOK == /\ login \in [Logins -> Login] /\ WorkTyped
            /\ \A k \in Logins : login[k].winner # Nobody => login[k].winner # login[k].cart

(* A step of a login to a later one. *)
LEMMA ToTyped ==
  ASSUME IInv, NEW l \in Logins, NEW step \in {"adopt", "merge", "over", "abandon", "capture"},
         To(l, step), login[l].at # "idle",
         step \in {"abandon", "capture"} => login[l].winner \in Carts
  PROVE  LoginsOK'
<1> DEFINE v == [login[l] EXCEPT !.at = step]
<1>1. login' = [login EXCEPT ![l] = v]
  BY DEF To, IInv, LoginTypeOK
<1>2. v \in Login /\ v.at = step /\ v.who = login[l].who /\ v.cart = login[l].cart /\ v.winner = login[l].winner
  BY LoginAt
<1>3. login[l].who \in Customers /\ login[l].cart \in Carts
      /\ (login[l].winner # Nobody => login[l].winner # login[l].cart)
  BY DEF IInv, LoginTypeOK, WorkTyped
<1> HIDE DEF v
<1>4. QED
  BY <1>1, <1>2, <1>3, LoginTyped DEF LoginsOK

LEMMA LoginsStep ==
  ASSUME IInv, NEW l \in Logins, LoginStep(l) \/ Die(l)
  PROVE  LoginsOK'
<1> USE DEF To
<1>0. login[l] \in Login /\ DOMAIN login = Logins
  BY DEF IInv, LoginTypeOK
<1>1. CASE Begin(l)
  <2>1. PICK c \in Customers, x \in Carts :
          login' = [login EXCEPT ![l] = [NoLogin EXCEPT !.at = "claim", !.who = c, !.cart = x]]
    BY <1>1 DEF Begin
  <2> DEFINE v == [NoLogin EXCEPT !.at = "claim", !.who = c, !.cart = x]
  <2>2. v \in Login /\ v.at = "claim" /\ v.who = c /\ v.cart = x /\ v.winner = Nobody
    BY DEF NoLogin, Login, Owner
  <2> HIDE DEF v
  <2>3. QED
    BY <2>1, <2>2, LoginTyped DEF LoginsOK, v
<1>2. CASE Claim(l)
  BY <1>2, ToTyped DEF Claim
<1>3. CASE Adopt(l)
  BY <1>3, ToTyped DEF Adopt
<1>4. CASE FindWinner(l)
  <2>1. CASE Winners(l) = {}
    BY <1>4, <2>1, ToTyped DEF FindWinner
  <2>2. CASE Winners(l) # {}
    <3>1. PICK y \in Winners(l) : login' = [login EXCEPT ![l].at = "check", ![l].winner = y]
      BY <1>4, <2>2 DEF FindWinner
    <3> DEFINE v == [login[l] EXCEPT !.at = "check", !.winner = y]
    <3>2. login' = [login EXCEPT ![l] = v]
      BY <1>0, <3>1
    <3>3. y \in Carts /\ y # login[l].cart
      BY DEF Winners, AllMine
    <3>4. v \in Login /\ v.at = "check" /\ v.who = login[l].who /\ v.cart = login[l].cart /\ v.winner = y
      BY <1>0, <3>3 DEF Login
    <3>5. login[l].who \in Customers /\ login[l].cart \in Carts
      BY <1>4 DEF FindWinner, IInv, WorkTyped
    <3> HIDE DEF v
    <3>6. QED
      BY <3>2, <3>3, <3>4, <3>5, LoginTyped DEF LoginsOK
  <2>3. QED
    BY <2>1, <2>2
<1>5. CASE CheckWinner(l)
  <2>1. login[l].at = "check" /\ login[l].winner \in Carts
    BY <1>5 DEF CheckWinner, IInv, WorkTyped
  <2>2. QED
    BY <1>5, <2>1, ToTyped DEF CheckWinner
<1>6. CASE TryAbandon(l)
  <2>1. login[l].at = "abandon" /\ login[l].winner \in Carts
    BY <1>6 DEF TryAbandon, IInv, WorkTyped
  <2>2. QED
    BY <1>6, <2>1, ToTyped DEF TryAbandon
<1>7. ASSUME NEW step \in {"join", "over"}, NEW items \in SUBSET Items,
             login' = [login EXCEPT ![l].at = step, ![l].items = items],
             login[l].at # "idle", step = "join" => login[l].winner \in Carts
      PROVE  LoginsOK'
  <2> DEFINE v == [login[l] EXCEPT !.at = step, !.items = items]
  <2>1. login' = [login EXCEPT ![l] = v]
    BY <1>0, <1>7
  <2>2. v \in Login /\ v.at = step /\ v.who = login[l].who /\ v.cart = login[l].cart /\ v.winner = login[l].winner
    BY <1>0 DEF Login
  <2>3. login[l].who \in Customers /\ login[l].cart \in Carts
        /\ (login[l].winner # Nobody => login[l].winner # login[l].cart)
    BY <1>7 DEF IInv, LoginTypeOK, WorkTyped
  <2> HIDE DEF v
  <2>4. v.who \in Customers /\ v.cart \in Carts /\ (v.winner # Nobody => v.winner # v.cart)
    BY <2>2, <2>3
  <2>5. v.at \in {"check", "abandon", "capture", "join"} => v.winner \in Carts
    BY <1>7, <2>2
  <2>6. QED
    BY <2>1, <2>2, <2>4, <2>5, LoginTyped DEF LoginsOK
<1>8. CASE Capture(l)
  <2>1. login[l].at = "capture" /\ login[l].winner \in Carts /\ login[l].cart \in Carts
    BY <1>8 DEF Capture, IInv, WorkTyped
  <2>2. blobs[login[l].cart].items \in SUBSET Items
    BY <2>1 DEF IInv, LoginTypeOK, Blob
  <2>3. CASE To(l, "over")
    BY <2>1, <2>3, ToTyped
  <2>4. QED
    BY <1>7, <1>8, <2>1, <2>2, <2>3 DEF Capture
<1>9. CASE Join(l) \/ Die(l)
  BY <1>7, <1>9 DEF Join, Die, Ends
<1>10. QED
  BY <1>1, <1>2, <1>3, <1>4, <1>5, <1>6, <1>8, <1>9 DEF LoginStep

-----------------------------------------------------------------------------
(* The types of a cart, a row and a flush's copy. *)
LEMMA TypesStep ==
  ASSUME IInv, [LoginNext]_loginVars PROVE LoginTypeOK' /\ WorkTyped'
<1>0. LoginTypeOK /\ LoginsOK
  BY DEF IInv, LoginTypeOK, LoginsOK
<1>1. LoginsOK'
  <2>1. CASE \E l \in Logins : LoginStep(l) \/ Die(l)
    BY <2>1, LoginsStep
  <2>2. CASE login' = login
    BY <1>0, <2>2 DEF LoginsOK, WorkTyped
  <2>3. QED
    BY <2>1, <2>2 DEF LoginNext, Add, Abandon, FlushRead, FlushWrite, loginVars
<1> DEFINE Rest == /\ blobs \in [Carts -> Blob] /\ rows \in [Carts -> Row] /\ toFlush \subseteq Carts
                   /\ copy \in [Carts -> Blob \cup {NoBlob}] /\ made \in [Carts -> 1..MaxItems]
                   /\ deaths \in 0..MaxDeaths /\ taker \in [Carts -> Owner] /\ reopened \subseteq Carts
                   /\ dropped \subseteq Items
<1>2. Rest
  BY <1>0 DEF LoginTypeOK
<1>3. \A l \in Logins : login[l].items \subseteq Items /\ (login[l].at # "idle" => login[l].cart \in Carts /\ login[l].who \in Customers)
  BY <1>0 DEF LoginsOK, WorkTyped, Login
<1>4. Rest'
  <2>1. ASSUME NEW x \in Carts, Add(x) PROVE Rest'
    <3>1. made[x] \in 1..MaxItems /\ made[x] + 1 \in 1..MaxItems
      BY <1>2, <2>1, Constants DEF Add
    <3>2. <<x, made[x] + 1>> \in Items /\ blobs[x].items \subseteq Items
      BY <1>2, <3>1 DEF Items, Blob
    <3>3. [blobs[x] EXCEPT !.items = @ \cup {<<x, made[x] + 1>>}] \in Blob
      BY <1>2, <3>2 DEF Blob
    <3>4. blobs' = [blobs EXCEPT ![x] = [blobs[x] EXCEPT !.items = @ \cup {<<x, made[x] + 1>>}]]
      BY <1>2, <2>1 DEF Add
    <3>5. blobs' \in [Carts -> Blob] /\ made' \in [Carts -> 1..MaxItems] /\ toFlush' \subseteq Carts
      BY <1>2, <2>1, <3>1, <3>3, <3>4 DEF Add
    <3>6. QED
      BY <1>2, <2>1, <3>5 DEF Add
  <2>2. ASSUME NEW x \in Carts, Abandon(x) PROVE Rest'
    <3>1. blobs' = [blobs EXCEPT ![x] = [blobs[x] EXCEPT !.status = "abandoned", !.items = {}]]
      BY <1>2, <2>2 DEF Abandon
    <3>2. [blobs[x] EXCEPT !.status = "abandoned", !.items = {}] \in Blob
      BY <1>2 DEF Blob, Status
    <3>3. blobs' \in [Carts -> Blob] /\ blobs[x].items \subseteq Items
      BY <1>2, <3>1, <3>2 DEF Blob
    <3>4. QED
      BY <1>2, <2>2, <3>3 DEF Abandon
  <2>3. ASSUME NEW x \in Carts, FlushRead(x) PROVE Rest'
    BY <1>2, <2>3 DEF FlushRead
  <2>4. ASSUME NEW x \in Carts, FlushWrite(x) PROVE Rest'
    <3>1. copy[x] \in Blob
      BY <1>2, <2>4 DEF FlushWrite
    <3>2. FlushedOwner(x) \in Owner /\ copy[x].status \in Status
      BY <1>2, <3>1 DEF FlushedOwner, Blob, Row
    <3>3. [status |-> copy[x].status, owner |-> FlushedOwner(x)] \in Row
      BY <3>2 DEF Row
    <3>4. QED
      BY <1>2, <2>4, <3>3 DEF FlushWrite
  <2>5. ASSUME NEW l \in Logins, Begin(l) \/ FindWinner(l) \/ CheckWinner(l) PROVE Rest'
    BY <1>2, <2>5 DEF Begin, FindWinner, CheckWinner
  <2>6. ASSUME NEW l \in Logins, Claim(l) PROVE Rest'
    <3> DEFINE x == login[l].cart
               v == [rows[x] EXCEPT !.owner = login[l].who]
    <3>1. x \in Carts /\ login[l].who \in Owner
      BY <1>3, <2>6 DEF Claim, Owner
    <3>2. rows' = rows \/ rows' = [rows EXCEPT ![x] = v]
      BY <1>2, <2>6 DEF Claim
    <3>3. v \in Row
      BY <1>2, <3>1 DEF Row
    <3> HIDE DEF x, v
    <3>4. rows' \in [Carts -> Row]
      BY <1>2, <3>1, <3>2, <3>3
    <3>5. QED
      BY <1>2, <2>6, <3>4 DEF Claim
  <2>7. ASSUME NEW l \in Logins, Adopt(l) PROVE Rest'
    <3> DEFINE x == login[l].cart
               v == [blobs[x] EXCEPT !.owner = login[l].who]
    <3>1. x \in Carts /\ login[l].who \in Owner
      BY <1>3, <2>7 DEF Adopt, Owner
    <3>2. \/ blobs' = blobs /\ toFlush' = toFlush
          \/ blobs' = [blobs EXCEPT ![x] = v] /\ toFlush' = toFlush \cup {x}
      BY <1>2, <2>7 DEF Adopt
    <3>3. v \in Blob
      BY <1>2, <3>1 DEF Blob
    <3> HIDE DEF x, v
    <3>4. blobs' \in [Carts -> Blob] /\ toFlush' \subseteq Carts
      BY <1>2, <3>1, <3>2, <3>3
    <3>5. QED
      BY <1>2, <2>7, <3>4 DEF Adopt
  <2>8. ASSUME NEW l \in Logins, TryAbandon(l) PROVE Rest'
    <3> DEFINE x == login[l].cart
               v == [rows[x] EXCEPT !.status = "abandoned"]
    <3>1. x \in Carts
      BY <1>3, <2>8 DEF TryAbandon
    <3>2. rows' = rows \/ rows' = [rows EXCEPT ![x] = v]
      BY <1>2, <2>8 DEF TryAbandon
    <3>3. v \in Row
      BY <1>2, <3>1 DEF Row, Status
    <3> HIDE DEF x, v
    <3>4. rows' \in [Carts -> Row]
      BY <1>2, <3>1, <3>2, <3>3
    <3>5. QED
      BY <1>2, <2>8, <3>4 DEF TryAbandon
  <2>9. ASSUME NEW l \in Logins, Capture(l) PROVE Rest'
    <3> DEFINE x == login[l].cart
               v == [blobs[x] EXCEPT !.status = "abandoned", !.items = {}]
    <3>1. x \in Carts /\ login[l].who \in Owner
      BY <1>3, <2>9 DEF Capture, Owner
    <3>2. \/ UNCHANGED <<blobs, toFlush, taker>>
          \/ /\ blobs' = [blobs EXCEPT ![x] = v]
             /\ toFlush' = toFlush \cup {x}
             /\ taker' = [taker EXCEPT ![x] = login[l].who]
      BY <1>2, <2>9 DEF Capture, Emptied
    <3>3. v \in Blob
      <4>1. blobs[x] \in Blob
        BY <1>2, <3>1
      <4>2. QED
        BY <4>1 DEF Blob, Status
    <3> HIDE DEF x, v
    <3>4. blobs' \in [Carts -> Blob] /\ toFlush' \subseteq Carts /\ taker' \in [Carts -> Owner]
      BY <1>2, <3>1, <3>2, <3>3
    <3>5. QED
      BY <1>2, <2>9, <3>4 DEF Capture
  <2>10. ASSUME NEW l \in Logins, Join(l) PROVE Rest'
    <3> DEFINE w == login[l].winner
    <3>1. w \in Carts /\ login[l].items \subseteq Items /\ blobs[w].items \subseteq Items
      BY <1>2, <1>3, <2>10 DEF Join, IInv, WorkTyped, Blob
    <3>2. \/ UNCHANGED <<blobs, toFlush>> /\ dropped' = dropped \cup login[l].items
          \/ /\ blobs' = [blobs EXCEPT ![w] = [blobs[w] EXCEPT !.items = blobs[w].items \cup login[l].items]]
             /\ toFlush' = toFlush \cup {w} /\ dropped' = dropped
      BY <1>2, <2>10 DEF Join, Ends
    <3> HIDE DEF w
    <3>3. [blobs[w] EXCEPT !.items = blobs[w].items \cup login[l].items] \in Blob
      BY <1>2, <3>1 DEF Blob
    <3>4. blobs' \in [Carts -> Blob] /\ toFlush' \subseteq Carts /\ dropped' \subseteq Items
      BY <1>2, <3>1, <3>2, <3>3
    <3>5. QED
      BY <1>2, <2>10, <3>4 DEF Join
  <2>11. ASSUME NEW l \in Logins, Die(l) PROVE Rest'
    <3>1. login[l].items \subseteq Items
      BY <1>3
    <3>2. deaths' \in 0..MaxDeaths
      BY <1>2, <2>11, Constants DEF Die
    <3>3. QED
      BY <1>2, <2>11, <3>1, <3>2 DEF Die, Ends
  <2>12. CASE UNCHANGED loginVars
    BY <1>2, <2>12 DEF loginVars
  <2>13. QED
    BY <2>1, <2>2, <2>3, <2>4, <2>5, <2>6, <2>7, <2>8, <2>9, <2>10, <2>11, <2>12 DEF LoginNext, LoginStep
<1>5. QED
  BY <1>1, <1>4 DEF LoginTypeOK, LoginsOK

-----------------------------------------------------------------------------
(* A row that has an owner keeps it, whatever a login or a flush writes. *)
KeepsOwner == \A x \in Carts : rows[x].owner # Nobody => rows'[x].owner = rows[x].owner

(* One row is written, in accord with the unique index. *)
LEMMA RowWritten ==
  ASSUME IInv, NEW x \in Carts, NEW r \in Row, rows' = [rows EXCEPT ![x] = r],
         rows[x].owner # Nobody => r.owner = rows[x].owner,
         r.status = "active" /\ r.owner # Nobody => ~Taken(x, r.owner)
  PROVE  KeepsOwner /\ OneActive'
<1>1. rows \in [Carts -> Row]
  BY DEF IInv, LoginTypeOK
<1>2. KeepsOwner
  BY <1>1 DEF KeepsOwner
<1>3. \A y \in Carts : rows'[y] = IF y = x THEN r ELSE rows[y]
  BY <1>1
<1>4. ASSUME NEW y \in Carts \ {x}, r.owner = rows[y].owner, r.owner # Nobody, r.status = "active"
      PROVE  rows[y].status = "abandoned"
  <2>1. rows[y] # [status |-> "active", owner |-> r.owner]
    BY <1>4 DEF Taken
  <2>2. rows[y] \in Row
    BY <1>1
  <2>3. QED
    BY <1>4, <2>1, <2>2 DEF Row, Status
<1>5. r.status \in Status
  BY DEF Row
<1>6. OneActive'
  <2> SUFFICES ASSUME NEW y \in Carts, NEW z \in Carts, y # z, rows'[y].owner = rows'[z].owner, rows'[y].owner # Nobody
               PROVE  "abandoned" \in {rows'[y].status, rows'[z].status}
    BY DEF OneActive
  <2>1. CASE y # x /\ z # x
    BY <1>3, <2>1 DEF IInv, OwnerInv, OneActive
  <2>2. CASE y = x \/ z = x
    BY <1>3, <1>4, <1>5, <2>2 DEF Status
  <2>3. QED
    BY <2>1, <2>2
<1>7. QED
  BY <1>2, <1>6

LEMMA FlushedRow ==
  ASSUME IInv, NEW x \in Carts, FlushWrite(x)
  PROVE  LET r == [status |-> copy[x].status, owner |-> FlushedOwner(x)] IN
         r \in Row /\ r.owner = FlushedOwner(x) /\ r.status = copy[x].status
         /\ FlushedOwner(x) = rows[x].owner
<1>1. copy[x] \in Blob /\ rows[x] \in Row
  BY DEF IInv, LoginTypeOK, OwnerInv, RowKnows, FlushWrite
<1>2. FlushedOwner(x) \in Owner /\ copy[x].status \in Status
  BY <1>1 DEF FlushedOwner, Blob, Row
<1>3. FlushedOwner(x) = rows[x].owner
  BY DEF FlushedOwner, IInv, OwnerInv, RowKnows, FlushWrite
<1>4. QED
  BY <1>2, <1>3 DEF Row

LEMMA RowsStep ==
  ASSUME IInv, [LoginNext]_loginVars PROVE KeepsOwner /\ OneActive'
<1>0. rows \in [Carts -> Row] /\ OneActive
  BY DEF IInv, LoginTypeOK, OwnerInv
<1>1. CASE rows' = rows
  BY <1>0, <1>1 DEF KeepsOwner, OneActive
<1>2. ASSUME NEW l \in Logins, Claim(l) PROVE KeepsOwner /\ OneActive'
  <2> DEFINE x == login[l].cart
             r == [rows[x] EXCEPT !.owner = login[l].who]
  <2>1. x \in Carts /\ login[l].who \in Customers /\ login[l].who # Nobody /\ rows[x] \in Row
    BY <1>0, <1>2, Constants DEF Claim, IInv, WorkTyped
  <2>2. r \in Row /\ r.owner = login[l].who
    BY <2>1 DEF Row, Owner
  <2>3. CASE Claimable(x, login[l].who) /\ ~HasOther(x, login[l].who) /\ rows' = [rows EXCEPT ![x] = r]
    <3>1. (rows[x].owner # Nobody => r.owner = rows[x].owner) /\ ~Taken(x, r.owner)
      BY <2>2, <2>3 DEF Claimable, HasOther
    <3> HIDE DEF r, x
    <3>2. QED
      BY <2>1, <2>2, <2>3, <3>1, RowWritten
  <2>4. rows' = rows \/ (Claimable(x, login[l].who) /\ ~HasOther(x, login[l].who) /\ rows' = [rows EXCEPT ![x] = r])
    BY <1>0, <1>2 DEF Claim
  <2>5. QED
    BY <1>1, <2>3, <2>4
<1>3. ASSUME NEW l \in Logins, TryAbandon(l) PROVE KeepsOwner /\ OneActive'
  <2> DEFINE x == login[l].cart
             r == [rows[x] EXCEPT !.status = "abandoned"]
  <2>1. x \in Carts /\ rows[x] \in Row
    BY <1>0, <1>3 DEF TryAbandon, IInv, WorkTyped
  <2>2. r \in Row /\ r.owner = rows[x].owner /\ r.status = "abandoned"
    BY <2>1 DEF Row, Status
  <2>3. rows' = rows \/ rows' = [rows EXCEPT ![x] = r]
    BY <1>0, <1>3 DEF TryAbandon
  <2> HIDE DEF r, x
  <2>4. QED
    BY <1>1, <2>1, <2>2, <2>3, RowWritten
<1>4. ASSUME NEW x \in Carts, FlushWrite(x) PROVE KeepsOwner /\ OneActive'
  <2> DEFINE r == [status |-> copy[x].status, owner |-> FlushedOwner(x)]
  <2>1. r \in Row /\ r.owner = FlushedOwner(x) /\ r.status = copy[x].status
        /\ FlushedOwner(x) = rows[x].owner
    BY <1>4, FlushedRow
  <2>2. rows' = rows \/ (Accepted(x) /\ rows' = [rows EXCEPT ![x] = r])
    BY <1>4 DEF FlushWrite
  <2>3. Accepted(x) => (r.status = "active" /\ r.owner # Nobody => ~Taken(x, r.owner))
    BY <2>1 DEF Accepted
  <2> HIDE DEF r
  <2>4. QED
    BY <1>1, <2>1, <2>2, <2>3, RowWritten
<1>5. QED
  BY <1>1, <1>2, <1>3, <1>4
  DEF LoginNext, LoginStep, Begin, Adopt, FindWinner, CheckWinner, Capture, Join, Die, Add, Abandon, FlushRead, loginVars

(* What Redis, a flush and a login know of an owner stays true. *)
LEMMA KnowsStep ==
  ASSUME IInv, [LoginNext]_loginVars PROVE RowKnows' /\ OwnersAgree'
<1>0. LoginTypeOK /\ RowKnows /\ WorkTyped /\ (LoginTypeOK /\ WorkTyped)' /\ KeepsOwner /\ OneActive'
  BY TypesStep, RowsStep DEF IInv, OwnerInv
<1> DEFINE BlobKnows == \A x \in Carts : blobs[x].owner # Nobody => rows[x].owner = blobs[x].owner
           CopyKnows == \A x \in Carts : copy[x] # NoBlob =>
                          copy[x] \in Blob /\ (copy[x].owner # Nobody => rows[x].owner = copy[x].owner)
           LoginKnows == \A l \in Logins : login[l].at = "adopt" => rows[login[l].cart].owner = login[l].who
<1>1. BlobKnows /\ CopyKnows /\ LoginKnows
  BY <1>0 DEF IInv, OwnerInv, OwnersAgree, RowKnows
<1>2. BlobKnows'
  <2>1. CASE blobs' = blobs
    BY <1>0, <1>1, <2>1 DEF KeepsOwner
  <2>2. ASSUME NEW x \in Carts, NEW b, blobs' = [blobs EXCEPT ![x] = b],
               b.owner = blobs[x].owner
        PROVE  BlobKnows'
    BY <1>0, <1>1, <2>2 DEF KeepsOwner, LoginTypeOK
  <2>3. ASSUME NEW x \in Carts, Add(x) \/ Abandon(x) PROVE BlobKnows'
    <3> DEFINE b == IF Add(x) THEN [blobs[x] EXCEPT !.items = @ \cup {<<x, made[x] + 1>>}]
                    ELSE [blobs[x] EXCEPT !.status = "abandoned", !.items = {}]
    <3>1. blobs[x] \in Blob
      BY <1>0 DEF LoginTypeOK
    <3>2. blobs' = [blobs EXCEPT ![x] = b]
      BY <1>0, <2>3 DEF Add, Abandon, LoginTypeOK
    <3>3. b.owner = blobs[x].owner
      BY <3>1 DEF Blob
    <3> HIDE DEF b
    <3>4. QED
      BY <2>2, <3>2, <3>3
  <2>4. ASSUME NEW l \in Logins, Adopt(l) PROVE BlobKnows'
    <3> DEFINE x == login[l].cart
               b == [blobs[x] EXCEPT !.owner = login[l].who]
    <3>1. x \in Carts /\ login[l].who # Nobody /\ rows[x].owner = login[l].who /\ blobs[x] \in Blob
      BY <1>0, <1>1, <2>4, Constants DEF Adopt, WorkTyped, LoginTypeOK
    <3>2. blobs' = blobs \/ blobs' = [blobs EXCEPT ![x] = b]
      BY <1>0, <2>4 DEF Adopt, LoginTypeOK
    <3>3. b.owner = login[l].who
      BY <3>1 DEF Blob
    <3>4. rows' = rows
      BY <2>4 DEF Adopt
    <3> HIDE DEF b, x
    <3>5. CASE blobs' = [blobs EXCEPT ![x] = b]
      <4>1. \A y \in Carts : blobs'[y] = IF y = x THEN b ELSE blobs[y]
        BY <1>0, <3>5 DEF LoginTypeOK
      <4>2. QED
        BY <1>1, <3>1, <3>3, <3>4, <4>1
    <3>6. QED
      BY <2>1, <3>2, <3>5
  <2>5. ASSUME NEW l \in Logins, Capture(l) PROVE BlobKnows'
    <3> DEFINE x == login[l].cart
               b == [blobs[x] EXCEPT !.status = "abandoned", !.items = {}]
    <3>1. x \in Carts /\ blobs[x] \in Blob
      BY <1>0, <2>5 DEF Capture, WorkTyped, LoginTypeOK
    <3>2. blobs' = blobs \/ blobs' = [blobs EXCEPT ![x] = b]
      BY <1>0, <2>5 DEF Capture, Emptied, LoginTypeOK
    <3>3. b.owner = blobs[x].owner
      BY <3>1 DEF Blob
    <3> HIDE DEF b, x
    <3>4. QED
      BY <2>1, <2>2, <3>1, <3>2, <3>3
  <2>6. ASSUME NEW l \in Logins, Join(l) PROVE BlobKnows'
    <3> DEFINE x == login[l].winner
               b == [blobs[x] EXCEPT !.items = @ \cup login[l].items]
    <3>1. x \in Carts /\ blobs[x] \in Blob
      BY <1>0, <2>6 DEF Join, WorkTyped, LoginTypeOK
    <3>2. blobs' = blobs \/ blobs' = [blobs EXCEPT ![x] = b]
      BY <1>0, <2>6 DEF Join, LoginTypeOK
    <3>3. b.owner = blobs[x].owner
      BY <3>1 DEF Blob
    <3> HIDE DEF b, x
    <3>4. QED
      BY <2>1, <2>2, <3>1, <3>2, <3>3
  <2>7. QED
    BY <2>1, <2>3, <2>4, <2>5, <2>6
    DEF LoginNext, LoginStep, Begin, Claim, FindWinner, CheckWinner, TryAbandon, Die, FlushRead, FlushWrite, loginVars
<1>3. CopyKnows'
  <2>1. CASE copy' = copy
    BY <1>0, <1>1, <2>1 DEF KeepsOwner
  <2>2. ASSUME NEW x \in Carts, FlushRead(x) PROVE CopyKnows'
    <3>1. \A y \in Carts : copy'[y] = IF y = x THEN blobs[x] ELSE copy[y]
      BY <1>0, <2>2 DEF FlushRead, LoginTypeOK
    <3>2. blobs[x] \in Blob /\ rows' = rows
      BY <1>0, <2>2 DEF FlushRead, LoginTypeOK
    <3>3. QED
      BY <1>1, <3>1, <3>2
  <2>3. ASSUME NEW x \in Carts, FlushWrite(x) PROVE CopyKnows'
    <3>1. \A y \in Carts : copy'[y] = IF y = x THEN NoBlob ELSE copy[y]
      BY <1>0, <2>3 DEF FlushWrite, LoginTypeOK
    <3>2. QED
      BY <1>0, <1>1, <3>1 DEF KeepsOwner
  <2>4. QED
    BY <2>1, <2>2, <2>3
    DEF LoginNext, LoginStep, Begin, Claim, Adopt, FindWinner, CheckWinner, TryAbandon, Capture, Join, Die, Add, Abandon, loginVars
<1>4. LoginKnows'
  <2> SUFFICES ASSUME NEW k \in Logins, login'[k].at = "adopt"
               PROVE  rows'[login'[k].cart].owner = login'[k].who
    OBVIOUS
  <2>1. CASE login'[k] = login[k]
    <3>1. login[k].at = "adopt" /\ login[k].cart \in Carts /\ login[k].who # Nobody
      BY <1>0, <2>1, Constants DEF WorkTyped
    <3>2. QED
      BY <1>0, <1>1, <2>1, <3>1 DEF KeepsOwner
  <2>2. CASE login'[k] # login[k]
    <3>1. PICK l \in Logins : LoginStep(l) \/ Die(l)
      BY <2>2 DEF LoginNext, Add, Abandon, FlushRead, FlushWrite, loginVars
    <3>2. login[l] \in Login
      BY <1>0 DEF LoginTypeOK
    <3>3. ASSUME NEW v, login' = [login EXCEPT ![l] = v], v.at # "adopt" PROVE FALSE
      <4>1. \A j \in Logins : login'[j] = IF j = l THEN v ELSE login[j]
        BY <1>0, <3>3 DEF LoginTypeOK
      <4>2. QED
        BY <2>2, <3>3, <4>1
    <3>4. ASSUME NEW step \in {"merge", "over", "abandon", "capture"}, To(l, step) PROVE FALSE
      <4>1. [login[l] EXCEPT !.at = step].at # "adopt"
        BY <3>2 DEF Login
      <4>2. login' = [login EXCEPT ![l] = [login[l] EXCEPT !.at = step]]
        BY <1>0, <3>4 DEF To, LoginTypeOK
      <4>3. QED
        BY <3>3, <4>1, <4>2
    <3>5. CASE Begin(l)
      <4>1. PICK c \in Customers, x \in Carts :
              login' = [login EXCEPT ![l] = [NoLogin EXCEPT !.at = "claim", !.who = c, !.cart = x]]
        BY <3>5 DEF Begin
      <4>2. [NoLogin EXCEPT !.at = "claim", !.who = c, !.cart = x].at # "adopt"
        BY DEF NoLogin
      <4>3. QED
        BY <3>3, <4>1, <4>2
    <3>6. CASE Claim(l)
      <4> DEFINE x == login[l].cart
                 v == [login[l] EXCEPT !.at = "adopt"]
                 r == [rows[x] EXCEPT !.owner = login[l].who]
      <4>1. CASE To(l, "adopt") /\ rows' = [rows EXCEPT ![x].owner = login[l].who]
        <5>1. login' = [login EXCEPT ![l] = v] /\ rows' = [rows EXCEPT ![x] = r]
          BY <1>0, <4>1 DEF To, LoginTypeOK
        <5>2. v.cart = x /\ v.who = login[l].who /\ x \in Carts /\ rows[x] \in Row
          BY <1>0, <3>2, <3>6 DEF Login, Claim, WorkTyped, LoginTypeOK
        <5>3. r.owner = login[l].who
          BY <5>2 DEF Row
        <5> HIDE DEF v, r, x
        <5>4. k = l /\ login'[l] = v /\ rows'[x] = r
          BY <1>0, <2>2, <5>1, <5>2 DEF LoginTypeOK
        <5>5. QED
          BY <5>2, <5>3, <5>4
      <4>2. QED
        BY <3>4, <3>6, <4>1 DEF Claim
    <3>7. CASE FindWinner(l)
      <4>1. CASE To(l, "over")
        BY <3>4, <4>1
      <4>2. CASE \E y \in Winners(l) : login' = [login EXCEPT ![l].at = "check", ![l].winner = y]
        <5>1. PICK y : login' = [login EXCEPT ![l].at = "check", ![l].winner = y]
          BY <4>2
        <5>2. login' = [login EXCEPT ![l] = [login[l] EXCEPT !.at = "check", !.winner = y]]
          BY <1>0, <5>1 DEF LoginTypeOK
        <5>3. [login[l] EXCEPT !.at = "check", !.winner = y].at # "adopt"
          BY <3>2 DEF Login
        <5>4. QED
          BY <3>3, <5>2, <5>3
      <4>3. QED
        BY <3>7, <4>1, <4>2 DEF FindWinner
    <3>8. ASSUME NEW step \in {"join", "over"}, NEW items,
                 login' = [login EXCEPT ![l].at = step, ![l].items = items]
          PROVE  FALSE
      <4>1. login' = [login EXCEPT ![l] = [login[l] EXCEPT !.at = step, !.items = items]]
        BY <1>0, <3>8 DEF LoginTypeOK
      <4>2. [login[l] EXCEPT !.at = step, !.items = items].at # "adopt"
        BY <3>2 DEF Login
      <4>3. QED
        BY <3>3, <4>1, <4>2
    <3>9. CASE Adopt(l) \/ CheckWinner(l) \/ TryAbandon(l)
      BY <3>4, <3>9 DEF Adopt, CheckWinner, TryAbandon
    <3>10. CASE Capture(l) \/ Join(l) \/ Die(l)
      BY <3>4, <3>8, <3>10 DEF Capture, Join, Die, Ends
    <3>11. QED
      BY <3>1, <3>5, <3>6, <3>7, <3>9, <3>10 DEF LoginStep
  <2>3. QED
    BY <2>1, <2>2
<1>5. OwnersAgree'
  BY <1>0, <1>2 DEF OneActive, OwnersAgree, Live
<1>6. QED
  BY <1>3, <1>4, <1>5 DEF RowKnows

GoneThen(x, c) == x \in reopened' \/ (rows'[x].status = "abandoned" /\ rows'[x].owner \in {Nobody, c})

(* An abandoned row is nobody's to claim, and stays so unless a flush reopens it. *)
LEMMA GoneStays ==
  ASSUME IInv, [LoginNext]_loginVars, NEW x \in Carts, NEW c \in Customers, Gone(x, c)
  PROVE  GoneThen(x, c)
<1>0. LoginTypeOK /\ WorkTyped
  BY DEF IInv
<1>1. CASE rows' = rows /\ reopened' = reopened
  BY <1>1 DEF Gone, GoneThen
<1>2. CASE x \in reopened
  BY <1>2 DEF Gone, GoneThen, LoginNext, LoginStep, Begin, Claim, Adopt, FindWinner, CheckWinner, TryAbandon, Capture, Join,
       Die, Add, Abandon, FlushRead, FlushWrite, loginVars
<1>3. CASE x \notin reopened
  <2>1. rows[x] \in Row /\ rows[x].status = "abandoned" /\ rows[x].owner \in {Nobody, c}
    BY <1>0, <1>3 DEF Gone, LoginTypeOK
  <2>2. ASSUME NEW l \in Logins, Claim(l) PROVE GoneThen(x, c)
    <3>1. rows'[x] = rows[x]
      BY <1>0, <2>1, <2>2 DEF Claim, Claimable, WorkTyped, LoginTypeOK
    <3>2. QED
      BY <2>1, <3>1 DEF Gone, GoneThen
  <2>3. ASSUME NEW l \in Logins, TryAbandon(l) PROVE GoneThen(x, c)
    <3>1. rows'[x] = rows[x] \/ rows'[x] = [rows[x] EXCEPT !.status = "abandoned"]
      BY <1>0, <2>3 DEF TryAbandon, WorkTyped, LoginTypeOK
    <3>2. [rows[x] EXCEPT !.status = "abandoned"].owner = rows[x].owner
          /\ [rows[x] EXCEPT !.status = "abandoned"].status = "abandoned"
      BY <2>1 DEF Row
    <3>3. QED
      BY <2>1, <3>1, <3>2 DEF Gone, GoneThen
  <2>4. ASSUME NEW y \in Carts, FlushWrite(y) PROVE GoneThen(x, c)
    <3> DEFINE r == [status |-> copy[y].status, owner |-> FlushedOwner(y)]
    <3>1. r \in Row /\ r.owner = rows[y].owner /\ r.status = copy[y].status
      BY <2>4, FlushedRow
    <3>2. \/ rows' = rows /\ reopened' = reopened
          \/ /\ rows' = [rows EXCEPT ![y] = r]
             /\ reopened' = IF rows[y].status = "abandoned" /\ copy[y].status = "active"
                            THEN reopened \cup {y} ELSE reopened
      BY <2>4 DEF FlushWrite
    <3>3. r.status # "active" => r.status = "abandoned"
      BY <3>1 DEF Row, Status
    <3> HIDE DEF r
    <3>4. CASE rows' = [rows EXCEPT ![y] = r] /\ reopened' = IF rows[y].status = "abandoned" /\ copy[y].status = "active"
                                                           THEN reopened \cup {y} ELSE reopened
      <4>1. rows'[x] = IF x = y THEN r ELSE rows[x]
        BY <1>0, <3>4 DEF LoginTypeOK
      <4>2. QED
        BY <2>1, <3>1, <3>3, <3>4, <4>1 DEF Gone, GoneThen
    <3>5. QED
      BY <1>1, <3>2, <3>4
  <2>5. QED
    BY <1>1, <2>2, <2>3, <2>4
    DEF LoginNext, LoginStep, Begin, Adopt, FindWinner, CheckWinner, Capture, Join, Die, Add, Abandon, FlushRead, loginVars
<1>4. QED
  BY <1>2, <1>3

(* How a login comes to "capture": it abandoned the row of its own or a guest's cart. *)
LEMMA Captures ==
  ASSUME IInv, [LoginNext]_loginVars, NEW k \in Logins, login'[k].at = "capture"
  PROVE  \/ login[k].at = "capture" /\ login'[k].cart = login[k].cart /\ login'[k].who = login[k].who
         \/ /\ TryAbandon(k) /\ MayTake(login[k].cart, login[k].who)
            /\ login'[k].cart = login[k].cart /\ login'[k].who = login[k].who
<1>0. LoginTypeOK /\ WorkTyped
  BY DEF IInv
<1>1. CASE login'[k] = login[k]
  BY <1>1
<1>2. CASE login'[k] # login[k]
  <2>1. PICK l \in Logins : LoginStep(l) \/ Die(l)
    BY <1>2 DEF LoginNext, Add, Abandon, FlushRead, FlushWrite, loginVars
  <2>2. login[l] \in Login
    BY <1>0 DEF LoginTypeOK
  <2>3. ASSUME NEW v, login' = [login EXCEPT ![l] = v] PROVE k = l /\ login'[k] = v
    BY <1>0, <1>2, <2>3 DEF LoginTypeOK
  <2>4. ASSUME NEW v, login' = [login EXCEPT ![l] = v], v.at # "capture" PROVE FALSE
    BY <2>3, <2>4
  <2>5. ASSUME NEW step \in {"adopt", "merge", "over", "abandon"}, To(l, step) PROVE FALSE
    <3>1. [login[l] EXCEPT !.at = step].at # "capture"
      BY <2>2 DEF Login
    <3>2. login' = [login EXCEPT ![l] = [login[l] EXCEPT !.at = step]]
      BY <1>0, <2>5 DEF To, LoginTypeOK
    <3>3. QED
      BY <2>4, <3>1, <3>2
  <2>6. CASE Begin(l)
    <3>1. PICK c \in Customers, x \in Carts :
            login' = [login EXCEPT ![l] = [NoLogin EXCEPT !.at = "claim", !.who = c, !.cart = x]]
      BY <2>6 DEF Begin
    <3>2. [NoLogin EXCEPT !.at = "claim", !.who = c, !.cart = x].at # "capture"
      BY DEF NoLogin
    <3>3. QED
      BY <2>4, <3>1, <3>2
  <2>7. CASE FindWinner(l)
    <3>1. CASE \E y \in Winners(l) : login' = [login EXCEPT ![l].at = "check", ![l].winner = y]
      <4>1. PICK y : login' = [login EXCEPT ![l].at = "check", ![l].winner = y]
        BY <3>1
      <4>2. login' = [login EXCEPT ![l] = [login[l] EXCEPT !.at = "check", !.winner = y]]
        BY <1>0, <4>1 DEF LoginTypeOK
      <4>3. [login[l] EXCEPT !.at = "check", !.winner = y].at # "capture"
        BY <2>2 DEF Login
      <4>4. QED
        BY <2>4, <4>2, <4>3
    <3>2. QED
      BY <2>5, <2>7, <3>1 DEF FindWinner
  <2>8. ASSUME NEW step \in {"join", "over"}, NEW items,
               login' = [login EXCEPT ![l].at = step, ![l].items = items]
        PROVE  FALSE
    <3>1. login' = [login EXCEPT ![l] = [login[l] EXCEPT !.at = step, !.items = items]]
      BY <1>0, <2>8 DEF LoginTypeOK
    <3>2. [login[l] EXCEPT !.at = step, !.items = items].at # "capture"
      BY <2>2 DEF Login
    <3>3. QED
      BY <2>4, <3>1, <3>2
  <2>9. CASE Claim(l) \/ Adopt(l) \/ CheckWinner(l)
    BY <2>5, <2>9 DEF Claim, Adopt, CheckWinner
  <2>10. CASE Capture(l) \/ Join(l) \/ Die(l)
    BY <2>5, <2>8, <2>10 DEF Capture, Join, Die, Ends
  <2>11. CASE TryAbandon(l)
    <3>1. MayTake(login[l].cart, login[l].who) /\ To(l, "capture")
      BY <2>5, <2>11 DEF TryAbandon
    <3>2. login' = [login EXCEPT ![l] = [login[l] EXCEPT !.at = "capture"]]
      BY <1>0, <3>1 DEF To, LoginTypeOK
    <3>3. k = l /\ login'[k] = [login[l] EXCEPT !.at = "capture"]
      BY <2>3, <3>2
    <3>4. [login[l] EXCEPT !.at = "capture"].cart = login[l].cart /\ [login[l] EXCEPT !.at = "capture"].who = login[l].who
      BY <2>2 DEF Login
    <3>5. QED
      BY <2>11, <3>1, <3>3, <3>4
  <2>12. QED
    BY <2>1, <2>6, <2>7, <2>9, <2>10, <2>11 DEF LoginStep
<1>3. QED
  BY <1>1, <1>2

LEMMA CaptureStep ==
  ASSUME IInv, [LoginNext]_loginVars PROVE CaptureInv'
<1>0. LoginTypeOK /\ WorkTyped /\ CaptureInv
  BY DEF IInv
<1>1. ASSUME NEW k \in Logins, login'[k].at = "capture" PROVE GoneThen(login'[k].cart, login'[k].who)
  <2> DEFINE x == login[k].cart
             c == login[k].who
  <2>1. CASE login[k].at = "capture" /\ login'[k].cart = x /\ login'[k].who = c
    <3>1. x \in Carts /\ c \in Customers /\ Gone(x, c)
      BY <1>0, <2>1 DEF WorkTyped, CaptureInv
    <3> HIDE DEF x, c
    <3>2. GoneThen(x, c)
      BY <3>1, GoneStays
    <3>3. QED
      BY <2>1, <3>2
  <2>2. CASE TryAbandon(k) /\ MayTake(x, c) /\ login'[k].cart = x /\ login'[k].who = c
    <3> DEFINE r == [rows[x] EXCEPT !.status = "abandoned"]
    <3>1. x \in Carts /\ rows[x] \in Row /\ rows[x].owner \in {Nobody, c}
      BY <1>0, <2>2 DEF TryAbandon, MayTake, Claimable, WorkTyped, LoginTypeOK
    <3>2. rows' = [rows EXCEPT ![x] = r]
      BY <1>0, <2>2 DEF TryAbandon, LoginTypeOK
    <3>3. r.status = "abandoned" /\ r.owner = rows[x].owner
      BY <3>1 DEF Row
    <3> HIDE DEF x, c, r
    <3>4. rows'[x] = r
      BY <1>0, <3>1, <3>2 DEF LoginTypeOK
    <3>5. QED
      BY <2>2, <3>1, <3>3, <3>4 DEF Gone, GoneThen
  <2>3. QED
    BY <1>1, <2>1, <2>2, Captures
<1>2. ASSUME NEW x \in Carts, taker'[x] # Nobody PROVE GoneThen(x, taker'[x])
  <2>1. CASE taker'[x] = taker[x]
    <3>1. taker[x] \in Customers /\ Gone(x, taker[x])
      BY <1>0, <1>2, <2>1 DEF CaptureInv, LoginTypeOK, Owner
    <3> DEFINE c == taker[x]
    <3> HIDE DEF c
    <3>2. GoneThen(x, c)
      BY <3>1, GoneStays DEF c
    <3>3. QED
      BY <2>1, <3>2 DEF c, Gone, GoneThen
  <2>2. CASE taker'[x] # taker[x]
    <3>1. PICK l \in Logins : Capture(l)
      BY <2>2 DEF LoginNext, LoginStep, Begin, Claim, Adopt, FindWinner, CheckWinner, TryAbandon, Join, Die, Add,
           Abandon, FlushRead, FlushWrite, loginVars
    <3>2. x = login[l].cart /\ taker'[x] = login[l].who /\ Gone(x, login[l].who)
      BY <1>0, <2>2, <3>1 DEF Capture, WorkTyped, CaptureInv, LoginTypeOK
    <3>3. rows' = rows /\ reopened' = reopened
      BY <3>1 DEF Capture
    <3>4. QED
      BY <3>2, <3>3 DEF Gone, GoneThen
  <2>3. QED
    BY <2>1, <2>2
<1>3. QED
  BY <1>1, <1>2 DEF CaptureInv, Gone, GoneThen

-----------------------------------------------------------------------------
LEMMA PlacePut ==
  ASSUME NEW b, NEW h, NEW d, NEW m, Placed(b, h, d, m), NEW b2, NEW m2, NEW x \in Carts, NEW i, i \notin m,
         \A y \in Carts : b2[y] = IF y = x THEN b[x] \cup {i} ELSE b[y], m2 = m \cup {i}
  PROVE  Placed(b2, h, d, m2)
<1>1. \A y \in Carts : i \notin b[y] /\ b[y] \subseteq b2[y] /\ b2[y] \subseteq b[y] \cup {i}
  BY DEF Placed
<1>2. \A l \in Logins : i \notin h[l]
  BY DEF Placed
<1>3. i \in b2[x] /\ i \notin d
  BY DEF Placed
<1>4. \A y \in Carts : y # x => b2[y] = b[y]
  OBVIOUS
<1>5. \A y, z \in Carts : y # z => b2[y] \cap b2[z] = {}
  BY <1>1, <1>4 DEF Placed
<1>6. \A j \in m2 : j \in d \/ (\E y \in Carts : j \in b2[y]) \/ (\E l \in Logins : j \in h[l])
  BY <1>1, <1>3 DEF Placed
<1>7. \A y \in Carts : b2[y] \subseteq m2 /\ b2[y] \cap d = {} /\ \A l \in Logins : b2[y] \cap h[l] = {}
  BY <1>1, <1>2, <1>3 DEF Placed
<1>8. QED
  BY <1>5, <1>6, <1>7 DEF Placed

LEMMA PlaceDrop ==
  ASSUME NEW b, NEW h, NEW d, NEW m, Placed(b, h, d, m), NEW b2, NEW d2, NEW x \in Carts,
         \A y \in Carts : b2[y] = IF y = x THEN {} ELSE b[y], d2 = d \cup b[x]
  PROVE  Placed(b2, h, d2, m)
BY DEF Placed

LEMMA PlaceTake ==
  ASSUME NEW b, NEW h, NEW d, NEW m, Placed(b, h, d, m), NEW b2, NEW h2, NEW x \in Carts, NEW l \in Logins,
         h[l] = {}, \A y \in Carts : b2[y] = IF y = x THEN {} ELSE b[y],
         \A k \in Logins : h2[k] = IF k = l THEN b[x] ELSE h[k]
  PROVE  Placed(b2, h2, d, m)
BY DEF Placed

LEMMA PlaceGive ==
  ASSUME NEW b, NEW h, NEW d, NEW m, Placed(b, h, d, m), NEW b2, NEW h2, NEW x \in Carts, NEW l \in Logins,
         \A y \in Carts : b2[y] = IF y = x THEN b[x] \cup h[l] ELSE b[y],
         \A k \in Logins : h2[k] = IF k = l THEN {} ELSE h[k]
  PROVE  Placed(b2, h2, d, m)
BY DEF Placed

LEMMA PlaceLose ==
  ASSUME NEW b, NEW h, NEW d, NEW m, Placed(b, h, d, m), NEW h2, NEW d2, NEW l \in Logins,
         \A k \in Logins : h2[k] = IF k = l THEN {} ELSE h[k], d2 = d \cup h[l]
  PROVE  Placed(b, h2, d2, m)
BY DEF Placed

(* The hands of a login are full only between the capture and the merge. *)
LEMMA HandsStep ==
  ASSUME IInv, [LoginNext]_loginVars PROVE HandsEmpty'
<1>0. LoginTypeOK /\ HandsEmpty
  BY DEF IInv, ItemsInv
<1>1. SUFFICES ASSUME NEW k \in Logins, login'[k].at # "join" PROVE login'[k].items = {}
  BY DEF HandsEmpty
<1>2. CASE login'[k] = login[k]
  BY <1>0, <1>1, <1>2 DEF HandsEmpty
<1>3. CASE login'[k] # login[k]
  <2>1. PICK l \in Logins : LoginStep(l) \/ Die(l)
    BY <1>3 DEF LoginNext, Add, Abandon, FlushRead, FlushWrite, loginVars
  <2>2. login[l] \in Login /\ (login[l].at # "join" => login[l].items = {})
    BY <1>0 DEF LoginTypeOK, HandsEmpty
  <2>3. ASSUME NEW v, login' = [login EXCEPT ![l] = v], v.at # "join" => v.items = {}
        PROVE  login'[k].items = {}
    BY <1>0, <1>1, <1>3, <2>3 DEF LoginTypeOK
  <2>4. ASSUME NEW step \in {"adopt", "merge", "over", "abandon", "capture"}, To(l, step), login[l].at # "join"
        PROVE  login'[k].items = {}
    <3>1. [login[l] EXCEPT !.at = step].items = {}
      BY <2>2, <2>4 DEF Login
    <3>2. login' = [login EXCEPT ![l] = [login[l] EXCEPT !.at = step]]
      BY <1>0, <2>4 DEF To, LoginTypeOK
    <3>3. QED
      BY <2>3, <3>1, <3>2
  <2>5. CASE Begin(l)
    <3>1. PICK c \in Customers, x \in Carts :
            login' = [login EXCEPT ![l] = [NoLogin EXCEPT !.at = "claim", !.who = c, !.cart = x]]
      BY <2>5 DEF Begin
    <3>2. [NoLogin EXCEPT !.at = "claim", !.who = c, !.cart = x].items = {}
      BY DEF NoLogin
    <3>3. QED
      BY <2>3, <3>1, <3>2
  <2>6. CASE FindWinner(l)
    <3>1. CASE \E y \in Winners(l) : login' = [login EXCEPT ![l].at = "check", ![l].winner = y]
      <4>1. PICK y : login' = [login EXCEPT ![l].at = "check", ![l].winner = y]
        BY <3>1
      <4>2. login' = [login EXCEPT ![l] = [login[l] EXCEPT !.at = "check", !.winner = y]]
        BY <1>0, <4>1 DEF LoginTypeOK
      <4>3. [login[l] EXCEPT !.at = "check", !.winner = y].items = {}
        BY <2>2, <2>6 DEF Login, FindWinner
      <4>4. QED
        BY <2>3, <4>2, <4>3
    <3>2. QED
      BY <2>4, <2>6, <3>1 DEF FindWinner
  <2>7. ASSUME NEW step \in {"join", "over"}, NEW items,
               login' = [login EXCEPT ![l].at = step, ![l].items = items],
               step = "over" => items = {}
        PROVE  login'[k].items = {}
    <3>1. login' = [login EXCEPT ![l] = [login[l] EXCEPT !.at = step, !.items = items]]
      BY <1>0, <2>7 DEF LoginTypeOK
    <3>2. [login[l] EXCEPT !.at = step, !.items = items].at = step
          /\ [login[l] EXCEPT !.at = step, !.items = items].items = items
      BY <2>2 DEF Login
    <3>3. QED
      BY <2>3, <2>7, <3>1, <3>2
  <2>8. CASE Claim(l) \/ Adopt(l) \/ CheckWinner(l) \/ TryAbandon(l)
    BY <2>4, <2>8 DEF Claim, Adopt, CheckWinner, TryAbandon
  <2>9. CASE Capture(l)
    BY <2>4, <2>7, <2>9 DEF Capture
  <2>10. CASE Join(l) \/ Die(l)
    BY <2>7, <2>10 DEF Join, Die, Ends
  <2>11. QED
    BY <2>1, <2>5, <2>6, <2>8, <2>9, <2>10 DEF LoginStep
<1>4. QED
  BY <1>2, <1>3

(* A login that takes, gives or loses what it carries. *)
LEMMA HandsWritten ==
  ASSUME IInv, NEW l \in Logins, NEW step, NEW items,
         login' = [login EXCEPT ![l].at = step, ![l].items = items]
  PROVE  \A k \in Logins : InHands'[k] = IF k = l THEN items ELSE InHands[k]
<1>1. login[l] \in Login
  BY DEF IInv, LoginTypeOK
<1>2. login' = [login EXCEPT ![l] = [login[l] EXCEPT !.at = step, !.items = items]]
  BY DEF IInv, LoginTypeOK
<1>3. [login[l] EXCEPT !.at = step, !.items = items].items = items
  BY <1>1 DEF Login
<1>4. \A k \in Logins : login'[k].items = IF k = l THEN items ELSE login[k].items
  BY <1>2, <1>3 DEF IInv, LoginTypeOK
<1>5. QED
  BY <1>4 DEF InHands

(* Every other step of a login leaves its hands as they are. *)
LEMMA HandsKept ==
  ASSUME IInv, NEW l \in Logins,
         \/ Begin(l) \/ FindWinner(l)
         \/ \E step \in {"adopt", "merge", "over", "abandon", "capture"} : To(l, step)
  PROVE  InHands' = InHands
<1>1. login[l] \in Login /\ (login[l].at # "join" => login[l].items = {})
  BY DEF IInv, LoginTypeOK, ItemsInv, HandsEmpty
<1>2. ASSUME NEW v, login' = [login EXCEPT ![l] = v], v.items = login[l].items PROVE InHands' = InHands
  <2>1. \A k \in Logins : login'[k].items = login[k].items
    BY <1>2 DEF IInv, LoginTypeOK
  <2>2. QED
    BY <2>1 DEF InHands
<1>3. ASSUME NEW step \in {"adopt", "merge", "over", "abandon", "capture"}, To(l, step) PROVE InHands' = InHands
  <2>1. login' = [login EXCEPT ![l] = [login[l] EXCEPT !.at = step]]
    BY <1>3 DEF To, IInv, LoginTypeOK
  <2>2. [login[l] EXCEPT !.at = step].items = login[l].items
    BY <1>1 DEF Login
  <2>3. QED
    BY <1>2, <2>1, <2>2
<1>4. CASE Begin(l)
  <2>1. PICK c \in Customers, x \in Carts :
          login' = [login EXCEPT ![l] = [NoLogin EXCEPT !.at = "claim", !.who = c, !.cart = x]]
    BY <1>4 DEF Begin
  <2>2. [NoLogin EXCEPT !.at = "claim", !.who = c, !.cart = x].items = login[l].items
    BY <1>1, <1>4 DEF NoLogin, Begin
  <2>3. QED
    BY <1>2, <2>1, <2>2
<1>5. CASE FindWinner(l)
  <2>1. CASE \E y \in Winners(l) : login' = [login EXCEPT ![l].at = "check", ![l].winner = y]
    <3>1. PICK y : login' = [login EXCEPT ![l].at = "check", ![l].winner = y]
      BY <2>1
    <3>2. login' = [login EXCEPT ![l] = [login[l] EXCEPT !.at = "check", !.winner = y]]
      BY <3>1 DEF IInv, LoginTypeOK
    <3>3. [login[l] EXCEPT !.at = "check", !.winner = y].items = login[l].items
      BY <1>1 DEF Login
    <3>4. QED
      BY <1>2, <3>2, <3>3
  <2>2. QED
    BY <1>3, <1>5, <2>1 DEF FindWinner
<1>6. QED
  BY <1>3, <1>4, <1>5

(* A cart whose blob is written. *)
LEMMA CartWritten ==
  ASSUME IInv, NEW x \in Carts, NEW b, blobs' = [blobs EXCEPT ![x] = b]
  PROVE  \A y \in Carts : InCarts'[y] = IF y = x THEN b.items ELSE InCarts[y]
BY DEF InCarts, IInv, LoginTypeOK

LEMMA ItemsStep ==
  ASSUME IInv, [LoginNext]_loginVars PROVE ItemsInv'
<1>0. LoginTypeOK /\ WorkTyped /\ HandsEmpty /\ Placed(InCarts, InHands, dropped, Made)
  BY DEF IInv, ItemsInv
<1> DEFINE PlacedThen == Placed(InCarts', InHands', dropped', Made')
<1>1. SUFFICES PlacedThen
  BY HandsStep DEF ItemsInv
<1>2. \A x \in Carts : blobs[x] \in Blob /\ InCarts[x] = blobs[x].items
  BY <1>0 DEF InCarts, LoginTypeOK
<1>3. \A l \in Logins : InHands[l] = login[l].items
  BY DEF InHands
<1>4. CASE InCarts' = InCarts /\ InHands' = InHands /\ dropped' = dropped /\ made' = made
  BY <1>0, <1>4 DEF Made
<1>5. ASSUME NEW x \in Carts, Add(x) PROVE PlacedThen
  <2> DEFINE i == <<x, made[x] + 1>>
             b == [blobs[x] EXCEPT !.items = @ \cup {i}]
  <2>1. made[x] \in 1..MaxItems /\ made[x] + 1 \in 1..MaxItems /\ made' = [made EXCEPT ![x] = made[x] + 1]
    BY <1>0, <1>5, Constants DEF Add, LoginTypeOK
  <2>2. i \in Items /\ i[1] = x /\ i[2] = made[x] + 1
    BY <2>1 DEF Items
  <2>3. i \notin Made
    BY <2>1, <2>2 DEF Made
  <2>4. Made' = Made \cup {i}
    <3>1. \A y \in Carts : made[y] \in Nat /\ made'[y] = IF y = x THEN made[x] + 1 ELSE made[y]
      BY <1>0, <2>1, Constants DEF LoginTypeOK
    <3>2. \A j \in Items : j = <<j[1], j[2]>> /\ j[1] \in Carts /\ j[2] \in Nat
      BY Constants DEF Items
    <3>3. \A j \in Items : j[2] <= made'[j[1]] <=> (j[2] <= made[j[1]] \/ (j[1] = x /\ j[2] = made[x] + 1))
      BY <3>1, <3>2
    <3>4. \A j \in Items : j[1] = x /\ j[2] = made[x] + 1 <=> j = i
      BY <2>2, <3>2
    <3> HIDE DEF i
    <3>5. QED
      BY <2>2, <3>3, <3>4 DEF Made
  <2>5. blobs' = [blobs EXCEPT ![x] = b] /\ login' = login /\ dropped' = dropped
    BY <1>0, <1>5 DEF Add, LoginTypeOK
  <2>6. b.items = InCarts[x] \cup {i}
    BY <1>2 DEF Blob
  <2> HIDE DEF b, i
  <2>7. \A y \in Carts : InCarts'[y] = IF y = x THEN InCarts[x] \cup {i} ELSE InCarts[y]
    BY <2>5, <2>6, CartWritten
  <2>8. InHands' = InHands
    BY <2>5 DEF InHands
  <2>9. Placed(InCarts', InHands, dropped, Made')
    BY <1>0, <2>3, <2>4, <2>7, PlacePut
  <2>10. QED
    BY <2>5, <2>8, <2>9
<1>6. ASSUME NEW x \in Carts, Abandon(x) PROVE PlacedThen
  <2> DEFINE b == [blobs[x] EXCEPT !.status = "abandoned", !.items = {}]
  <2>1. blobs' = [blobs EXCEPT ![x] = b] /\ login' = login /\ made' = made /\ dropped' = dropped \cup InCarts[x]
    BY <1>0, <1>2, <1>6 DEF Abandon, LoginTypeOK
  <2>2. b.items = {}
    BY <1>2 DEF Blob
  <2> HIDE DEF b
  <2>3. \A y \in Carts : InCarts'[y] = IF y = x THEN {} ELSE InCarts[y]
    BY <2>1, <2>2, CartWritten
  <2>4. InHands' = InHands /\ Made' = Made
    BY <2>1 DEF InHands, Made
  <2>5. Placed(InCarts', InHands, dropped', Made)
    BY <1>0, <2>1, <2>3, PlaceDrop
  <2>6. QED
    BY <2>4, <2>5
<1>7. ASSUME NEW l \in Logins, Adopt(l) PROVE PlacedThen
  <2> DEFINE x == login[l].cart
             b == [blobs[x] EXCEPT !.owner = login[l].who]
  <2>1. x \in Carts /\ InHands' = InHands /\ made' = made /\ dropped' = dropped
    BY <1>0, <1>7, HandsKept DEF Adopt, WorkTyped
  <2>2. blobs' = blobs \/ blobs' = [blobs EXCEPT ![x] = b]
    BY <1>0, <1>7 DEF Adopt, LoginTypeOK
  <2>3. b.items = InCarts[x]
    BY <1>2, <2>1 DEF Blob
  <2> HIDE DEF b, x
  <2>4. InCarts' = InCarts
    <3>1. CASE blobs' = blobs
      BY <3>1 DEF InCarts
    <3>2. CASE blobs' = [blobs EXCEPT ![x] = b]
      <4>1. \A y \in Carts : InCarts'[y] = InCarts[y]
        BY <2>1, <2>3, <3>2, CartWritten
      <4>2. QED
        BY <4>1 DEF InCarts
    <3>3. QED
      BY <2>2, <3>1, <3>2
  <2>5. QED
    BY <1>4, <2>1, <2>4
<1>8. ASSUME NEW l \in Logins, Capture(l) PROVE PlacedThen
  <2> DEFINE x == login[l].cart
             b == [blobs[x] EXCEPT !.status = "abandoned", !.items = {}]
  <2>1. x \in Carts /\ InHands[l] = {} /\ made' = made /\ dropped' = dropped
    BY <1>0, <1>3, <1>8 DEF Capture, WorkTyped, HandsEmpty
  <2>2. CASE UNCHANGED blobs /\ To(l, "over")
    <3>1. InHands' = InHands
      BY <2>2, HandsKept
    <3>2. InCarts' = InCarts
      BY <2>2 DEF InCarts
    <3>3. QED
      BY <1>4, <2>1, <3>1, <3>2
  <2>3. CASE /\ login' = [login EXCEPT ![l].at = "join", ![l].items = blobs[x].items]
             /\ blobs' = [blobs EXCEPT ![x] = b]
    <3>1. b.items = {}
      BY <1>2, <2>1 DEF Blob
    <3> DEFINE items == InCarts[x]
    <3>2. login' = [login EXCEPT ![l].at = "join", ![l].items = items]
      BY <1>2, <2>1, <2>3
    <3> HIDE DEF b, x, items
    <3>3. \A k \in Logins : InHands'[k] = IF k = l THEN items ELSE InHands[k]
      BY <3>2, HandsWritten
    <3>4. \A y \in Carts : InCarts'[y] = IF y = x THEN {} ELSE InCarts[y]
      BY <2>1, <2>3, <3>1, CartWritten
    <3>5. Placed(InCarts', InHands', dropped, Made)
      BY <1>0, <2>1, <3>3, <3>4, PlaceTake DEF items
    <3>6. QED
      BY <2>1, <3>5 DEF Made
  <2>4. QED
    BY <1>0, <1>8, <2>2, <2>3 DEF Capture, Emptied, LoginTypeOK
<1>9. ASSUME NEW l \in Logins, Ends(l), blobs' = blobs, made' = made PROVE PlacedThen
  <2>1. \A k \in Logins : InHands'[k] = IF k = l THEN {} ELSE InHands[k]
    BY <1>9, HandsWritten DEF Ends
  <2>2. InCarts' = InCarts /\ Made' = Made /\ dropped' = dropped \cup InHands[l]
    BY <1>3, <1>9 DEF InCarts, Made, Ends
  <2>3. Placed(InCarts, InHands', dropped', Made)
    BY <1>0, <2>1, <2>2, PlaceLose
  <2>4. QED
    BY <2>2, <2>3
<1>10. ASSUME NEW l \in Logins, Join(l) PROVE PlacedThen
  <2> DEFINE w == login[l].winner
             b == [blobs[w] EXCEPT !.items = @ \cup login[l].items]
  <2>1. w \in Carts /\ made' = made
    BY <1>0, <1>10 DEF Join, WorkTyped
  <2>2. CASE /\ blobs' = [blobs EXCEPT ![w] = b] /\ dropped' = dropped
             /\ login' = [login EXCEPT ![l].at = "over", ![l].items = {}]
    <3>1. b.items = InCarts[w] \cup InHands[l]
      BY <1>2, <1>3, <2>1 DEF Blob
    <3>2. \A k \in Logins : InHands'[k] = IF k = l THEN {} ELSE InHands[k]
      BY <2>2, HandsWritten
    <3> HIDE DEF b, w
    <3>3. \A y \in Carts : InCarts'[y] = IF y = w THEN InCarts[w] \cup InHands[l] ELSE InCarts[y]
      BY <2>1, <2>2, <3>1, CartWritten
    <3>4. Placed(InCarts', InHands', dropped, Made)
      BY <1>0, <2>1, <3>2, <3>3, PlaceGive
    <3>5. QED
      BY <2>1, <2>2, <3>4 DEF Made
  <2>3. QED
    BY <1>0, <1>9, <1>10, <2>1, <2>2 DEF Join, LoginTypeOK
<1>11. ASSUME NEW l \in Logins, Begin(l) \/ Claim(l) \/ FindWinner(l) \/ CheckWinner(l) \/ TryAbandon(l) PROVE PlacedThen
  <2>1. InHands' = InHands
    BY <1>11, HandsKept DEF Claim, CheckWinner, TryAbandon
  <2>2. InCarts' = InCarts /\ dropped' = dropped /\ made' = made
    BY <1>11 DEF Begin, Claim, FindWinner, CheckWinner, TryAbandon, InCarts
  <2>3. QED
    BY <1>4, <2>1, <2>2
<1>12. ASSUME NEW x \in Carts, FlushRead(x) \/ FlushWrite(x) PROVE PlacedThen
  BY <1>4, <1>12 DEF FlushRead, FlushWrite, InCarts, InHands
<1>13. CASE UNCHANGED loginVars
  BY <1>4, <1>13 DEF loginVars, InCarts, InHands
<1>14. QED
  BY <1>5, <1>6, <1>7, <1>8, <1>9, <1>10, <1>11, <1>12, <1>13 DEF LoginNext, LoginStep, Die

-----------------------------------------------------------------------------
LEMMA NextIInv == IInv /\ [LoginNext]_loginVars => IInv'
BY TypesStep, RowsStep, KnowsStep, CaptureStep, ItemsStep DEF IInv, OwnerInv

(* Postgres is the arbiter of every claim, merge and flush. *)
THEOREM PostgresArbitrates == LoginSpec => []IInv
BY InitIInv, NextIInv, PTL DEF LoginSpec

(* TypeOK: of every login that merges, the winner is another cart than the guest's. *)
THEOREM LoginsTyped == LoginSpec => []LoginTypeOK
<1>1. IInv => LoginTypeOK
  BY DEF IInv
<1>2. QED
  BY <1>1, PostgresArbitrates, PTL

(* OwnersAgree: a race loser never commits ownership to Redis, and no customer *)
(* ends up with two live carts, however many log in at once.                   *)
THEOREM LosersNeverOwn == LoginSpec => []OwnersAgree
<1>1. IInv => OwnersAgree
  BY DEF IInv, OwnerInv
<1>2. QED
  BY <1>1, PostgresArbitrates, PTL

(* AdoptedNotCaptured: a cart's items go to the customer Postgres gave it to. *)
THEOREM StrangersNeverCapture == LoginSpec => []AdoptedNotCaptured
<1>1. IInv => AdoptedNotCaptured
  BY DEF IInv, CaptureInv, Gone, AdoptedNotCaptured
<1>2. QED
  BY <1>1, PostgresArbitrates, PTL

(* ItemsInOnePlace: no merge duplicates an item or loses it unseen. *)
THEOREM ItemsKept == LoginSpec => []ItemsInOnePlace
<1>1. ASSUME IInv, NEW i \in Made
      PROVE  LET inCarts  == {x \in Carts : i \in blobs[x].items}
                 inLogins == {l \in Logins : i \in login[l].items}
             IN Cardinality(inCarts) + Cardinality(inLogins) = IF i \in dropped THEN 0 ELSE 1
  <2> DEFINE inCarts  == {x \in Carts : i \in blobs[x].items}
             inLogins == {l \in Logins : i \in login[l].items}
  <2>1. Placed(InCarts, InHands, dropped, Made)
    BY <1>1 DEF IInv, ItemsInv
  <2>2. (\A x \in Carts : InCarts[x] = blobs[x].items) /\ (\A l \in Logins : InHands[l] = login[l].items)
    BY DEF InCarts, InHands
  <2>3. /\ i \in dropped => inCarts = {} /\ inLogins = {}
        /\ i \notin dropped => \/ inLogins = {} /\ \E x \in Carts : inCarts = {x}
                               \/ inCarts = {} /\ \E l \in Logins : inLogins = {l}
    <3>1. /\ \A x, y \in Carts : i \in blobs[x].items /\ i \in blobs[y].items => x = y
          /\ \A l, k \in Logins : i \in login[l].items /\ i \in login[k].items => l = k
          /\ \A x \in Carts, l \in Logins : ~(i \in blobs[x].items /\ i \in login[l].items)
          /\ i \in dropped => (\A x \in Carts : i \notin blobs[x].items) /\ (\A l \in Logins : i \notin login[l].items)
          /\ i \in dropped \/ (\E x \in Carts : i \in blobs[x].items) \/ (\E l \in Logins : i \in login[l].items)
      BY <1>1, <2>1, <2>2 DEF Placed
    <3>2. QED
      BY <3>1
  <2>4. Cardinality({}) = 0 /\ \A z : Cardinality({z}) = 1
    BY FS_EmptySet, FS_Singleton
  <2> HIDE DEF inCarts, inLogins
  <2>5. Cardinality(inCarts) + Cardinality(inLogins) = IF i \in dropped THEN 0 ELSE 1
    BY <2>3, <2>4
  <2>6. QED
    BY <2>5 DEF inCarts, inLogins
<1>2. IInv => ItemsInOnePlace
  BY <1>1 DEF ItemsInOnePlace
<1>3. QED
  BY <1>2, PostgresArbitrates, PTL


-----------------------------------------------------------------------------
(***************************************************************************)
(* CartStore.tla for every number of requests, flush workers and variants.  *)
(*                                                                          *)
(* An edit is followed from the attempt that read the blob to the EXEC that *)
(* puts it there: a watch that still stands is of the state that was read   *)
(* (Fits), so the blob holds every edit while Redis keeps it (AckInv), and  *)
(* an edit about to commit has reserved what it will list, unless another   *)
(* one at work has moved the same hold since (HoldInv).                     *)
(* For the flush, every copy of a state is known by its latest edit         *)
(* (Histories); that is what makes a comparison of updatedAt enough before  *)
(* the flag is cleared (FlagInv).                                           *)
(***************************************************************************)
(* What an edit that is about to be written is, and what it was made from. *)
Edited(r) ==
  /\ Touches(r.op, r.found) \subseteq r.moved /\ r.new.edits = r.found.edits
  /\ \A v \in Variants \ Touches(r.op, r.found) : r.new.lines[v] = r.found.lines[v]

(* What each step of a request has read and made by then. *)
Staged(r) ==
  /\ r \in Req
  /\ r.at = "idle" => r.moved = {}
  /\ r.at \in {"watch", "miss", "mutate", "exec"} => r.op \in Op /\ r.op.kind # "read" /\ r.tries < MaxTries
  /\ r.at = "fill" => r.new \in State /\ (r.op.kind = "read" \/ (r.op \in Op /\ r.tries < MaxTries))
  /\ r.at \in {"mutate", "exec", "fix"} => r.found \in State
  /\ r.at = "exec" => r.new \in State /\ Edited(r)

(* A watch that stands is of the state read, and a compensation of an edit that *)
(* came to nothing.                                                             *)
Fits(r) ==
  /\ Staged(r)
  /\ r.clean => r.at \in {"mutate", "exec"} /\ blob = r.found
  /\ r.at = "fix" => r.moved \subseteq astray

FlushFits(f) == f \in Flush /\ (f.at \in {"fill", "upsert", "compare"} => f.s \in State)

CacheTyped ==
  /\ blob \in State \cup {NoState} /\ row \in State /\ dirty \in BOOLEAN
  /\ hold \in [Variants -> Units] /\ req \in [Requests -> Req] /\ flush \in [Flushers -> Flush]
  /\ clock \in 0..MaxEdits /\ faults \in 0..MaxFaults
  /\ evicted \in BOOLEAN /\ unseen \in BOOLEAN /\ lapsed \subseteq Variants /\ astray \subseteq Variants

WorkFits == (\A w \in Requests : Fits(req[w])) /\ \A f \in Flushers : FlushFits(flush[f])

-----------------------------------------------------------------------------
LEMMA StoreNumbers ==
  /\ Stock \in Nat \ {0} /\ MaxEdits \in Nat /\ MaxTries \in Nat \ {0} /\ MaxFaults \in Nat
  /\ Amounts \subseteq 1..Stock
  BY CartAssumption DEF CartAssumption

LEMMA StateIs ==
  ASSUME NEW s \in State
  PROVE  /\ s # NoState /\ s.edits \subseteq 1..MaxEdits
         /\ \A v \in Variants : s.lines[v] \in Line
         /\ NoState \notin State
  BY DEF State, NoState

LEMMA LineIs ==
  ASSUME NEW l \in Line
  PROVE  l.qty \in Units /\ l.id \in 0..(MaxEdits + 1) /\ (l.id # 0 => l.qty \in 1..Stock /\ l.id \in 1..(MaxEdits + 1))
  BY StoreNumbers DEF Line, NoLine, Units

(* What an operation makes of a line it may touch, and what it reserves for it. *)
LEMMA EditIs ==
  ASSUME NEW s \in State, NEW op \in Op, op.kind # "read",
         NEW id \in 1..(MaxEdits + 1), NEW v \in Touches(op, s), InStock(op, s, v)
  PROVE  /\ v \in Variants /\ Reserves(op, s, v) \in Units
         /\ LineAfter(op, s, v, id) \in Line
         /\ LineAfter(op, s, v, id).qty = Reserves(op, s, v)
<1>0. Stock \in Nat /\ Amounts \subseteq 1..Stock /\ MaxEdits \in Nat
  BY StoreNumbers
<1>1. CASE op.kind = "add"
  <2>1. op.v \in Variants /\ op.qty \in 1..Stock /\ v = op.v
    BY <1>0, <1>1 DEF Op, Touches
  <2>2. PICK l : l = s.lines[v]
    OBVIOUS
  <2>3. l \in Line /\ l.qty \in 0..Stock /\ (l # NoLine => l.id \in 1..(MaxEdits + 1))
    <3>1. l \in Line
      BY <2>1, <2>2, StateIs
    <3>2. QED
      BY <3>1, LineIs DEF Units, Line
  <2>4. PICK n : n = l.qty + op.qty
    OBVIOUS
  <2>5. Reserves(op, s, v) = n /\ n \in 1..Stock
    <3>1. Reserves(op, s, v) = n
      BY <1>1, <2>2, <2>4 DEF Reserves
    <3>2. QED
      BY <1>0, <2>1, <2>3, <2>4, <3>1 DEF InStock
  <2>6. PICK k : k = IF l = NoLine THEN id ELSE l.id
    OBVIOUS
  <2>7. k \in 1..(MaxEdits + 1)
    BY <2>3, <2>6
  <2>8. LineAfter(op, s, v, id) = [id |-> k, qty |-> n]
    BY <1>1, <2>2, <2>4, <2>6 DEF LineAfter
  <2>9. QED
    BY <1>0, <2>1, <2>5, <2>7, <2>8 DEF Line, Units
<1>2. CASE op.kind = "update"
  <2>1. op.id \in 1..MaxEdits /\ op.qty \in 1..Stock /\ v \in Variants /\ s.lines[v].id = op.id
    BY <1>0, <1>2 DEF Op, Touches, LineOf
  <2>2. PICK l : l = s.lines[v]
    OBVIOUS
  <2>3. l \in Line
    BY <2>1, <2>2, StateIs
  <2>4. l.id = op.id /\ l \in [id: 1..(MaxEdits + 1), qty: 1..Stock]
    BY <1>0, <2>1, <2>2, <2>3 DEF Line, NoLine
  <2>5. LineAfter(op, s, v, id) = [l EXCEPT !.qty = op.qty] /\ Reserves(op, s, v) = op.qty
    BY <1>2, <2>2 DEF LineAfter, Reserves
  <2>6. QED
    BY <1>0, <2>1, <2>4, <2>5 DEF Line, Units
<1>3. CASE op.kind \in {"remove", "abandon"}
  <2>1. v \in Variants
    BY <1>3 DEF Touches, LineOf
  <2>2. Reserves(op, s, v) = 0 /\ LineAfter(op, s, v, id) = NoLine
    BY <1>3 DEF Reserves, LineAfter
  <2>3. QED
    BY <1>0, <2>1, <2>2 DEF Line, Units, NoLine
<1>4. CASE op.kind = "set"
  BY <1>4 DEF Touches
<1>5. QED
  BY <1>1, <1>2, <1>3, <1>4 DEF Op

LEMMA TouchesIs ==
  ASSUME NEW s, NEW op \in Op, op.kind # "read"
  PROVE  Touches(op, s) \subseteq Variants
  BY DEF Touches, Op, LineOf

(* A record of a request, with one of its fields changed. *)
LEMMA ReqFields ==
  ASSUME NEW r \in Req
  PROVE  /\ r.at \in {"idle", "watch", "miss", "fill", "mutate", "exec", "fix"}
         /\ r.op \in Op \cup {NoOp} /\ r.clean \in BOOLEAN
         /\ r.found \in State \cup {NoState} /\ r.new \in State \cup {NoState}
         /\ r.tries \in 0..MaxTries /\ r.moved \subseteq Variants /\ r.todo \subseteq Variants
  BY DEF Req

(* After WATCH and GET. *)
LEMMA GotFits ==
  ASSUME blob \in State \cup {NoState},
         NEW r \in Req, r.op \in Op, r.op.kind # "read", r.tries < MaxTries, r.clean = FALSE,
         NEW g, g = Got(r)
  PROVE  /\ Fits(g) /\ g.at \in {"miss", "mutate"} /\ g.moved = r.moved
         /\ blob # NoState => g.at = "mutate"
         /\ g.found \in {r.found, blob} /\ g.new = r.new
<1>1. CASE blob = NoState
  <2>1. g = [r EXCEPT !.at = "miss"]
    BY <1>1 DEF Got
  <2>2. g \in Req /\ g.at = "miss" /\ g.op = r.op /\ g.tries = r.tries /\ g.clean = FALSE /\ g.moved = r.moved
        /\ g.found = r.found /\ g.new = r.new
    BY <2>1 DEF Req
  <2>3. QED
    BY <1>1, <2>2 DEF Fits, Staged
<1>2. CASE blob # NoState
  <2>1. g = [r EXCEPT !.at = "mutate", !.found = blob, !.clean = TRUE]
    BY <1>2 DEF Got
  <2>2. /\ g \in Req /\ g.at = "mutate" /\ g.op = r.op /\ g.tries = r.tries /\ g.moved = r.moved
        /\ g.found = blob /\ blob \in State /\ g.new = r.new
    BY <1>2, <2>1 DEF Req
  <2>3. QED
    BY <1>2, <2>2 DEF Fits, Staged
<1>3. QED
  BY <1>1, <1>2

LEMMA IdleFits ==
  Fits(Idle) /\ Idle.at = "idle" /\ Idle.moved = {} /\ Idle.clean = FALSE
<1>1. 0 \in 0..MaxTries
  BY StoreNumbers
<1>2. /\ Idle \in Req /\ Idle.at = "idle" /\ Idle.moved = {}
      /\ Idle.clean = FALSE
  BY <1>1 DEF Idle, Req
<1>3. QED
  BY <1>2 DEF Fits, Staged

(* After an attempt that came to nothing: another one, the compensation, or the *)
(* end.                                                                         *)
LEMMA AgainIs ==
  ASSUME NEW r, Staged(r), r.at \in {"miss", "fill", "exec"},
         NEW g, g = Again(r)
  PROVE  /\ Staged(g) /\ g.clean = FALSE /\ g.at \in {"idle", "watch", "fix"}
         /\ g.at # "idle" => g.moved = r.moved
         /\ GaveUp(r) <=> g.at # "watch"
         /\ g.found \in {r.found, NoState} /\ g.new = NoState
<1>1. r \in Req /\ r.tries \in 0..MaxTries /\ MaxTries \in Nat
  BY StoreNumbers, ReqFields DEF Staged
<1>2. CASE g = Idle
  BY <1>2, IdleFits DEF Fits, GaveUp, Idle
<1>3. CASE r.op.kind # "read" /\ TriesLeft(r)
  <2>1. g = [r EXCEPT !.at = "watch", !.tries = @ + 1, !.new = NoState, !.clean = FALSE]
    BY <1>3 DEF Again
  <2>2. PICK k : k = r.tries + 1
    OBVIOUS
  <2>3. k \in 0..MaxTries /\ k < MaxTries
    BY <1>1, <1>3, <2>2 DEF TriesLeft
  <2>4. g \in Req /\ g.at = "watch" /\ g.op = r.op /\ g.tries = k /\ g.clean = FALSE /\ g.moved = r.moved
        /\ g.found = r.found /\ g.new = NoState
    BY <1>1, <2>1, <2>2, <2>3 DEF Req
  <2>5. r.op \in Op
    BY <1>3 DEF Staged
  <2>6. QED
    BY <1>3, <2>3, <2>4, <2>5 DEF Staged, GaveUp
<1>4. CASE r.op.kind # "read" /\ ~TriesLeft(r) /\ Compensates(r.op) /\ r.found # NoState
  <2>1. g = [r EXCEPT !.at = "fix", !.tries = @ + 1, !.todo = Variants, !.new = NoState, !.clean = FALSE]
    BY <1>4 DEF Again
  <2>2. PICK k : k = r.tries + 1
    OBVIOUS
  <2>3. r.tries < MaxTries
    BY <1>4 DEF Staged
  <2>4. k \in 0..MaxTries
    BY <1>1, <2>2, <2>3
  <2>5. /\ g \in Req /\ g.at = "fix" /\ g.clean = FALSE /\ g.moved = r.moved /\ g.found = r.found
        /\ g.new = NoState
    BY <1>1, <2>1, <2>2, <2>4 DEF Req
  <2>6. g.found \in State
    BY <1>1, <1>4, <2>5, ReqFields
  <2>7. QED
    BY <2>5, <2>6 DEF Staged, GaveUp
<1>5. QED
  BY <1>2, <1>3, <1>4 DEF Again

(* The watch of a request is broken, and nothing else of it changes. *)
LEMMA BrokenWatch ==
  ASSUME NEW r, Staged(r), NEW g, g = [r EXCEPT !.clean = FALSE]
  PROVE  /\ Staged(g) /\ g.clean = FALSE /\ g.at = r.at /\ g.op = r.op /\ g.found = r.found
         /\ g.new = r.new /\ g.tries = r.tries /\ g.moved = r.moved
<1>1. r \in Req
  BY DEF Staged
<1>2. /\ g \in Req /\ g.clean = FALSE /\ g.at = r.at /\ g.op = r.op /\ g.found = r.found
      /\ g.new = r.new /\ g.tries = r.tries /\ g.moved = r.moved
  BY <1>1 DEF Req
<1>3. QED
  BY <1>2 DEF Staged, Edited

(* What the mutator makes of the state it read. *)
Mutated(op, s, id) ==
  [s EXCEPT !.status = IF op.kind = "abandon" THEN "abandoned" ELSE @,
            !.lines  = [v \in Variants |-> IF v \in Touches(op, s)
                                           THEN LineAfter(op, s, v, id) ELSE @[v]]]

Acted(r, c) ==
  [r EXCEPT !.at = "exec", !.moved = @ \cup Touches(r.op, r.found), !.new = Mutated(r.op, r.found, c + 1)]

LEMMA MutateIs ==
  ASSUME NEW r, Staged(r), r.at = "mutate", NEW c \in 0..MaxEdits,
         \A v \in Touches(r.op, r.found) : InStock(r.op, r.found, v),
         NEW g, g = Acted(r, c)
  PROVE  /\ Staged(g) /\ g.at = "exec" /\ g.clean = r.clean /\ g.found = r.found /\ g.op = r.op
         /\ g.moved = r.moved \cup Touches(r.op, r.found) /\ g.new = Mutated(r.op, r.found, c + 1)
         /\ \A v \in Touches(r.op, r.found) : g.new.lines[v].qty = Reserves(r.op, r.found, v)
<1>0. PICK n : n = Mutated(r.op, r.found, c + 1)
  OBVIOUS
<1>1. r \in Req /\ r.found \in State /\ r.op \in Op /\ r.op.kind # "read" /\ r.tries < MaxTries
  BY DEF Staged
<1>2. PICK t : t = Touches(r.op, r.found)
  OBVIOUS
<1>3. c + 1 \in 1..(MaxEdits + 1)
  BY StoreNumbers
<1>4. t \subseteq Variants
  BY <1>1, <1>2, TouchesIs
<1>5. PICK ls : ls = [v \in Variants |-> IF v \in t THEN LineAfter(r.op, r.found, v, c + 1) ELSE r.found.lines[v]]
  OBVIOUS
<1>6. \A v \in t : ls[v] \in Line /\ ls[v].qty = Reserves(r.op, r.found, v)
  BY <1>1, <1>2, <1>3, <1>4, <1>5, EditIs
<1>7. \A v \in Variants \ t : ls[v] = r.found.lines[v] /\ ls[v] \in Line
  BY <1>1, <1>5, StateIs
<1>8. ls \in [Variants -> Line]
  BY <1>5, <1>6, <1>7
<1>9. PICK st : st = IF r.op.kind = "abandon" THEN "abandoned" ELSE r.found.status
  OBVIOUS
<1>10. st \in {"active", "abandoned"}
  BY <1>1, <1>9, <1>0 DEF State, Mutated
<1>11. n = [r.found EXCEPT !.status = st, !.lines = ls]
  BY <1>1, <1>2, <1>5, <1>9, <1>0 DEF State, Mutated
<1>12. n \in State /\ n.lines = ls /\ n.edits = r.found.edits
  BY <1>1, <1>8, <1>10, <1>11 DEF State
<1>13. PICK m : m = r.moved \cup t
  OBVIOUS
<1>14. m \subseteq Variants
  BY <1>1, <1>4, <1>13, ReqFields
<1>15. g = [r EXCEPT !.at = "exec", !.moved = m, !.new = n]
  BY <1>0, <1>1, <1>2, <1>13 DEF Req, Acted
<1>16. /\ g \in Req /\ g.at = "exec" /\ g.clean = r.clean /\ g.found = r.found /\ g.op = r.op
       /\ g.moved = m /\ g.new = n /\ g.tries = r.tries
  BY <1>1, <1>12, <1>14, <1>15 DEF Req
<1>17. Edited(g)
  BY <1>2, <1>7, <1>12, <1>13, <1>16 DEF Edited
<1>18. Staged(g)
  BY <1>1, <1>12, <1>16, <1>17 DEF Staged
<1>19. QED
  BY <1>0, <1>2, <1>6, <1>12, <1>13, <1>16, <1>18

(* What a step of request w does to the others: at most it breaks their watch. *)
Quiet(w) ==
  \A u \in Requests \ {w} :
    /\ req'[u].at = req[u].at /\ req'[u].moved = req[u].moved /\ (req'[u].clean = FALSE \/ req'[u] = req[u])
    /\ req'[u].found = req[u].found /\ req'[u].new = req[u].new

(* One request moves, and Redis stays as it is. *)
LEMMA OneRequest ==
  ASSUME CacheTyped, WorkFits, NEW w \in Requests, NEW g, req' = [req EXCEPT ![w] = g],
         blob' = blob, astray \subseteq astray', Fits(g)'
  PROVE  req' \in [Requests -> Req] /\ (\A u \in Requests : Fits(req[u])') /\ Quiet(w) /\ req'[w] = g
<1>1. g \in Req
  BY DEF Fits, Staged
<1>2. req \in [Requests -> Req]
  BY DEF CacheTyped
<1>3. \A u \in Requests : req'[u] = IF u = w THEN g ELSE req[u]
  BY <1>2
<1>4. ASSUME NEW u \in Requests PROVE Fits(req[u])'
  <2>1. CASE u = w
    BY <1>3, <2>1
  <2>2. CASE u # w
    <3>1. PICK r : r = req[u]
      OBVIOUS
    <3>2. Fits(r)
      BY <3>1 DEF WorkFits
    <3>3. Fits(r)'
      BY <3>2 DEF Fits
    <3>4. req'[u] = r
      BY <1>3, <2>2, <3>1
    <3>5. QED
      BY <3>3, <3>4
  <2>3. QED
    BY <2>1, <2>2
<1>5. QED
  BY <1>1, <1>2, <1>3, <1>4 DEF Quiet

(* A write of the key breaks every watch. *)
LEMMA Broken ==
  ASSUME CacheTyped, WorkFits, astray \subseteq astray'
  PROVE  /\ Unwatched \in [Requests -> Req]
         /\ \A u \in Requests : /\ Unwatched[u] = [req[u] EXCEPT !.clean = FALSE]
                                /\ Staged(Unwatched[u]) /\ Unwatched[u].clean = FALSE
                                /\ Unwatched[u].at = "fix" => Unwatched[u].moved \subseteq astray'
<1>1. \A u \in Requests : Unwatched[u] = [req[u] EXCEPT !.clean = FALSE]
  BY DEF Unwatched
<1>2. ASSUME NEW u \in Requests
      PROVE  /\ Unwatched[u] \in Req
             /\ Staged(Unwatched[u]) /\ Unwatched[u].clean = FALSE
             /\ Unwatched[u].at = "fix" => Unwatched[u].moved \subseteq astray'
  <2>1. PICK r : r = req[u]
    OBVIOUS
  <2>2. Staged(r) /\ (r.at = "fix" => r.moved \subseteq astray)
    BY <2>1 DEF WorkFits, Fits
  <2>3. PICK g : g = [r EXCEPT !.clean = FALSE]
    OBVIOUS
  <2>4. Staged(g) /\ g.clean = FALSE /\ g.at = r.at /\ g.moved = r.moved
    BY <2>2, <2>3, BrokenWatch
  <2>5. Unwatched[u] = g
    BY <1>1, <2>1, <2>3
  <2>6. g \in Req
    BY <2>4 DEF Staged
  <2>7. QED
    BY <2>2, <2>4, <2>5, <2>6
<1>3. Unwatched \in [Requests -> Req]
  BY <1>2 DEF Unwatched
<1>4. QED
  BY <1>1, <1>2, <1>3

LEMMA AllRequests ==
  ASSUME CacheTyped, WorkFits, astray \subseteq astray', req' = Unwatched
  PROVE  /\ req' \in [Requests -> Req] /\ \A u \in Requests : Fits(req[u])'
<1>1. \A u \in Requests : /\ Staged(req'[u]) /\ req'[u].clean = FALSE
                          /\ req'[u].at = "fix" => req'[u].moved \subseteq astray'
  BY Broken
<1>2. \A u \in Requests : Fits(req[u])'
  <2> SUFFICES ASSUME NEW u \in Requests PROVE Fits(req[u])'
    OBVIOUS
  <2>1. Staged(req[u])'
    BY <1>1
  <2>2. QED
    BY <1>1, <2>1 DEF Fits
<1>3. QED
  BY <1>2, Broken

LEMMA WriterMoves ==
  ASSUME CacheTyped, WorkFits, astray \subseteq astray', NEW w \in Requests, NEW g,
         req' = [Unwatched EXCEPT ![w] = g], Staged(g), g.clean = FALSE,
         g.at = "fix" => g.moved \subseteq astray'
  PROVE  req' \in [Requests -> Req] /\ (\A u \in Requests : Fits(req[u])') /\ Quiet(w) /\ req'[w] = g
<1>1. g \in Req
  BY DEF Staged
<1>2. req' \in [Requests -> Req]
  BY <1>1, Broken
<1>3. \A u \in Requests : req'[u] = IF u = w THEN g ELSE Unwatched[u]
  BY Broken
<1>4. \A u \in Requests : /\ Staged(req'[u]) /\ req'[u].clean = FALSE
                          /\ req'[u].at = "fix" => req'[u].moved \subseteq astray'
  BY <1>3, Broken
<1>5. \A u \in Requests : Fits(req[u])'
  <2> SUFFICES ASSUME NEW u \in Requests PROVE Fits(req[u])'
    OBVIOUS
  <2>1. Staged(req[u])'
    BY <1>4
  <2>2. QED
    BY <1>4, <2>1 DEF Fits
<1>6. Quiet(w)
  <2> SUFFICES ASSUME NEW u \in Requests \ {w}
               PROVE  /\ req'[u].at = req[u].at /\ req'[u].moved = req[u].moved /\ req'[u].clean = FALSE
                      /\ req'[u].found = req[u].found /\ req'[u].new = req[u].new
    BY DEF Quiet
  <2>1. PICK r : r = req[u]
    OBVIOUS
  <2>2. Staged(r)
    BY <2>1 DEF WorkFits, Fits
  <2>3. PICK n : n = [r EXCEPT !.clean = FALSE]
    OBVIOUS
  <2>4. /\ n.at = r.at /\ n.moved = r.moved /\ n.clean = FALSE
        /\ n.found = r.found /\ n.new = r.new
    BY <2>2, <2>3, BrokenWatch
  <2>5. req'[u] = n
    BY <1>3, <2>1, <2>3, Broken
  <2>6. QED
    BY <2>1, <2>4, <2>5
<1>7. QED
  BY <1>2, <1>3, <1>5, <1>6

(* What every step of a request does. *)
Reads(w) ==
  /\ req'[w].found \in {req[w].found, blob, NoState}
  /\ \/ req'[w].new \in {req[w].new, row, NoState}
     \/ req[w].found \in State /\ req'[w].new.edits = req[w].found.edits

Does(w) ==
  /\ Reads(w)
  /\ req' \in [Requests -> Req] /\ (\A u \in Requests : Fits(req[u])') /\ Quiet(w)
  /\ req'[w].at \in {"miss", "fill"} => blob = NoState
  /\ req'[w].at = "exec" => Mutate(w)
  /\ Commit(w) \/ req[w].moved \subseteq req'[w].moved \cup astray'

LEMMA RequestIs ==
  ASSUME WorkFits, NEW w \in Requests
  PROVE  /\ Staged(req[w]) /\ req[w] \in Req /\ (req[w].at \notin {"mutate", "exec"} => req[w].clean = FALSE)
         /\ req[w].at = "fix" => req[w].moved \subseteq astray
<1>1. Fits(req[w])
  BY DEF WorkFits
<1>2. req[w] \in Req /\ req[w].clean \in BOOLEAN
  BY <1>1, ReqFields DEF Fits, Staged
<1>3. QED
  BY <1>1, <1>2 DEF Fits

(* A request that ends. *)
LEMMA EndDoes ==
  ASSUME CacheTyped, WorkFits, NEW w \in Requests, req' = [req EXCEPT ![w] = Idle],
         blob' = blob, astray \subseteq astray', req[w].moved \subseteq astray'
  PROVE  Does(w)
<1>1. PICK g : g = Idle
  OBVIOUS
<1>2. g.at = "idle" /\ Fits(g)' /\ g.found = NoState /\ g.new = NoState
  <2>1. Fits(Idle) /\ Idle.at = "idle"
    BY IdleFits
  <2>2. QED
    BY <1>1, <2>1 DEF Fits, Idle
<1>3. req' \in [Requests -> Req] /\ (\A u \in Requests : Fits(req[u])') /\ Quiet(w) /\ req'[w] = g
  BY <1>1, <1>2, OneRequest
<1>4. QED
  BY <1>2, <1>3 DEF Does, Reads

(* A request whose attempt came to nothing, and nothing was written. *)
LEMMA AgainDoes ==
  ASSUME CacheTyped, WorkFits, NEW w \in Requests, req[w].at \in {"miss", "exec"},
         req' = [req EXCEPT ![w] = Again(req[w])], blob' = blob,
         astray' = IF GaveUp(req[w]) THEN astray \cup req[w].moved ELSE astray
  PROVE  Does(w)
<1>1. PICK r : r = req[w]
  OBVIOUS
<1>2. Staged(r)
  BY <1>1, RequestIs
<1>3. PICK g : g = Again(r)
  OBVIOUS
<1>4. /\ Staged(g) /\ g.clean = FALSE /\ g.at \in {"idle", "watch", "fix"}
      /\ g.at # "idle" => g.moved = r.moved
      /\ GaveUp(r) <=> g.at # "watch"
      /\ g.found \in {r.found, NoState} /\ g.new = NoState
  BY <1>1, <1>2, <1>3, AgainIs
<1>5. astray \subseteq astray' /\ (g.at # "watch" => r.moved \subseteq astray')
  BY <1>1, <1>4
<1>6. Fits(g)'
  BY <1>4, <1>5 DEF Fits
<1>7. req' = [req EXCEPT ![w] = g]
  BY <1>1, <1>3
<1>8. req' \in [Requests -> Req] /\ (\A u \in Requests : Fits(req[u])') /\ Quiet(w) /\ req'[w] = g
  BY <1>5, <1>6, <1>7, OneRequest
<1>9. r.moved \subseteq g.moved \cup astray'
  BY <1>4, <1>5
<1>10. QED
  BY <1>1, <1>4, <1>8, <1>9 DEF Does, Reads

LEMMA GotDoes ==
  ASSUME CacheTyped, WorkFits, NEW w \in Requests,
         NEW r \in Req, r.op \in Op, r.op.kind # "read", r.tries < MaxTries, r.clean = FALSE,
         r.moved = req[w].moved, r.found \in {req[w].found, NoState}, r.new \in {req[w].new, NoState},
         req' = [req EXCEPT ![w] = Got(r)], blob' = blob, astray' = astray
  PROVE  Does(w)
<1>1. PICK g : g = Got(r)
  OBVIOUS
<1>2. blob \in State \cup {NoState}
  BY DEF CacheTyped
<1>3. /\ Fits(g) /\ g.at \in {"miss", "mutate"} /\ g.moved = r.moved
      /\ blob # NoState => g.at = "mutate"
      /\ g.found \in {r.found, blob} /\ g.new = r.new
  BY <1>1, <1>2, GotFits
<1>4. Fits(g)'
  BY <1>3 DEF Fits
<1>5. req' = [req EXCEPT ![w] = g]
  BY <1>1
<1>6. req' \in [Requests -> Req] /\ (\A u \in Requests : Fits(req[u])') /\ Quiet(w) /\ req'[w] = g
  BY <1>4, <1>5, OneRequest
<1>7. QED
  BY <1>3, <1>6 DEF Does, Reads

(* A request that is to put a state it read from the row back into Redis. *)
LEMMA FillDoes ==
  ASSUME CacheTyped, WorkFits, NEW w \in Requests, blob = NoState, UNCHANGED <<blob, astray>>,
         NEW g \in Req, g.at = "fill", g.clean = FALSE, g.new \in State, g.moved = req[w].moved,
         g.new = row, g.found \in {req[w].found, NoState},
         g.op.kind = "read" \/ (g.op \in Op /\ g.tries < MaxTries),
         req' = [req EXCEPT ![w] = g]
  PROVE  Does(w)
<1>1. Staged(g)
  BY DEF Staged
<1>2. Fits(g)'
  BY <1>1 DEF Fits
<1>3. req' \in [Requests -> Req] /\ (\A u \in Requests : Fits(req[u])') /\ Quiet(w) /\ req'[w] = g
  BY <1>2, OneRequest
<1>4. QED
  BY <1>3 DEF Does, Reads

LEMMA AskDoes == ASSUME CacheTyped, WorkFits, NEW w \in Requests, Ask(w) PROVE Does(w)
<1>1. PICK op \in Op : op.kind # "read" /\ req' = [req EXCEPT ![w] = Got([Idle EXCEPT !.op = op])]
  BY DEF Ask
<1>2. PICK r : r = [Idle EXCEPT !.op = op]
  OBVIOUS
<1>3. 0 \in 0..MaxTries /\ 0 < MaxTries
  BY StoreNumbers
<1>4. r \in Req /\ r.op = op /\ r.tries = 0 /\ r.clean = FALSE /\ r.moved = {}
      /\ r.found = NoState /\ r.new = NoState
  BY <1>2, <1>3 DEF Idle, Req
<1>5. req[w].moved = {}
  BY RequestIs DEF Ask, Staged
<1>6. req' = [req EXCEPT ![w] = Got(r)] /\ blob' = blob /\ astray' = astray
  BY <1>1, <1>2 DEF Ask
<1>7. QED
  BY <1>1, <1>3, <1>4, <1>5, <1>6, GotDoes

LEMMA WatchDoes == ASSUME CacheTyped, WorkFits, NEW w \in Requests, Watch(w) PROVE Does(w)
<1>1. PICK r : r = req[w]
  OBVIOUS
<1>2. r \in Req /\ r.op \in Op /\ r.op.kind # "read" /\ r.tries < MaxTries /\ r.clean = FALSE
  BY <1>1, RequestIs DEF Watch, Staged
<1>3. req' = [req EXCEPT ![w] = Got(r)] /\ blob' = blob /\ astray' = astray
  BY <1>1 DEF Watch
<1>4. QED
  BY <1>1, <1>2, <1>3, GotDoes

LEMMA ReadMissDoes == ASSUME CacheTyped, WorkFits, NEW w \in Requests, ReadMiss(w) PROVE Does(w)
<1>1. PICK g : g = [Idle EXCEPT !.at = "fill", !.op = [kind |-> "read"], !.new = row]
  OBVIOUS
<1>2. row \in State /\ 0 \in 0..MaxTries /\ [kind |-> "read"] \in Op
  BY StoreNumbers DEF CacheTyped, Op
<1>3. g \in Req /\ g.at = "fill" /\ g.op.kind = "read" /\ g.new = row /\ g.clean = FALSE /\ g.moved = {}
      /\ g.found = NoState
  BY <1>1, <1>2 DEF Idle, Req
<1>4. req[w].moved = {}
  BY RequestIs DEF ReadMiss, Staged
<1>5. req' = [req EXCEPT ![w] = g] /\ blob = NoState /\ UNCHANGED <<blob, astray>>
  BY <1>1 DEF ReadMiss
<1>6. QED
  BY <1>2, <1>3, <1>4, <1>5, FillDoes

LEMMA LoadDoes == ASSUME CacheTyped, WorkFits, NEW w \in Requests, Load(w) PROVE Does(w)
<1>1. PICK r : r = req[w]
  OBVIOUS
<1>2. r \in Req /\ r.op \in Op /\ r.tries < MaxTries /\ r.clean = FALSE /\ r.at = "miss"
  BY <1>1, RequestIs DEF Load, Staged
<1>3. CASE blob # NoState
  <2>1. req' = [req EXCEPT ![w] = Again(req[w])]
    BY <1>3 DEF Load
  <2>2. astray' = IF GaveUp(req[w]) THEN astray \cup req[w].moved ELSE astray
    BY <1>3 DEF Load
  <2>3. blob' = blob
    BY DEF Load
  <2>4. QED
    BY <1>1, <1>2, <2>1, <2>2, <2>3, AgainDoes
<1>4. CASE blob = NoState
  <2>1. PICK g : g = [r EXCEPT !.at = "fill", !.new = row]
    OBVIOUS
  <2>2. row \in State
    BY DEF CacheTyped
  <2>3. /\ g \in Req /\ g.at = "fill" /\ g.op = r.op /\ g.new = row /\ g.clean = FALSE /\ g.moved = r.moved
        /\ g.tries = r.tries /\ g.found = r.found
    BY <1>2, <2>1, <2>2 DEF Req
  <2>4. req' = [req EXCEPT ![w] = g] /\ UNCHANGED <<blob, astray>>
    BY <1>1, <1>4, <2>1 DEF Load
  <2>5. QED
    BY <1>1, <1>2, <1>4, <2>2, <2>3, <2>4, FillDoes
<1>5. QED
  BY <1>3, <1>4

LEMMA WarmDoes == ASSUME CacheTyped, WorkFits, NEW w \in Requests, Warm(w) PROVE Does(w)
<1>1. PICK r : r = req[w]
  OBVIOUS
<1>2. Staged(r) /\ r.at = "fill"
  BY <1>1, RequestIs DEF Warm
<1>3. PICK g : g = Again(r)
  OBVIOUS
<1>4. /\ Staged(g) /\ g.clean = FALSE /\ g.at \in {"idle", "watch", "fix"}
      /\ g.at # "idle" => g.moved = r.moved
      /\ GaveUp(r) <=> g.at # "watch"
      /\ g.found \in {r.found, NoState} /\ g.new = NoState
  BY <1>2, <1>3, AgainIs
<1>5. astray' = IF GaveUp(r) THEN astray \cup r.moved ELSE astray
  BY <1>1 DEF Warm
<1>6. astray \subseteq astray' /\ (g.at # "watch" => r.moved \subseteq astray')
  BY <1>4, <1>5
<1>7. req' = [Unwatched EXCEPT ![w] = g] /\ (g.at = "fix" => g.moved \subseteq astray')
  BY <1>1, <1>3, <1>4, <1>6 DEF Warm
<1>8. req' \in [Requests -> Req] /\ (\A u \in Requests : Fits(req[u])') /\ Quiet(w) /\ req'[w] = g
  BY <1>4, <1>6, <1>7, WriterMoves
<1>9. r.moved \subseteq g.moved \cup astray'
  BY <1>4, <1>6
<1>10. QED
  BY <1>1, <1>4, <1>8, <1>9 DEF Does, Reads

LEMMA MutateDoes ==
  ASSUME CacheTyped, WorkFits, NEW w \in Requests, Mutate(w)
  PROVE  /\ Does(w)
         /\ \A v \in Touches(req[w].op, req[w].found) :
              req'[w].new.lines[v].qty = Reserves(req[w].op, req[w].found, v)
         /\ req'[w].op = req[w].op /\ req'[w].found = req[w].found
         /\ req'[w].moved = req[w].moved \cup Touches(req[w].op, req[w].found)
         /\ req'[w].new = Mutated(req[w].op, req[w].found, clock + 1)
<1>1. PICK r : r = req[w]
  OBVIOUS
<1>2. Staged(r) /\ r.at = "mutate" /\ r \in Req
  BY <1>1, RequestIs DEF Mutate
<1>3. PICK c : c = clock
  OBVIOUS
<1>4. c \in 0..MaxEdits
  BY <1>3 DEF CacheTyped
<1>5. PICK g : g = Acted(r, c)
  OBVIOUS
<1>7. \A v \in Touches(r.op, r.found) : InStock(r.op, r.found, v)
  BY <1>1 DEF Mutate
<1>8. /\ Staged(g) /\ g.at = "exec" /\ g.clean = r.clean /\ g.found = r.found /\ g.op = r.op
      /\ g.moved = r.moved \cup Touches(r.op, r.found) /\ g.new = Mutated(r.op, r.found, c + 1)
      /\ \A v \in Touches(r.op, r.found) : g.new.lines[v].qty = Reserves(r.op, r.found, v)
  BY <1>2, <1>4, <1>5, <1>7, MutateIs
<1>9. req' = [req EXCEPT ![w] = g]
  <2>1. DOMAIN req = Requests
    BY DEF CacheTyped
  <2>2. PICK n : n = Mutated(r.op, r.found, c + 1)
    OBVIOUS
  <2>3. req' = [req EXCEPT ![w].at = "exec", ![w].moved = @ \cup Touches(r.op, r.found), ![w].new = n]
    BY <1>1, <1>3, <2>2 DEF Mutate, Mutated
  <2>4. g = [r EXCEPT !.at = "exec", !.moved = @ \cup Touches(r.op, r.found), !.new = n]
    BY <1>5, <2>2 DEF Acted
  <2>5. QED
    BY <1>1, <1>2, <2>1, <2>3, <2>4 DEF Req
<1>10. UNCHANGED <<blob, astray>>
  BY DEF Mutate
<1>11. Fits(g)'
  <2>1. Fits(r)
    BY <1>1 DEF WorkFits
  <2>2. QED
    BY <1>8, <1>10, <2>1 DEF Fits
<1>12. req' \in [Requests -> Req] /\ (\A u \in Requests : Fits(req[u])') /\ Quiet(w) /\ req'[w] = g
  BY <1>9, <1>10, <1>11, OneRequest
<1>13. Does(w)
  <2>1. g.new.edits = r.found.edits /\ r.found \in State
    BY <1>2, <1>8 DEF Staged, Edited
  <2>2. QED
    BY <1>1, <1>8, <1>12, <2>1 DEF Does, Reads
<1>14. QED
  BY <1>1, <1>3, <1>8, <1>12, <1>13

LEMMA CommitDoes == ASSUME CacheTyped, WorkFits, NEW w \in Requests, Commit(w) PROVE Does(w)
<1>1. PICK g : g = Idle
  OBVIOUS
<1>2. Staged(g) /\ g.clean = FALSE /\ g.at = "idle" /\ g.found = NoState /\ g.new = NoState
  BY <1>1, IdleFits DEF Fits, Idle
<1>3. req' = [Unwatched EXCEPT ![w] = g] /\ astray \subseteq astray'
  BY <1>1 DEF Commit
<1>4. req' \in [Requests -> Req] /\ (\A u \in Requests : Fits(req[u])') /\ Quiet(w) /\ req'[w] = g
  BY <1>2, <1>3, WriterMoves
<1>5. QED
  BY <1>2, <1>4 DEF Does, Reads

LEMMA ReconcileDoes == ASSUME CacheTyped, WorkFits, NEW w \in Requests, Reconcile(w) PROVE Does(w)
<1>1. PICK r : r = req[w]
  OBVIOUS
<1>2. Staged(r) /\ r.at = "fix" /\ r \in Req /\ r.clean = FALSE /\ r.moved \subseteq astray
  BY <1>1, RequestIs DEF Reconcile
<1>3. PICK v \in r.todo : /\ req' = [req EXCEPT ![w].todo = @ \ {v}]
                          /\ astray \subseteq astray'
  BY <1>1 DEF Reconcile
<1>4. PICK t : t = r.todo \ {v}
  OBVIOUS
<1>5. t \subseteq Variants
  BY <1>2, <1>4, ReqFields
<1>6. PICK g : g = [r EXCEPT !.todo = t]
  OBVIOUS
<1>7. g \in Req /\ g.at = "fix" /\ g.found = r.found /\ g.clean = FALSE /\ g.moved = r.moved
      /\ g.new = r.new
  BY <1>2, <1>5, <1>6 DEF Req
<1>8. Staged(g)
  BY <1>2, <1>7 DEF Staged
<1>9. Fits(g)'
  BY <1>2, <1>3, <1>7, <1>8 DEF Fits
<1>10. req' = [req EXCEPT ![w] = g] /\ blob' = blob
  BY <1>1, <1>3, <1>4, <1>6 DEF Reconcile, CacheTyped
<1>11. req' \in [Requests -> Req] /\ (\A u \in Requests : Fits(req[u])') /\ Quiet(w) /\ req'[w] = g
  BY <1>3, <1>9, <1>10, OneRequest
<1>12. QED
  BY <1>1, <1>7, <1>11 DEF Does, Reads

LEMMA RequestDoes == ASSUME CacheTyped, WorkFits, NEW w \in Requests, RequestStep(w) PROVE Does(w)
<1>1. CASE Refuse(w) \/ Fail(w)
  <2>1. /\ req' = [req EXCEPT ![w] = Idle] /\ blob' = blob
        /\ astray' = astray \cup req[w].moved
    BY <1>1 DEF Refuse, Fail
  <2>2. QED
    BY <2>1, EndDoes
<1>2. CASE Answer409(w)
  <2>1. /\ req' = [req EXCEPT ![w] = Idle] /\ blob' = blob /\ astray' = astray
        /\ req[w].at = "fix"
    BY <1>2 DEF Answer409
  <2>2. req[w].moved \subseteq astray
    BY <2>1, RequestIs
  <2>3. QED
    BY <2>1, <2>2, EndDoes
<1>3. CASE ExecAborts(w)
  <2>1. /\ req[w].at = "exec" /\ req' = [req EXCEPT ![w] = Again(req[w])] /\ blob' = blob
        /\ astray' = IF GaveUp(req[w]) THEN astray \cup req[w].moved ELSE astray
    BY <1>3 DEF ExecAborts
  <2>2. QED
    BY <2>1, AgainDoes
<1>4. QED
  BY <1>1, <1>2, <1>3, AskDoes, WatchDoes, ReadMissDoes, LoadDoes, WarmDoes, MutateDoes, CommitDoes, ReconcileDoes
     DEF RequestStep

LEMMA MinIs ==
  ASSUME NEW x \in Int, NEW y \in Int
  PROVE  Min({x, y}) = IF x <= y THEN x ELSE y
<1>1. PICK S : S = {x, y}
  OBVIOUS
<1>2. PICK m \in S : m = IF x <= y THEN x ELSE y
  BY <1>1
<1>3. \A z \in S : m <= z /\ z \in Int
  BY <1>1, <1>2
<1>4. Min(S) \in S /\ \A z \in S : Min(S) <= z
  BY <1>2, <1>3 DEF Min
<1>5. Min(S) = m
  <2>1. PICK k : k = Min(S)
    OBVIOUS
  <2>2. k \in Int /\ m \in Int /\ k <= m /\ m <= k
    BY <1>2, <1>3, <1>4, <2>1
  <2>3. k = m
    BY <2>2
  <2>4. QED
    BY <2>1, <2>3
<1>6. QED
  BY <1>1, <1>2, <1>5

(* The compensation keeps a hold within the stock. *)
LEMMA ClampsIs ==
  ASSUME CacheTyped, WorkFits, NEW w \in Requests, req[w].at = "fix", NEW v \in Variants
  PROVE  Clamps(w, v) \subseteq Units
<1>1. PICK asked : asked = req[w].found.lines[v].qty
  OBVIOUS
<1>2. asked \in 0..Stock /\ hold[v] \in 0..Stock /\ Stock \in Nat
  <2>1. req[w].found \in State
    BY RequestIs DEF Staged
  <2>2. req[w].found.lines[v] \in Line
    BY <2>1, StateIs
  <2>3. QED
    BY <1>1, <2>2, LineIs, StoreNumbers DEF CacheTyped, Units
<1>3. Clamps(w, v) = Min({asked, hold[v]})..Min({asked, Stock})
  BY <1>1 DEF Clamps
<1>4. Min({asked, hold[v]}) \in 0..Stock /\ Min({asked, Stock}) \in 0..Stock
  BY <1>2, MinIs
<1>5. QED
  BY <1>2, <1>3, <1>4 DEF Units

LEMMA RequestTyped ==
  ASSUME CacheTyped, WorkFits, NEW w \in Requests, RequestStep(w)
  PROVE  CacheTyped' /\ WorkFits'
<1>1. Does(w)
  BY RequestDoes
<1>2. flush' = flush
  BY DEF RequestStep, Ask, Watch, ReadMiss, Load, Warm, Mutate, Refuse,
         Commit, ExecAborts, Reconcile, Answer409, Fail
<1>3. WorkFits'
  BY <1>1, <1>2 DEF Does, WorkFits
<1> SUFFICES CacheTyped'
  BY <1>3
<1>4. PICK r : r = req[w]
  OBVIOUS
<1>5. Staged(r) /\ r \in Req /\ r.moved \subseteq Variants /\ r.todo \subseteq Variants
  BY <1>4, RequestIs, ReqFields
<1>6. req' \in [Requests -> Req]
  BY <1>1 DEF Does
<1>7. ASSUME UNCHANGED <<blob, row, dirty, hold, flush, clock, evicted, lapsed, unseen>>,
             faults' = faults \/ (faults < MaxFaults /\ faults' = faults + 1),
             astray' = astray \/ astray' = astray \cup r.moved
      PROVE  CacheTyped'
  <2>1. faults' \in 0..MaxFaults
    BY <1>7, StoreNumbers DEF CacheTyped
  <2>2. astray' \subseteq Variants
    BY <1>5, <1>7 DEF CacheTyped
  <2>3. QED
    BY <1>6, <1>7, <2>1, <2>2 DEF CacheTyped
<1>8. CASE Ask(w) \/ Watch(w) \/ ReadMiss(w) \/ Load(w) \/ Refuse(w)
           \/ ExecAborts(w) \/ Answer409(w) \/ Fail(w)
  <2>1. /\ UNCHANGED <<blob, row, dirty, hold, flush, clock, evicted, lapsed, unseen>>
        /\ faults' = faults \/ (faults < MaxFaults /\ faults' = faults + 1)
        /\ astray' = astray \/ astray' = astray \cup r.moved
    BY <1>4, <1>8 DEF Ask, Watch, ReadMiss, Load, Refuse, ExecAborts, Answer409, Fail
  <2>2. QED
    BY <1>7, <2>1
<1>9. CASE Warm(w)
  <2>1. blob' = r.new /\ r.new \in State
    BY <1>4, <1>5, <1>9 DEF Warm, Staged
  <2>2. astray' \subseteq Variants /\ unseen' \in BOOLEAN
    BY <1>4, <1>5, <1>9 DEF Warm, CacheTyped
  <2>3. UNCHANGED <<dirty, row, hold, flush, clock, faults, evicted, lapsed>>
    BY <1>9 DEF Warm
  <2>4. QED
    BY <1>6, <2>1, <2>2, <2>3 DEF CacheTyped
<1>10. CASE Mutate(w)
  <2>1. PICK t : t = Touches(r.op, r.found)
    OBVIOUS
  <2>2. hold' = [v \in Variants |-> IF v \in t THEN Reserves(r.op, r.found, v) ELSE hold[v]]
    BY <1>4, <1>10, <2>1 DEF Mutate
  <2>3. \A v \in t : Reserves(r.op, r.found, v) \in Units
    <3>1. r.found \in State /\ r.op \in Op /\ r.op.kind # "read" /\ 1 \in 1..(MaxEdits + 1)
      BY <1>4, <1>5, <1>10, StoreNumbers DEF Mutate, Staged
    <3>2. \A v \in t : InStock(r.op, r.found, v)
      BY <1>4, <1>10, <2>1 DEF Mutate
    <3>3. QED
      BY <2>1, <3>1, <3>2, EditIs
  <2>4. hold' \in [Variants -> Units]
    BY <2>2, <2>3 DEF CacheTyped
  <2>5. lapsed' \subseteq Variants
    BY <1>10 DEF Mutate, CacheTyped
  <2>6. UNCHANGED <<blob, dirty, row, flush, clock, faults, evicted, astray, unseen>>
    BY <1>10 DEF Mutate
  <2>7. QED
    BY <1>6, <2>4, <2>5, <2>6 DEF CacheTyped
<1>11. CASE Commit(w)
  <2>1. PICK c : c = clock + 1
    OBVIOUS
  <2>2. clock' = c /\ c \in 1..MaxEdits
    BY <1>11, <2>1, StoreNumbers DEF Commit, CacheTyped
  <2>3. blob' = [r.new EXCEPT !.edits = @ \cup {c}] /\ r.new \in State
    BY <1>4, <1>5, <1>11, <2>1 DEF Commit, Staged
  <2>4. PICK e : e = r.new.edits \cup {c}
    OBVIOUS
  <2>5. e \in SUBSET (1..MaxEdits)
    BY <2>2, <2>3, <2>4, StateIs
  <2>6. blob' = [r.new EXCEPT !.edits = e]
    BY <2>3, <2>4 DEF State
  <2>7. blob' \in State
    BY <2>3, <2>5, <2>6 DEF State
  <2>8. dirty' \in BOOLEAN /\ unseen' \in BOOLEAN /\ astray' \subseteq Variants
    BY <1>4, <1>5, <1>11 DEF Commit, Flagged, CacheTyped
  <2>9. UNCHANGED <<row, hold, flush, faults, evicted, lapsed>>
    BY <1>11 DEF Commit
  <2>10. clock' \in 0..MaxEdits
    BY <2>2, StoreNumbers
  <2>11. QED
    BY <1>6, <2>7, <2>8, <2>9, <2>10 DEF CacheTyped
<1>12. CASE Reconcile(w)
  <2>1. PICK v \in r.todo : \E n \in Clamps(w, v) :
          /\ hold' = [hold EXCEPT ![v] = n]
          /\ astray' = IF n # hold[v] THEN astray \cup {v} ELSE astray
    BY <1>4, <1>12 DEF Reconcile
  <2>2. PICK n \in Clamps(w, v) :
          /\ hold' = [hold EXCEPT ![v] = n]
          /\ astray' = IF n # hold[v] THEN astray \cup {v} ELSE astray
    BY <2>1
  <2>3. v \in Variants /\ req[w].at = "fix"
    BY <1>4, <1>5, <1>12 DEF Reconcile
  <2>4. n \in Units
    BY <2>3, ClampsIs
  <2>5. hold' \in [Variants -> Units] /\ astray' \subseteq Variants
    BY <2>2, <2>3, <2>4 DEF CacheTyped
  <2>6. UNCHANGED <<blob, dirty, row, flush, clock, faults, evicted, lapsed, unseen>>
    BY <1>12 DEF Reconcile
  <2>7. QED
    BY <1>6, <2>5, <2>6 DEF CacheTyped
<1>13. QED
  BY <1>8, <1>9, <1>10, <1>11, <1>12 DEF RequestStep

LEMMA FlushTyped ==
  ASSUME CacheTyped, WorkFits, NEW f \in Flushers, FlushStep(f) \/ FlushFails(f)
  PROVE  CacheTyped' /\ WorkFits'
<1>1. flush[f] \in Flush /\ FlushFits(flush[f]) /\ flush \in [Flushers -> Flush]
  BY DEF CacheTyped, WorkFits
<1>2. PICK g : flush' = [flush EXCEPT ![f] = g] /\ FlushFits(g)
  <2>1. FlushFits(NoFlush)
    BY DEF FlushFits, NoFlush, Flush
  <2>2. CASE FlushFind(f)
    <3>1. FlushFits([at |-> "fill", s |-> row])
      BY DEF FlushFits, Flush, CacheTyped
    <3>2. blob # NoState => FlushFits([at |-> "upsert", s |-> blob])
      BY DEF FlushFits, Flush, CacheTyped
    <3>3. QED
      BY <2>2, <3>1, <3>2 DEF FlushFind
  <2>3. ASSUME NEW a \in {"upsert", "compare"}, flush[f].at \in {"fill", "upsert"}, flush' = [flush EXCEPT ![f].at = a]
        PROVE  \E g : flush' = [flush EXCEPT ![f] = g] /\ FlushFits(g)
    <3>1. PICK g : g = [flush[f] EXCEPT !.at = a]
      OBVIOUS
    <3>2. g \in Flush /\ g.at = a /\ g.s = flush[f].s
      BY <1>1, <3>1 DEF Flush
    <3>3. FlushFits(g)
      BY <1>1, <2>3, <3>2 DEF FlushFits
    <3>4. flush' = [flush EXCEPT ![f] = g]
      BY <1>1, <2>3, <3>1
    <3>5. QED
      BY <3>3, <3>4
  <2>4. CASE Compare(f)
    <3>1. FlushFits([at |-> "clear", s |-> NoState])
      BY DEF FlushFits, Flush
    <3>2. QED
      BY <2>1, <2>4, <3>1 DEF Compare
  <2>5. CASE Clear(f) \/ FlushFails(f)
    BY <2>1, <2>5 DEF Clear, FlushFails
  <2>6. QED
    BY <2>2, <2>3, <2>4, <2>5 DEF FlushStep, FlushFill, Upsert
<1>3. flush' \in [Flushers -> Flush] /\ \A e \in Flushers : FlushFits(flush[e])'
  <2>1. \A e \in Flushers : flush'[e] = IF e = f THEN g ELSE flush[e]
    BY <1>1, <1>2
  <2>2. \A e \in Flushers : FlushFits(flush[e]) /\ FlushFits(flush'[e])
    BY <1>2, <2>1 DEF WorkFits
  <2>3. g \in Flush
    BY <1>2 DEF FlushFits
  <2>4. QED
    BY <1>1, <1>2, <2>2, <2>3 DEF FlushFits
<1>4. UNCHANGED <<hold, clock, evicted, lapsed, astray>> /\ faults' \in 0..MaxFaults
  BY StoreNumbers DEF CacheTyped, FlushStep, FlushFind, FlushFill, Upsert, Compare,
                      Clear, FlushFails
<1>5. CASE FlushFill(f)
  <2>1. blob' \in State
    BY <1>1, <1>5 DEF FlushFill, FlushFits
  <2>2. req' \in [Requests -> Req] /\ \A u \in Requests : Fits(req[u])'
    BY <1>4, <1>5, AllRequests DEF FlushFill
  <2>3. UNCHANGED <<dirty, row>> /\ unseen' \in BOOLEAN
    BY <1>5 DEF FlushFill, CacheTyped
  <2>4. QED
    BY <1>3, <1>4, <2>1, <2>2, <2>3 DEF CacheTyped, WorkFits
<1>6. CASE ~FlushFill(f)
  <2>1. UNCHANGED <<blob, req>>
    BY <1>6 DEF FlushStep, FlushFind, Upsert, Compare, Clear, FlushFails
  <2>2. \A u \in Requests : Fits(req[u])'
    BY <1>4, <2>1 DEF WorkFits, Fits
  <2>3. row' \in State
    BY <1>1, <1>6 DEF FlushStep, FlushFind, Upsert, Compare, Clear, FlushFails,
                      CacheTyped, FlushFits
  <2>4. dirty' \in BOOLEAN /\ unseen' \in BOOLEAN
    BY <1>6 DEF FlushStep, FlushFind, Upsert, Compare, Clear, FlushFails, CacheTyped
  <2>5. QED
    BY <1>3, <1>4, <2>1, <2>2, <2>3, <2>4 DEF CacheTyped, WorkFits
<1>7. QED
  BY <1>5, <1>6

LEMMA FaultTyped ==
  ASSUME CacheTyped, WorkFits, Evict \/ \E v \in Variants : Lapse(v)
  PROVE  CacheTyped' /\ WorkFits'
<1>1. faults' \in 0..MaxFaults
  BY StoreNumbers DEF CacheTyped, Evict, Lapse
<1>2. CASE Evict
  <2>1. req' \in [Requests -> Req] /\ \A u \in Requests : Fits(req[u])'
    BY <1>2, AllRequests DEF Evict
  <2>2. blob' = NoState /\ evicted' = TRUE
        /\ UNCHANGED <<dirty, row, hold, flush, clock, lapsed, astray, unseen>>
    BY <1>2 DEF Evict
  <2>3. CacheTyped'
    BY <1>1, <2>1, <2>2 DEF CacheTyped
  <2>4. QED
    BY <2>1, <2>2, <2>3 DEF WorkFits
<1>3. ASSUME NEW v \in Variants, Lapse(v) PROVE CacheTyped' /\ WorkFits'
  <2>1. /\ hold' = [hold EXCEPT ![v] = 0] /\ lapsed' = lapsed \cup {v}
        /\ UNCHANGED <<blob, dirty, row, req, flush, clock, evicted, astray, unseen>>
    BY <1>3 DEF Lapse
  <2>2. hold' \in [Variants -> Units]
    BY <2>1, StoreNumbers DEF CacheTyped, Units
  <2>3. CacheTyped'
    BY <1>1, <2>1, <2>2 DEF CacheTyped
  <2>4. WorkFits'
    BY <2>1 DEF WorkFits, Fits
  <2>5. QED
    BY <2>3, <2>4
<1>4. QED
  BY <1>2, <1>3

LEMMA CacheTypedStep ==
  ASSUME CacheTyped, WorkFits, [Next]_vars
  PROVE  CacheTyped' /\ WorkFits'
<1>1. CASE UNCHANGED vars
  <2>1. UNCHANGED <<blob, dirty, row, hold, req, flush, clock, faults, evicted, lapsed, astray, unseen>>
    BY <1>1 DEF vars
  <2>2. CacheTyped'
    BY <2>1 DEF CacheTyped
  <2>3. WorkFits'
    BY <2>1 DEF WorkFits, Fits
  <2>4. QED
    BY <2>2, <2>3
<1>2. QED
  BY <1>1, RequestTyped, FlushTyped, FaultTyped DEF Next

LEMMA InitCache == ASSUME Init PROVE CacheTyped /\ WorkFits
<1>1. Empty \in State
  <2>1. NoLine \in Line
    BY DEF Line
  <2>2. [v \in Variants |-> NoLine] \in [Variants -> Line]
    BY <2>1
  <2>3. QED
    BY <2>2 DEF Empty, State
<1>2. Fits(Idle) /\ Idle \in Req
  BY IdleFits DEF Fits, Staged
<1>3. NoFlush \in Flush /\ FlushFits(NoFlush)
  BY DEF FlushFits, NoFlush, Flush
<1>4. CacheTyped
  <2>1. hold \in [Variants -> Units] /\ clock \in 0..MaxEdits /\ faults \in 0..MaxFaults
    BY StoreNumbers DEF Init, Units
  <2>2. req \in [Requests -> Req] /\ flush \in [Flushers -> Flush]
    BY <1>2, <1>3 DEF Init
  <2>3. blob \in State /\ row \in State /\ dirty \in BOOLEAN /\ evicted \in BOOLEAN /\ unseen \in BOOLEAN
        /\ lapsed \subseteq Variants /\ astray \subseteq Variants
    BY <1>1 DEF Init
  <2>4. QED
    BY <2>1, <2>2, <2>3 DEF CacheTyped
<1>5. (\A w \in Requests : req[w] = Idle) /\ \A f \in Flushers : flush[f] = NoFlush
  BY DEF Init
<1>6. QED
  BY <1>2, <1>3, <1>4, <1>5 DEF WorkFits

(* While Redis keeps the blob it holds every edit, and nobody turns to the row. *)
AckInv ==
  ~evicted => /\ blob # NoState /\ blob.edits = 1..clock
              /\ \A w \in Requests : req[w].at \notin {"miss", "fill"}
              /\ \A f \in Flushers : flush[f].at # "fill"

(* A hold is its line's, unless somebody still at work moved it; and what an    *)
(* edit is about to commit is what it reserved, unless somebody else moved it.  *)
Exempt == lapsed \cup astray
HoldInv ==
  ~evicted =>
    /\ \A v \in Variants \ Exempt : (\A w \in Requests : v \notin req[w].moved) => hold[v] = blob.lines[v].qty
    /\ \A w \in Requests : req[w].at = "exec" /\ req[w].clean =>
         \A v \in Touches(req[w].op, req[w].found) \ Exempt :
           hold[v] = req[w].new.lines[v].qty \/ \E u \in Requests \ {w} : v \in req[u].moved

-----------------------------------------------------------------------------
(* What a commit writes: its new state, with one edit more. *)
LEMMA CommitWrites ==
  ASSUME CacheTyped, WorkFits, NEW w \in Requests, Commit(w)
  PROVE  /\ clock' = clock + 1 /\ clock \in Nat /\ clock < MaxEdits /\ blob' \in State
         /\ blob'.edits = req[w].found.edits \cup {clock + 1} /\ blob'.lines = req[w].new.lines
         /\ blob'.edits = req[w].new.edits \cup {clock + 1}
         /\ blob = req[w].found /\ blob \in State /\ req[w].at = "exec" /\ req[w].clean
         /\ Edited(req[w]) /\ req[w].new \in State
<1>1. PICK r : r = req[w]
  OBVIOUS
<1>2. Fits(r) /\ r.at = "exec" /\ r.clean
  BY <1>1 DEF WorkFits, Commit, Applies
<1>3. r.new \in State /\ r.found \in State /\ Edited(r) /\ blob = r.found
  BY <1>2 DEF Fits, Staged
<1>4. PICK e : e = r.new.edits \cup {clock + 1}
  OBVIOUS
<1>5. blob' = [r.new EXCEPT !.edits = e]
  BY <1>1, <1>3, <1>4 DEF Commit, State
<1>6. blob'.edits = e /\ blob'.lines = r.new.lines
  BY <1>3, <1>5 DEF State
<1>7. clock' = clock + 1 /\ clock \in Nat /\ clock < MaxEdits
  BY StoreNumbers DEF Commit, CacheTyped
<1>8. blob' \in State
  <2>1. clock + 1 \in 1..MaxEdits
    BY <1>7, StoreNumbers
  <2>2. e \in SUBSET (1..MaxEdits)
    BY <1>3, <1>4, <2>1, StateIs
  <2>3. QED
    BY <1>3, <1>5, <2>2 DEF State
<1>9. r.new.edits = r.found.edits
  BY <1>3 DEF Edited
<1>10. QED
  BY <1>1, <1>2, <1>3, <1>4, <1>6, <1>7, <1>8, <1>9

(* Nothing but a commit, an eviction or a refill writes the key. *)
LEMMA RequestWrites ==
  ASSUME NEW w \in Requests, RequestStep(w), ~Commit(w), ~Warm(w)
  PROVE  blob' = blob /\ clock' = clock
  BY DEF RequestStep, Ask, Watch, ReadMiss, Load, Mutate, Refuse,
         ExecAborts, Reconcile, Answer409, Fail

LEMMA RequestKeeps ==
  ASSUME NEW w \in Requests, RequestStep(w)
  PROVE  flush' = flush /\ evicted' = evicted
  BY DEF RequestStep, Ask, Watch, ReadMiss, Load, Warm, Mutate, Refuse,
         Commit, ExecAborts, Reconcile, Answer409, Fail

LEMMA AckRequest ==
  ASSUME CacheTyped, WorkFits, AckInv, NEW w \in Requests, RequestStep(w)
  PROVE  AckInv'
<1> SUFFICES ASSUME ~evicted PROVE AckInv'
  BY RequestKeeps DEF AckInv
<1>1. Does(w) /\ flush' = flush /\ evicted' = evicted
  BY RequestDoes, RequestKeeps
<1>2. /\ blob # NoState /\ blob.edits = 1..clock
      /\ \A u \in Requests : req[u].at \notin {"miss", "fill"}
      /\ \A f \in Flushers : flush[f].at # "fill"
  BY DEF AckInv
<1>3. \A u \in Requests : req'[u].at \notin {"miss", "fill"}
  BY <1>1, <1>2 DEF Does, Quiet
<1>4. blob' # NoState /\ blob'.edits = 1..clock'
  <2>1. CASE Commit(w)
    <3>1. /\ clock' = clock + 1 /\ clock \in Nat /\ blob' \in State
          /\ blob'.edits = blob.edits \cup {clock + 1}
      BY <2>1, CommitWrites
    <3>2. (1..clock) \cup {clock + 1} = 1..(clock + 1)
      BY <3>1
    <3>3. QED
      BY <1>2, <3>1, <3>2, StateIs
  <2>2. CASE ~Commit(w)
    <3>1. ~Warm(w)
      BY <1>2 DEF Warm
    <3>2. QED
      BY <1>2, <2>2, <3>1, RequestWrites
  <2>3. QED
    BY <2>1, <2>2
<1>5. QED
  BY <1>1, <1>2, <1>3, <1>4 DEF AckInv

LEMMA AckStep ==
  ASSUME CacheTyped, WorkFits, AckInv, [Next]_vars
  PROVE  AckInv'
<1>1. CASE UNCHANGED vars
  BY <1>1 DEF vars, AckInv
<1>2. ASSUME NEW f \in Flushers, FlushStep(f) \/ FlushFails(f) PROVE AckInv'
  <2>1. evicted' = evicted
    BY <1>2 DEF FlushStep, FlushFind, FlushFill, Upsert, Compare, Clear, FlushFails
  <2> SUFFICES ASSUME ~evicted PROVE AckInv'
    BY <2>1 DEF AckInv
  <2>2. ~FlushFill(f) /\ blob # NoState
    BY DEF AckInv, FlushFill
  <2>3. UNCHANGED <<blob, clock, req>>
    BY <1>2, <2>2 DEF FlushStep, FlushFind, Upsert, Compare, Clear, FlushFails
  <2>4. PICK g : flush' = [flush EXCEPT ![f] = g] /\ g.at # "fill"
    <3>1. flush[f] \in Flush /\ flush \in [Flushers -> Flush]
      BY DEF CacheTyped
    <3>2. CASE Upsert(f)
      <4>1. PICK g : g = [flush[f] EXCEPT !.at = "compare"]
        OBVIOUS
      <4>2. flush' = [flush EXCEPT ![f] = g] /\ g.at = "compare"
        BY <3>1, <3>2, <4>1 DEF Upsert, Flush
      <4>3. QED
        BY <4>2
    <3>3. CASE FlushFind(f)
      <4>1. PICK g : g = [at |-> "upsert", s |-> blob]
        OBVIOUS
      <4>2. flush' = [flush EXCEPT ![f] = g] /\ g.at = "upsert"
        BY <2>2, <3>3, <4>1 DEF FlushFind
      <4>3. QED
        BY <4>2
    <3>4. CASE Compare(f) \/ Clear(f) \/ FlushFails(f)
      <4>1. NoFlush.at # "fill" /\ [at |-> "clear", s |-> NoState].at # "fill"
        BY DEF NoFlush
      <4>2. \/ flush' = [flush EXCEPT ![f] = NoFlush]
            \/ flush' = [flush EXCEPT ![f] = [at |-> "clear", s |-> NoState]]
        BY <3>4 DEF Compare, Clear, FlushFails
      <4>3. PICK g \in {NoFlush, [at |-> "clear", s |-> NoState]} : flush' = [flush EXCEPT ![f] = g]
        BY <4>2
      <4>4. g.at # "fill"
        BY <4>1
      <4>5. QED
        BY <4>3, <4>4
    <3>5. QED
      BY <1>2, <2>2, <3>2, <3>3, <3>4 DEF FlushStep
  <2>5. \A e \in Flushers : flush'[e].at # "fill"
    BY <2>4 DEF AckInv, CacheTyped
  <2>6. QED
    BY <2>1, <2>3, <2>5 DEF AckInv
<1>3. CASE Evict
  BY <1>3 DEF Evict, AckInv
<1>4. ASSUME NEW v \in Variants, Lapse(v) PROVE AckInv'
  BY <1>4 DEF Lapse, AckInv
<1>5. QED
  BY <1>1, <1>2, <1>3, <1>4, AckRequest DEF Next

(* A step of request w that changes no hold but one that goes astray. *)
LEMMA HoldQuiet ==
  ASSUME HoldInv, ~evicted, CacheTyped, WorkFits, NEW w \in Requests, Does(w), ~Commit(w), ~Mutate(w),
         blob' = blob, lapsed \subseteq lapsed', astray \subseteq astray',
         \A v \in Variants : hold'[v] = hold[v] \/ v \in astray'
  PROVE  HoldInv'
<1>1. /\ \A v \in Variants \ Exempt : (\A u \in Requests : v \notin req[u].moved) => hold[v] = blob.lines[v].qty
      /\ \A u \in Requests : req[u].at = "exec" /\ req[u].clean =>
           \A v \in Touches(req[u].op, req[u].found) \ Exempt :
             hold[v] = req[u].new.lines[v].qty \/ \E x \in Requests \ {u} : v \in req[x].moved
  BY DEF HoldInv
<1>2. Exempt \subseteq Exempt' /\ astray' \subseteq Exempt'
  BY DEF Exempt
<1>3. Quiet(w) /\ req'[w].at # "exec" /\ req[w].moved \subseteq req'[w].moved \cup astray'
  BY DEF Does
<1>4. \A u \in Requests : req[u].moved \subseteq req'[u].moved \cup astray'
  BY <1>3 DEF Quiet
<1>5. ASSUME NEW v \in Variants \ Exempt', \A u \in Requests : v \notin req'[u].moved
      PROVE  hold'[v] = blob'.lines[v].qty
  <2>1. v \notin Exempt /\ \A u \in Requests : v \notin req[u].moved
    BY <1>2, <1>4, <1>5
  <2>2. hold'[v] = hold[v]
    BY <1>2
  <2>3. QED
    BY <1>1, <2>1, <2>2
<1>6. ASSUME NEW u \in Requests, req'[u].at = "exec", req'[u].clean,
             NEW v \in Touches(req'[u].op, req'[u].found), v \notin Exempt'
      PROVE  hold'[v] = req'[u].new.lines[v].qty \/ \E x \in Requests \ {u} : v \in req'[x].moved
  <2>1. u # w
    BY <1>3, <1>6
  <2>2. req'[u] = req[u]
    BY <1>3, <1>6, <2>1 DEF Quiet
  <2>3. hold[v] = req[u].new.lines[v].qty \/ \E x \in Requests \ {u} : v \in req[x].moved
    BY <1>1, <1>2, <1>6, <2>2
  <2>4. v \in Variants
    <3>1. req[u].op \in Op /\ req[u].op.kind # "read"
      BY <1>6, <2>2, RequestIs DEF Staged
    <3>2. QED
      BY <1>6, <2>2, <3>1, TouchesIs
  <2>5. QED
    BY <1>2, <1>4, <1>6, <2>2, <2>3, <2>4
<1>7. QED
  BY <1>5, <1>6 DEF HoldInv

LEMMA HoldMutate ==
  ASSUME HoldInv, ~evicted, CacheTyped, WorkFits, NEW w \in Requests, Mutate(w)
  PROVE  HoldInv'
<1>1. PICK t : t = Touches(req[w].op, req[w].found)
  OBVIOUS
<1>2. /\ hold' = [v \in Variants |-> IF v \in t THEN Reserves(req[w].op, req[w].found, v) ELSE hold[v]]
      /\ lapsed' = lapsed \ t /\ astray' = astray /\ blob' = blob
  BY <1>1 DEF Mutate
<1>3. /\ \A v \in Variants \ Exempt : (\A u \in Requests : v \notin req[u].moved) => hold[v] = blob.lines[v].qty
      /\ \A u \in Requests : req[u].at = "exec" /\ req[u].clean =>
           \A v \in Touches(req[u].op, req[u].found) \ Exempt :
             hold[v] = req[u].new.lines[v].qty \/ \E x \in Requests \ {u} : v \in req[x].moved
  BY DEF HoldInv
<1>4. /\ Does(w) /\ req'[w].op = req[w].op /\ req'[w].found = req[w].found
      /\ \A v \in t : req'[w].new.lines[v].qty = Reserves(req[w].op, req[w].found, v)
      /\ req'[w].moved = req[w].moved \cup t
  BY <1>1, MutateDoes
<1>5. Exempt \subseteq Exempt' \cup t
  BY <1>2 DEF Exempt
<1>6. Quiet(w)
  BY <1>4 DEF Does
<1>7. \A u \in Requests : req[u].moved \subseteq req'[u].moved
  BY <1>4, <1>6 DEF Quiet
<1>8. ASSUME NEW v \in Variants \ Exempt', \A u \in Requests : v \notin req'[u].moved
      PROVE  hold'[v] = blob'.lines[v].qty
  <2>1. v \notin t /\ \A u \in Requests : v \notin req[u].moved
    BY <1>4, <1>7, <1>8
  <2>2. v \notin Exempt /\ hold'[v] = hold[v]
    BY <1>2, <1>5, <2>1
  <2>3. QED
    BY <1>2, <1>3, <2>1, <2>2
<1>9. ASSUME NEW u \in Requests, req'[u].at = "exec", req'[u].clean,
             NEW v \in Touches(req'[u].op, req'[u].found), v \notin Exempt'
      PROVE  hold'[v] = req'[u].new.lines[v].qty \/ \E x \in Requests \ {u} : v \in req'[x].moved
  <2>1. v \in Variants
    <3>1. req'[u].op \in Op /\ req'[u].op.kind # "read"
      BY <1>4, <1>9 DEF Does, Fits, Staged
    <3>2. QED
      BY <1>9, <3>1, TouchesIs
  <2>2. CASE u = w
    <3>1. v \in t
      BY <1>1, <1>4, <1>9, <2>2
    <3>2. hold'[v] = Reserves(req[w].op, req[w].found, v)
      BY <1>2, <2>1, <3>1
    <3>3. QED
      BY <1>4, <2>2, <3>1, <3>2
  <2>3. CASE u # w /\ v \in t
    BY <1>4, <2>3
  <2>4. CASE u # w /\ v \notin t
    <3>1. req'[u] = req[u]
      BY <1>6, <1>9, <2>4 DEF Quiet
    <3>2. v \notin Exempt /\ hold'[v] = hold[v]
      BY <1>2, <1>5, <1>9, <2>1, <2>4
    <3>3. hold[v] = req[u].new.lines[v].qty \/ \E x \in Requests \ {u} : v \in req[x].moved
      BY <1>3, <1>9, <3>1, <3>2
    <3>4. QED
      BY <1>7, <3>1, <3>2, <3>3
  <2>5. QED
    BY <2>2, <2>3, <2>4
<1>10. QED
  BY <1>8, <1>9 DEF HoldInv

LEMMA HoldCommit ==
  ASSUME HoldInv, ~evicted, CacheTyped, WorkFits, NEW w \in Requests, Commit(w)
  PROVE  HoldInv'
<1>1. PICK t : t = Touches(req[w].op, req[w].found)
  OBVIOUS
<1>2. /\ blob'.lines = req[w].new.lines /\ blob = req[w].found /\ req[w].at = "exec" /\ req[w].clean
      /\ Edited(req[w])
  BY CommitWrites
<1>3. /\ req' = [Unwatched EXCEPT ![w] = Idle] /\ astray' = astray \cup (req[w].moved \ t)
      /\ hold' = hold /\ lapsed' = lapsed
  BY <1>1 DEF Commit
<1>4. \A u \in Requests : req'[u].clean = FALSE
  <2>1. astray \subseteq astray'
    BY <1>3
  <2>2. /\ Unwatched \in [Requests -> Req]
        /\ \A u \in Requests : Unwatched[u].clean = FALSE
    BY <2>1, Broken
  <2>3. Idle.clean = FALSE
    BY DEF Idle
  <2>4. QED
    BY <1>3, <2>2, <2>3
<1>5. /\ \A v \in Variants \ Exempt : (\A u \in Requests : v \notin req[u].moved) => hold[v] = blob.lines[v].qty
      /\ \A v \in t \ Exempt : hold[v] = req[w].new.lines[v].qty \/ \E x \in Requests \ {w} : v \in req[x].moved
  BY <1>1, <1>2 DEF HoldInv
<1>6. \A u \in Requests \ {w} : req'[u].moved = req[u].moved
  BY CommitDoes DEF Does, Quiet
<1>7. ASSUME NEW v \in Variants \ Exempt', \A u \in Requests : v \notin req'[u].moved
      PROVE  hold'[v] = blob'.lines[v].qty
  <2>1. v \notin Exempt /\ (v \in req[w].moved => v \in t)
    BY <1>3, <1>7 DEF Exempt
  <2>2. \A u \in Requests \ {w} : v \notin req[u].moved
    BY <1>6, <1>7
  <2>3. CASE v \in t
    BY <1>2, <1>3, <1>5, <2>1, <2>2, <2>3
  <2>4. CASE v \notin t
    <3>1. hold[v] = blob.lines[v].qty
      BY <1>5, <2>1, <2>2, <2>4
    <3>2. req[w].new.lines[v] = req[w].found.lines[v]
      BY <1>1, <1>2, <2>4 DEF Edited
    <3>3. QED
      BY <1>2, <1>3, <3>1, <3>2
  <2>5. QED
    BY <2>3, <2>4
<1>8. QED
  BY <1>4, <1>7 DEF HoldInv

LEMMA HoldRequest ==
  ASSUME CacheTyped, WorkFits, AckInv, HoldInv, NEW w \in Requests, RequestStep(w)
  PROVE  HoldInv'
<1>1. Does(w) /\ evicted' = evicted
  BY RequestDoes, RequestKeeps
<1> SUFFICES ASSUME ~evicted PROVE HoldInv'
  BY <1>1 DEF HoldInv
<1>2. ~Warm(w)
  BY DEF AckInv, Warm
<1>3. CASE ~Commit(w) /\ ~Mutate(w)
  <2>1. blob' = blob
    BY <1>2, <1>3, RequestWrites
  <2>2. CASE Reconcile(w)
    <3>1. PICK v \in req[w].todo : \E n \in Clamps(w, v) :
            /\ hold' = [hold EXCEPT ![v] = n]
            /\ astray' = IF n # hold[v] THEN astray \cup {v} ELSE astray
      BY <2>2 DEF Reconcile
    <3>2. PICK n \in Clamps(w, v) :
            /\ hold' = [hold EXCEPT ![v] = n]
            /\ astray' = IF n # hold[v] THEN astray \cup {v} ELSE astray
      BY <3>1
    <3>3. \A x \in Variants : hold'[x] = hold[x] \/ x \in astray'
      BY <3>2 DEF CacheTyped
    <3>4. lapsed \subseteq lapsed' /\ astray \subseteq astray'
      BY <2>2, <3>2 DEF Reconcile
    <3>5. QED
      BY <1>1, <1>3, <2>1, <3>3, <3>4, HoldQuiet
  <2>3. CASE ~Reconcile(w)
    <3>1. hold' = hold /\ lapsed' = lapsed /\ astray \subseteq astray'
      BY <1>2, <1>3, <2>3 DEF RequestStep, Ask, Watch, ReadMiss, Load, Refuse,
                              ExecAborts, Answer409, Fail
    <3>2. QED
      BY <1>1, <1>3, <2>1, <3>1, HoldQuiet
  <2>4. QED
    BY <2>2, <2>3
<1>4. QED
  BY <1>3, HoldMutate, HoldCommit

(* What does not touch the requests or Redis changes no hold but one that lapses. *)
LEMMA HoldStill ==
  ASSUME HoldInv, ~evicted, blob' = blob, req' = req, lapsed \subseteq lapsed', astray' = astray,
         WorkFits, \A v \in Variants : hold'[v] = hold[v] \/ v \in lapsed'
  PROVE  HoldInv'
<1>1. Exempt \subseteq Exempt' /\ lapsed' \subseteq Exempt'
  BY DEF Exempt
<1>2. /\ \A v \in Variants \ Exempt : (\A u \in Requests : v \notin req[u].moved) => hold[v] = blob.lines[v].qty
      /\ \A u \in Requests : req[u].at = "exec" /\ req[u].clean =>
           \A v \in Touches(req[u].op, req[u].found) \ Exempt :
             hold[v] = req[u].new.lines[v].qty \/ \E x \in Requests \ {u} : v \in req[x].moved
  BY DEF HoldInv
<1>3. ASSUME NEW u \in Requests, req[u].at = "exec" PROVE Touches(req[u].op, req[u].found) \subseteq Variants
  <2>1. req[u].op \in Op /\ req[u].op.kind # "read"
    BY <1>3, RequestIs DEF Staged
  <2>2. QED
    BY <2>1, TouchesIs
<1>4. \A v \in Variants \ Exempt' : v \notin Exempt /\ hold'[v] = hold[v]
  BY <1>1
<1>5. ASSUME NEW u \in Requests, req[u].at = "exec", req[u].clean,
             NEW v \in Touches(req[u].op, req[u].found), v \notin Exempt'
      PROVE  hold'[v] = req[u].new.lines[v].qty \/ \E x \in Requests \ {u} : v \in req[x].moved
  BY <1>2, <1>3, <1>4, <1>5
<1>6. \A v \in Variants \ Exempt' : (\A u \in Requests : v \notin req[u].moved) => hold'[v] = blob.lines[v].qty
  BY <1>2, <1>4
<1>7. QED
  BY <1>5, <1>6 DEF HoldInv

LEMMA HoldStep ==
  ASSUME CacheTyped, WorkFits, AckInv, HoldInv, [Next]_vars
  PROVE  HoldInv'
<1>1. CASE Evict
  BY <1>1 DEF Evict, HoldInv
<1>2. CASE UNCHANGED vars
  BY <1>2 DEF vars, HoldInv, Exempt
<1>3. ASSUME NEW f \in Flushers, FlushStep(f) \/ FlushFails(f) PROVE HoldInv'
  <2>1. UNCHANGED <<evicted, hold, lapsed, astray>>
    BY <1>3 DEF FlushStep, FlushFind, FlushFill, Upsert, Compare, Clear, FlushFails
  <2> SUFFICES ASSUME ~evicted PROVE HoldInv'
    BY <2>1 DEF HoldInv
  <2>2. ~FlushFill(f)
    BY DEF AckInv, FlushFill
  <2>3. UNCHANGED <<blob, req>>
    BY <1>3, <2>2 DEF FlushStep, FlushFind, Upsert, Compare, Clear, FlushFails
  <2>4. QED
    BY <2>1, <2>3, HoldStill
<1>4. ASSUME NEW v \in Variants, Lapse(v) PROVE HoldInv'
  <2>1. /\ hold' = [hold EXCEPT ![v] = 0] /\ lapsed' = lapsed \cup {v}
        /\ UNCHANGED <<blob, req, astray, evicted>>
    BY <1>4 DEF Lapse
  <2>2. \A x \in Variants : hold'[x] = hold[x] \/ x \in lapsed'
    BY <2>1 DEF CacheTyped
  <2> SUFFICES ASSUME ~evicted PROVE HoldInv'
    BY <2>1 DEF HoldInv
  <2>3. QED
    BY <2>1, <2>2, HoldStill
<1>5. QED
  BY <1>1, <1>2, <1>3, <1>4, HoldRequest DEF Next

(* The states some place holds, told apart by the edits that made them: an edit  *)
(* is committed once, onto one state, so the latest edit tells which they are.   *)
HeldStates ==
  {s \in {blob, row} \cup {req[w].found : w \in Requests} \cup {req[w].new : w \in Requests}
           \cup {flush[f].s : f \in Flushers} : s # NoState}
EditsHeld == {s.edits : s \in HeldStates}
Latest(e) == Max({0} \cup e)

Histories ==
  /\ \A e \in EditsHeld : e \subseteq 1..clock
  /\ \A e, d \in EditsHeld : Latest(e) = Latest(d) => e = d

(* A flush that goes on to clear the flag has nothing left to save. *)
Settled == Saved \/ unseen
FlagInv ==
  /\ UnsavedIsFlagged
  /\ \A f \in Flushers :
       /\ flush[f].at = "compare" /\ blob # NoState /\ UpdatedAt(blob) = UpdatedAt(flush[f].s) => Settled
       /\ flush[f].at = "clear" => Settled

-----------------------------------------------------------------------------
LEMMA GreatestUpTo ==
  ASSUME NEW c \in Nat, NEW S \in SUBSET (0..c), S # {}
  PROVE  \E m \in S : \A x \in S : m >= x
<1> DEFINE Below == {c - x : x \in S}
<1>0. \A x \in S : x \in 0..c /\ c - x \in Nat
  OBVIOUS
<1>1. Below \in SUBSET Nat /\ Below # {}
  BY <1>0
<1>2. PICK d \in Below : \A k \in Below : ~(<<k, d>> \in OpToRel(<, Nat))
  BY <1>1, NatLessThanWellFounded, WFMin
<1>3. PICK m \in S : d = c - m
  BY <1>2
<1>4. ASSUME NEW x \in S PROVE m >= x
  <2>1. m \in 0..c /\ x \in 0..c
    OBVIOUS
  <2>2. PICK k : k = c - x
    OBVIOUS
  <2>3. k \in Below /\ k \in Nat /\ d \in Nat
    BY <1>1, <2>2
  <2>4. ~(k < d)
    BY <1>2, <2>3 DEF OpToRel
  <2>5. QED
    BY <1>3, <2>1, <2>2, <2>4
<1>5. QED
  BY <1>4

LEMMA LatestIs ==
  ASSUME NEW c \in Nat, NEW e \in SUBSET (1..c)
  PROVE  Latest(e) \in 0..c /\ Latest(e \cup {c + 1}) = c + 1
<1>1. PICK S : S = {0} \cup e
  OBVIOUS
<1>2. S \in SUBSET (0..c) /\ S # {}
  BY <1>1
<1>3. \E m \in S : \A x \in S : m >= x
  BY <1>2, GreatestUpTo
<1>4. Max(S) \in S
  BY <1>3 DEF Max
<1>5. PICK T : T = {0} \cup (e \cup {c + 1})
  OBVIOUS
<1>6. T \subseteq 0..(c + 1) /\ c + 1 \in T /\ \A x \in T : c + 1 >= x
  BY <1>5
<1>7. Max(T) \in T /\ \A x \in T : Max(T) >= x
  BY <1>6 DEF Max
<1>8. Max(T) = c + 1
  <2>1. PICK m : m = Max(T)
    OBVIOUS
  <2>2. m \in T /\ m >= c + 1 /\ c + 1 >= m
    BY <1>6, <1>7, <2>1
  <2>3. m = c + 1
    <3>1. m \in 0..(c + 1)
      BY <1>6, <2>2
    <3>2. QED
      BY <2>2, <3>1
  <2>4. QED
    BY <2>1, <2>3
<1>9. QED
  BY <1>1, <1>2, <1>4, <1>5, <1>8 DEF Latest

From(s) == s = NoState \/ s.edits \in EditsHeld

LEMMA HeldHere ==
  /\ From(blob) /\ From(row)
  /\ \A w \in Requests : From(req[w].found) /\ From(req[w].new)
  /\ \A f \in Flushers : From(flush[f].s)
  BY DEF From, EditsHeld, HeldStates

(* Where the states of the next step come from. *)
Inherits(s, E) == s = NoState \/ s.edits \in E

LEMMA HeldNext ==
  ASSUME NEW E, Inherits(blob', E), Inherits(row', E),
         \A w \in Requests : Inherits(req'[w].found, E) /\ Inherits(req'[w].new, E),
         \A f \in Flushers : Inherits(flush'[f].s, E)
  PROVE  EditsHeld' \subseteq E
  BY DEF Inherits, EditsHeld, HeldStates

LEMMA HistoriesKept ==
  ASSUME Histories, clock' = clock, EditsHeld' \subseteq EditsHeld
  PROVE  Histories'
  BY DEF Histories, Latest

(* A step that writes no edit only copies states. *)
LEMMA Copies ==
  ASSUME Histories, clock' = clock, From(blob'), From(row'),
         \A w \in Requests : From(req'[w].found) /\ From(req'[w].new),
         \A f \in Flushers : From(flush'[f].s)
  PROVE  Histories'
<1>1. PICK E : E = EditsHeld
  OBVIOUS
<1>2. EditsHeld' \subseteq E
  BY <1>1, HeldNext DEF From, Inherits
<1>3. QED
  BY <1>1, <1>2, HistoriesKept

LEMMA RequestCopies ==
  ASSUME WorkFits, NEW w \in Requests, Does(w)
  PROVE  \A u \in Requests : From(req'[u].found) /\ From(req'[u].new)
<1>1. From(req'[w].found)
  BY HeldHere DEF Does, Reads, From
<1>2. From(req'[w].new)
  <2>1. CASE req'[w].new \in {req[w].new, row, NoState}
    BY <2>1, HeldHere DEF From
  <2>2. CASE req[w].found \in State /\ req'[w].new.edits = req[w].found.edits
    <3>1. From(req[w].found) /\ req[w].found # NoState
      BY <2>2, HeldHere, StateIs
    <3>2. QED
      BY <2>2, <3>1 DEF From
  <2>3. QED
    BY <2>1, <2>2 DEF Does, Reads
<1>3. \A u \in Requests \ {w} : req'[u].found = req[u].found /\ req'[u].new = req[u].new
  BY DEF Does, Quiet
<1>4. QED
  BY <1>1, <1>2, <1>3, HeldHere

LEMMA HistoriesRequest ==
  ASSUME CacheTyped, WorkFits, Histories, NEW w \in Requests, RequestStep(w)
  PROVE  Histories'
<1>1. Does(w) /\ flush' = flush
  BY RequestDoes, RequestKeeps
<1>2. \A u \in Requests : From(req'[u].found) /\ From(req'[u].new)
  BY <1>1, RequestCopies
<1>3. row' = row
  BY DEF RequestStep, Ask, Watch, ReadMiss, Load, Warm, Mutate, Refuse,
         Commit, ExecAborts, Reconcile, Answer409, Fail
<1>4. \A f \in Flushers : From(flush'[f].s)
  BY <1>1, HeldHere
<1>5. From(row')
  BY <1>3, HeldHere
<1>6. CASE ~Commit(w)
  <2>1. clock' = clock /\ blob' \in {blob, req[w].new}
    <3>1. CASE Warm(w)
      BY <3>1 DEF Warm
    <3>2. CASE ~Warm(w)
      BY <1>6, <3>2, RequestWrites
    <3>3. QED
      BY <3>1, <3>2
  <2>2. From(blob')
    BY <2>1, HeldHere
  <2>3. QED
    BY <1>2, <1>4, <1>5, <2>1, <2>2, Copies
<1>7. CASE Commit(w)
  <2>1. /\ clock' = clock + 1 /\ clock \in Nat /\ blob' \in State
        /\ blob'.edits = blob.edits \cup {clock + 1} /\ blob \in State
    BY <1>7, CommitWrites
  <2>2. PICK c : c = clock
    OBVIOUS
  <2>3. PICK b : b = blob.edits
    OBVIOUS
  <2>4. PICK E : E = EditsHeld
    OBVIOUS
  <2>5. b \in E /\ \A e \in E : e \in SUBSET (1..c)
    BY <2>1, <2>2, <2>3, <2>4, HeldHere, StateIs DEF From, Histories
  <2>6. PICK n : n = b \cup {c + 1}
    OBVIOUS
  <2>7. EditsHeld' \subseteq E \cup {n}
    <3>1. PICK F : F = E \cup {n}
      OBVIOUS
    <3>2. Inherits(blob', F)
      BY <2>1, <2>2, <2>3, <2>6, <3>1 DEF Inherits
    <3>3. \A s : From(s) => Inherits(s, F)
      BY <2>4, <3>1 DEF From, Inherits
    <3>4. EditsHeld' \subseteq F
      BY <1>2, <1>4, <1>5, <3>2, <3>3, HeldNext
    <3>5. QED
      BY <3>1, <3>4
  <2>8. \A e \in E : Latest(e) \in 0..c
    BY <2>1, <2>2, <2>5, LatestIs
  <2>9. Latest(n) = c + 1
    BY <2>1, <2>2, <2>5, <2>6, LatestIs
  <2>10. \A e, d \in E : Latest(e) = Latest(d) => e = d
    BY <2>4 DEF Histories
  <2>11. \A e \in E : Latest(e) # Latest(n)
    BY <2>1, <2>2, <2>8, <2>9
  <2>12. \A e, d \in E \cup {n} : Latest(e) = Latest(d) => e = d
    BY <2>10, <2>11
  <2>13. \A e \in E \cup {n} : e \subseteq 1..(c + 1)
    BY <2>1, <2>2, <2>5, <2>6
  <2>14. clock' = c + 1
    BY <2>1, <2>2
  <2>15. QED
    BY <2>7, <2>12, <2>13, <2>14 DEF Histories, Latest
<1>8. QED
  BY <1>6, <1>7

(* What a step of flush worker f writes, and what it holds afterwards. *)
LEMMA FlushMoves ==
  ASSUME CacheTyped, NEW f \in Flushers, FlushStep(f) \/ FlushFails(f)
  PROVE  /\ clock' = clock /\ blob' \in {blob, flush[f].s} /\ row' \in {row, flush[f].s}
         /\ \A g \in Flushers \ {f} : flush'[g] = flush[g]
         /\ flush'[f].s \in {flush[f].s, row, blob, NoState}
         /\ req' = req \/ req' = Unwatched
<1>0. flush \in [Flushers -> Flush] /\ flush[f] \in Flush
  BY DEF CacheTyped
<1>1. CASE FlushFind(f)
  BY <1>0, <1>1 DEF FlushFind
<1>2. CASE FlushFill(f)
  <2>1. PICK r : r = flush[f]
    OBVIOUS
  <2>2. flush' = [flush EXCEPT ![f] = [r EXCEPT !.at = "upsert"]] /\ r \in Flush
    BY <1>0, <1>2, <2>1 DEF FlushFill
  <2>3. [r EXCEPT !.at = "upsert"].s = r.s
    BY <2>2 DEF Flush
  <2>4. QED
    BY <1>0, <1>2, <2>1, <2>2, <2>3 DEF FlushFill
<1>3. CASE Upsert(f)
  <2>1. PICK r : r = flush[f]
    OBVIOUS
  <2>2. flush' = [flush EXCEPT ![f] = [r EXCEPT !.at = "compare"]] /\ r \in Flush
    BY <1>0, <1>3, <2>1 DEF Upsert
  <2>3. [r EXCEPT !.at = "compare"].s = r.s
    BY <2>2 DEF Flush
  <2>4. QED
    BY <1>0, <1>3, <2>1, <2>2, <2>3 DEF Upsert
<1>4. CASE Compare(f)
  BY <1>0, <1>4 DEF Compare, NoFlush
<1>5. CASE Clear(f)
  BY <1>0, <1>5 DEF Clear, NoFlush
<1>6. CASE FlushFails(f)
  BY <1>0, <1>6 DEF FlushFails, NoFlush
<1>7. QED
  BY <1>1, <1>2, <1>3, <1>4, <1>5, <1>6 DEF FlushStep

LEMMA StillHeld ==
  ASSUME WorkFits, req' = req \/ req' = Unwatched
  PROVE  \A u \in Requests : From(req'[u].found) /\ From(req'[u].new)
<1>1. CASE req' = req
  BY <1>1, HeldHere
<1>2. CASE req' = Unwatched
  <2>1. ASSUME NEW u \in Requests PROVE From(req'[u].found) /\ From(req'[u].new)
    <3>1. PICK r : r = req[u]
      OBVIOUS
    <3>2. r \in Req
      BY <3>1, RequestIs
    <3>3. req'[u] = [r EXCEPT !.clean = FALSE]
      BY <1>2, <3>1 DEF Unwatched
    <3>4. req'[u].found = r.found /\ req'[u].new = r.new
      BY <3>2, <3>3 DEF Req
    <3>5. QED
      BY <3>1, <3>4, HeldHere
  <2>2. QED
    BY <2>1
<1>3. QED
  BY <1>1, <1>2

LEMMA HistoriesFlush ==
  ASSUME CacheTyped, WorkFits, Histories, NEW f \in Flushers, FlushStep(f) \/ FlushFails(f)
  PROVE  Histories'
<1>1. /\ clock' = clock /\ blob' \in {blob, flush[f].s} /\ row' \in {row, flush[f].s}
      /\ \A g \in Flushers \ {f} : flush'[g] = flush[g]
      /\ flush'[f].s \in {flush[f].s, row, blob, NoState}
      /\ req' = req \/ req' = Unwatched
  BY FlushMoves
<1>2. \A u \in Requests : From(req'[u].found) /\ From(req'[u].new)
  BY <1>1, StillHeld
<1>3. From(blob') /\ From(row') /\ From(NoState)
  BY <1>1, HeldHere DEF From
<1>4. \A g \in Flushers : From(flush'[g].s)
  BY <1>1, <1>3, HeldHere
<1>5. QED
  BY <1>1, <1>2, <1>3, <1>4, Copies

LEMMA HistoriesStep ==
  ASSUME CacheTyped, WorkFits, Histories, [Next]_vars
  PROVE  Histories'
<1>1. CASE UNCHANGED vars
  <2>1. UNCHANGED <<blob, row, req, flush, clock>>
    BY <1>1 DEF vars
  <2>2. QED
    BY <2>1, HeldHere, Copies
<1>2. CASE \E v \in Variants : Lapse(v)
  <2>1. UNCHANGED <<blob, row, req, flush, clock>>
    BY <1>2 DEF Lapse
  <2>2. QED
    BY <2>1, HeldHere, Copies
<1>3. CASE Evict
  <2>1. blob' = NoState /\ req' = Unwatched /\ UNCHANGED <<row, flush, clock>>
    BY <1>3 DEF Evict
  <2>2. \A u \in Requests : From(req'[u].found) /\ From(req'[u].new)
    BY <2>1, StillHeld
  <2>3. From(blob') /\ From(row') /\ \A g \in Flushers : From(flush'[g].s)
    BY <2>1, HeldHere DEF From
  <2>4. QED
    BY <2>1, <2>2, <2>3, Copies
<1>4. QED
  BY <1>1, <1>2, <1>3, HistoriesRequest, HistoriesFlush DEF Next

-----------------------------------------------------------------------------
(* A settled state has nothing that is not flagged. *)
LEMMA SettledIsFlagged == ASSUME Settled PROVE FlagInv
  BY DEF Settled, FlagInv, UnsavedIsFlagged

(* Two of the states that are held are the same edits if their latest is. *)
LEMMA SameEdits ==
  ASSUME Histories, NEW s, NEW t, From(s), From(t), s # NoState, t # NoState,
         UpdatedAt(s) = UpdatedAt(t)
  PROVE  s.edits = t.edits
  BY DEF Histories, From, Latest, UpdatedAt

LEMMA FlagKept ==
  ASSUME FlagInv, UNCHANGED <<blob, row, dirty, unseen>>,
         \A f \in Flushers : flush'[f] = flush[f] \/ flush'[f].at \notin {"compare", "clear"}
  PROVE  FlagInv'
  BY DEF FlagInv, Settled, UnsavedIsFlagged, Saved

(* An edit is later than everything a flush holds; only a flush that has already *)
(* compared passes over it, and then it is unseen.                               *)
LEMMA FlagCommit ==
  ASSUME CacheTyped, WorkFits, Histories, NEW w \in Requests, Commit(w)
  PROVE  FlagInv'
<1>1. flush' = flush /\ dirty' = TRUE /\ unseen' = \E f \in Flushers : flush[f].at = "clear"
  BY DEF Commit, Flagged
<1>2. blob' \in State /\ blob'.edits = blob.edits \cup {clock + 1} /\ blob \in State /\ clock \in Nat
  BY CommitWrites
<1>3. PICK c : c = clock
  OBVIOUS
<1>4. PICK b : b = blob.edits
  OBVIOUS
<1>5. b \in SUBSET (1..c) /\ c \in Nat
  BY <1>2, <1>3, <1>4, HeldHere, StateIs DEF From, Histories
<1>6. Latest(b \cup {c + 1}) = c + 1
  BY <1>5, LatestIs
<1>7. ASSUME NEW f \in Flushers, flush[f].at = "compare", UpdatedAt(blob') = UpdatedAt(flush[f].s)
      PROVE  FALSE
  <2>1. PICK s : s = flush[f].s
    OBVIOUS
  <2>2. s \in State /\ From(s)
    BY <1>7, <2>1, HeldHere DEF WorkFits, FlushFits
  <2>3. PICK e : e = s.edits
    OBVIOUS
  <2>4. e \in SUBSET (1..c)
    BY <1>3, <2>2, <2>3, StateIs DEF From, Histories
  <2>5. Latest(e) \in 0..c
    BY <1>5, <2>4, LatestIs
  <2>6. UpdatedAt(blob') = Latest(b \cup {c + 1})
    BY <1>2, <1>3, <1>4 DEF UpdatedAt, Latest
  <2>7. UpdatedAt(flush[f].s) = Latest(e)
    BY <2>1, <2>3 DEF UpdatedAt, Latest
  <2>8. c + 1 \in 0..c
    BY <1>6, <1>7, <2>5, <2>6, <2>7
  <2>9. QED
    BY <1>5, <2>8
<1>8. ASSUME NEW f \in Flushers, flush[f].at = "clear" PROVE Settled'
  BY <1>1, <1>8 DEF Settled
<1>9. UnsavedIsFlagged'
  BY <1>1 DEF UnsavedIsFlagged
<1>10. QED
  BY <1>1, <1>7, <1>8, <1>9 DEF FlagInv

LEMMA FlagRequest ==
  ASSUME CacheTyped, WorkFits, Histories, FlagInv, NEW w \in Requests, RequestStep(w)
  PROVE  FlagInv'
<1>1. CASE Commit(w)
  BY <1>1, FlagCommit
<1>2. CASE Warm(w)
  <2>1. blob' = req[w].new /\ row' = row /\ unseen' = (unseen \/ LeftBehind(req[w].new))
    BY <1>2 DEF Warm
  <2>2. Settled'
    BY <2>1 DEF Settled, Saved, LeftBehind
  <2>3. QED
    BY <2>2 DEF Settled, FlagInv, UnsavedIsFlagged
<1>3. CASE ~Commit(w) /\ ~Warm(w)
  <2>1. UNCHANGED <<blob, row, dirty, unseen, flush>>
    BY <1>3 DEF RequestStep, Ask, Watch, ReadMiss, Load, Mutate, Refuse,
         ExecAborts, Reconcile, Answer409, Fail
  <2>2. QED
    BY <2>1, FlagKept
<1>4. QED
  BY <1>1, <1>2, <1>3

(* Copying the blob to the row settles it, or says that the row lost an edit. *)
LEMMA FlagUpsert ==
  ASSUME CacheTyped, WorkFits, Histories, FlagInv, NEW f \in Flushers, Upsert(f)
  PROVE  FlagInv'
<1>1. PICK s : s = flush[f].s
  OBVIOUS
<1>2. s \in State /\ From(s) /\ From(blob)
  BY <1>1, HeldHere DEF WorkFits, FlushFits, Upsert
<1>3. /\ row' = s /\ blob' = blob /\ dirty' = dirty
      /\ unseen' = (unseen \/ ~(row.edits \subseteq s.edits))
  BY <1>1 DEF Upsert
<1>4. /\ \A g \in Flushers \ {f} : flush'[g] = flush[g]
      /\ flush'[f].at = "compare" /\ flush'[f].s = s
  <2>1. PICK r : r = flush[f]
    OBVIOUS
  <2>2. r \in Flush /\ flush \in [Flushers -> Flush]
    BY <2>1 DEF CacheTyped
  <2>3. flush' = [flush EXCEPT ![f] = [r EXCEPT !.at = "compare"]]
    BY <2>1, <2>2 DEF Upsert
  <2>4. [r EXCEPT !.at = "compare"].s = r.s /\ [r EXCEPT !.at = "compare"].at = "compare"
    BY <2>2 DEF Flush
  <2>5. QED
    BY <1>1, <2>1, <2>2, <2>3, <2>4
<1>5. Settled => Settled'
  BY <1>3 DEF Settled, Saved
<1>6. blob # NoState /\ UpdatedAt(blob) = UpdatedAt(s) => Settled'
  <2>1. ASSUME blob # NoState, UpdatedAt(blob) = UpdatedAt(s) PROVE Settled'
    <3>1. PICK b : b = blob
      OBVIOUS
    <3>2. s # NoState
      BY <1>2, StateIs
    <3>3. b.edits = s.edits
      BY <1>2, <2>1, <3>1, <3>2, SameEdits
    <3>4. QED
      BY <1>3, <3>1, <3>3 DEF Settled, Saved
  <2>2. QED
    BY <2>1
<1>7. ASSUME NEW g \in Flushers
      PROVE  /\ flush'[g].at = "compare" /\ blob' # NoState /\ UpdatedAt(blob') = UpdatedAt(flush'[g].s) => Settled'
             /\ flush'[g].at = "clear" => Settled'
  <2>1. CASE g = f
    BY <1>3, <1>4, <1>6, <2>1
  <2>2. CASE g # f
    BY <1>3, <1>4, <1>5, <2>2 DEF FlagInv
  <2>3. QED
    BY <2>1, <2>2
<1>8. UnsavedIsFlagged'
  BY <1>3, <1>5 DEF FlagInv, Settled, UnsavedIsFlagged
<1>9. QED
  BY <1>7, <1>8 DEF FlagInv

LEMMA FlagCompare ==
  ASSUME CacheTyped, FlagInv, NEW f \in Flushers, Compare(f)
  PROVE  FlagInv'
<1>1. UNCHANGED <<blob, row, dirty, unseen>> /\ flush \in [Flushers -> Flush]
  BY DEF Compare, CacheTyped
<1>2. \A g \in Flushers \ {f} : flush'[g] = flush[g]
  BY <1>1 DEF Compare
<1>3. CASE StillCurrent(f)
  <2>1. Settled
    BY <1>3 DEF FlagInv, Compare, StillCurrent
  <2>2. Settled'
    BY <1>1, <2>1 DEF Settled, Saved
  <2>3. QED
    BY <2>2 DEF Settled, FlagInv, UnsavedIsFlagged
<1>4. CASE ~StillCurrent(f)
  <2>1. flush'[f].at = "idle"
    BY <1>1, <1>4 DEF Compare, NoFlush
  <2>2. QED
    BY <1>1, <1>2, <2>1, FlagKept
<1>5. QED
  BY <1>3, <1>4

LEMMA FlagFlush ==
  ASSUME CacheTyped, WorkFits, Histories, FlagInv, NEW f \in Flushers, FlushStep(f) \/ FlushFails(f)
  PROVE  FlagInv'
<1>0. flush \in [Flushers -> Flush]
  BY DEF CacheTyped
<1>1. CASE FlushFind(f) \/ FlushFails(f)
  <2>1. UNCHANGED <<blob, row, dirty, unseen>>
    BY <1>1 DEF FlushFind, FlushFails
  <2>2. flush'[f].at \notin {"compare", "clear"} /\ \A g \in Flushers \ {f} : flush'[g] = flush[g]
    BY <1>0, <1>1 DEF FlushFind, FlushFails, NoFlush
  <2>3. QED
    BY <2>1, <2>2, FlagKept
<1>2. CASE FlushFill(f)
  <2>1. blob' = flush[f].s /\ row' = row /\ unseen' = (unseen \/ LeftBehind(flush[f].s))
    BY <1>2 DEF FlushFill
  <2>2. Settled'
    BY <2>1 DEF Settled, Saved, LeftBehind
  <2>3. QED
    BY <2>2 DEF Settled, FlagInv, UnsavedIsFlagged
<1>3. CASE Clear(f)
  <2>1. Settled /\ UNCHANGED <<blob, row, unseen>>
    BY <1>3 DEF FlagInv, Clear
  <2>2. Settled'
    BY <2>1 DEF Settled, Saved
  <2>3. QED
    BY <2>2 DEF Settled, FlagInv, UnsavedIsFlagged
<1>4. QED
  BY <1>1, <1>2, <1>3, FlagUpsert, FlagCompare DEF FlushStep

LEMMA FlagStep ==
  ASSUME CacheTyped, WorkFits, Histories, FlagInv, [Next]_vars
  PROVE  FlagInv'
<1>1. CASE UNCHANGED vars \/ \E v \in Variants : Lapse(v)
  <2>1. UNCHANGED <<blob, row, dirty, unseen, flush>>
    BY <1>1 DEF vars, Lapse
  <2>2. QED
    BY <2>1, FlagKept
<1>2. CASE Evict
  <2>1. blob' = NoState
    BY <1>2 DEF Evict
  <2>2. QED
    BY <2>1 DEF Settled, FlagInv, Saved, UnsavedIsFlagged
<1>3. QED
  BY <1>1, <1>2, FlagRequest, FlagFlush DEF Next

StoreInv == CacheTyped /\ WorkFits /\ AckInv /\ HoldInv /\ Histories /\ FlagInv

LEMMA InitStore == ASSUME Init PROVE StoreInv
<1>1. CacheTyped /\ WorkFits
  BY InitCache
<1>2. /\ blob = Empty /\ row = Empty /\ clock = 0 /\ lapsed = {} /\ astray = {}
      /\ (\A v \in Variants : hold[v] = 0)
      /\ (\A w \in Requests : req[w] = Idle) /\ \A f \in Flushers : flush[f] = NoFlush
  BY DEF Init
<1>3. Empty.edits = {} /\ Empty # NoState /\ \A v \in Variants : Empty.lines[v].qty = 0
  BY DEF Empty, NoState, NoLine
<1>4. /\ Idle.at = "idle" /\ Idle.found = NoState /\ Idle.new = NoState
      /\ NoFlush.at = "idle" /\ NoFlush.s = NoState
  BY DEF Idle, NoFlush
<1>5. AckInv
  <2>1. {} = 1..clock
    BY <1>2
  <2>2. QED
    BY <1>2, <1>3, <1>4, <2>1 DEF AckInv
<1>6. HoldInv
  BY <1>2, <1>3, <1>4 DEF HoldInv
<1>7. Histories
  <2>1. \A s \in HeldStates : s = Empty
    BY <1>2, <1>4 DEF HeldStates
  <2>2. \A e \in EditsHeld : e = {}
    BY <1>3, <2>1 DEF EditsHeld
  <2>3. QED
    BY <2>2 DEF Histories
<1>8. FlagInv
  BY <1>2, SettledIsFlagged DEF Settled, Saved
<1>9. QED
  BY <1>1, <1>5, <1>6, <1>7, <1>8 DEF StoreInv

LEMMA StoreStep == ASSUME StoreInv, [Next]_vars PROVE StoreInv'
<1>1. CacheTyped /\ WorkFits /\ AckInv /\ HoldInv /\ Histories /\ FlagInv
  BY DEF StoreInv
<1>2. CacheTyped' /\ WorkFits'
  BY <1>1, CacheTypedStep
<1>3. AckInv' /\ HoldInv'
  BY <1>1, AckStep, HoldStep
<1>4. Histories' /\ FlagInv'
  BY <1>1, HistoriesStep, FlagStep
<1>5. QED
  BY <1>2, <1>3, <1>4 DEF StoreInv

LEMMA StoreIsInv == Spec => []StoreInv
<1>1. Init => StoreInv
  BY InitStore
<1>2. StoreInv /\ [Next]_vars => StoreInv'
  BY StoreStep
<1>3. QED
  BY <1>1, <1>2, PTL DEF Spec

(* Every variable has its type: no line and no hold beyond the stock, and every *)
(* request and flush worker holds states the store can have had.                *)
THEOREM StoreTyped == Spec => []TypeOK
<1>1. ASSUME StoreInv PROVE TypeOK
  <2>1. CacheTyped
    BY <1>1 DEF StoreInv
  <2>2. ASSUME NEW w \in Requests
        PROVE  /\ req[w].at \in {"idle", "watch", "miss", "fill", "mutate", "exec", "fix"}
               /\ req[w].op \in Op \cup {NoOp} /\ req[w].clean \in BOOLEAN
               /\ req[w].found \in State \cup {NoState} /\ req[w].new \in State \cup {NoState}
               /\ req[w].tries \in 0..MaxTries /\ req[w].moved \subseteq Variants
               /\ req[w].todo \subseteq Variants
    <3>1. req[w] \in Req
      BY <2>1 DEF CacheTyped
    <3>2. QED
      BY <3>1, ReqFields
  <2>3. ASSUME NEW f \in Flushers
        PROVE  /\ flush[f].at \in {"idle", "fill", "upsert", "compare", "clear"}
               /\ flush[f].s \in State \cup {NoState}
    <3>1. flush[f] \in Flush
      BY <2>1 DEF CacheTyped
    <3>2. QED
      BY <3>1 DEF Flush
  <2>4. QED
    BY <2>1, <2>2, <2>3 DEF CacheTyped, TypeOK
<1>2. QED
  BY <1>1, StoreIsInv, PTL

(* No acknowledged edit is lost to another one as long as Redis keeps the blob:  *)
(* WATCH and EXEC make every edit of one made on the latest (CartRepository.mutate). *)
THEOREM NoEditIsLost == Spec => []AckedEditsKept
<1>1. ASSUME StoreInv PROVE AckedEditsKept
  BY <1>1 DEF StoreInv, AckInv, AckedEditsKept
<1>2. QED
  BY <1>1, StoreIsInv, PTL

(* The holds are those of the cart's lines when nobody is at work on them,       *)
(* whatever attempts the reservations were repeated in.                          *)
THEOREM HoldsAreTheLines == Spec => []HoldsFollowCart
<1>1. ASSUME StoreInv PROVE HoldsFollowCart
  <2> SUFFICES ASSUME ~evicted, NEW v \in Variants \ (InWork \cup lapsed \cup astray)
               PROVE  hold[v] = blob.lines[v].qty
    BY DEF HoldsFollowCart
  <2>1. ASSUME NEW w \in Requests PROVE v \notin req[w].moved
    <3>1. CASE req[w].at = "idle"
      <4>1. req[w].moved = {}
        BY <1>1, <3>1, RequestIs DEF StoreInv, Staged
      <4>2. QED
        BY <4>1
    <3>2. CASE req[w].at # "idle"
      BY <3>2 DEF InWork
    <3>3. QED
      BY <3>1, <3>2
  <2>2. QED
    BY <1>1, <2>1 DEF StoreInv, HoldInv, Exempt
<1>2. QED
  BY <1>1, StoreIsInv, PTL

(* An edit that Postgres does not have is flagged to be flushed, but for an edit *)
(* between a flush's comparison and its SREM and a slower flush or refill of     *)
(* another state: the comparison of updatedAt is enough because two held states  *)
(* with the same latest edit are the same edits (CartFlushRepository.flushDirty). *)
THEOREM UnsavedStaysFlagged == Spec => []UnsavedIsFlagged
<1>1. ASSUME StoreInv PROVE UnsavedIsFlagged
  BY <1>1 DEF StoreInv, FlagInv
<1>2. QED
  BY <1>1, StoreIsInv, PTL

-----------------------------------------------------------------------------
(***************************************************************************)
(* CartStore implements CartRegister.  What an edit is about to write is    *)
(* its operation on the state it read (EditInv), which is the latest one if *)
(* the watch stands; and lines have names of their own (LinesInv), so that  *)
(* an operation on a name is one on a line.                                 *)
(***************************************************************************)

(* What an edit whose watch stands is about to write is its operation on the    *)
(* state it read, which it found in order, with a line named after the edit.     *)
Intends(w) ==
  req[w].at = "exec" /\ req[w].clean =>
    /\ Finds(req[w].op, req[w].found)
    /\ \A v \in Touches(req[w].op, req[w].found) : InStock(req[w].op, req[w].found, v)
    /\ req[w].new = Mutated(req[w].op, req[w].found, clock + 1)

EditInv == \A w \in Requests : Intends(w)

(* The lines of the cart have names of their own. *)
LinesInv ==
  ~evicted => \A v \in Variants :
    /\ blob.lines[v].id <= clock
    /\ \A u \in Variants \ {v} : blob.lines[v] # NoLine => blob.lines[u].id # blob.lines[v].id

-----------------------------------------------------------------------------
LEMMA EditBroken == ASSUME CacheTyped, req' = Unwatched PROVE EditInv'
<1>1. ASSUME NEW w \in Requests PROVE req'[w].clean = FALSE
  <2>1. PICK r : r = req[w]
    OBVIOUS
  <2>2. r \in Req
    BY <2>1 DEF CacheTyped
  <2>3. req'[w] = [r EXCEPT !.clean = FALSE]
    BY <2>1 DEF Unwatched
  <2>4. QED
    BY <2>2, <2>3 DEF Req
<1>2. QED
  BY <1>1 DEF EditInv, Intends

LEMMA EditRequest ==
  ASSUME CacheTyped, WorkFits, EditInv, NEW w \in Requests, RequestStep(w)
  PROVE  EditInv'
<1>1. Does(w)
  BY RequestDoes
<1>2. CASE Commit(w)
  <2>1. req' = [Unwatched EXCEPT ![w] = Idle]
    BY <1>2 DEF Commit
  <2>2. ASSUME NEW u \in Requests PROVE req'[u].clean = FALSE
    <3>1. CASE u = w
      BY <2>1, <3>1 DEF Idle, Unwatched
    <3>2. CASE u # w
      <4>1. PICK r : r = req[u]
        OBVIOUS
      <4>2. r \in Req
        BY <4>1 DEF CacheTyped
      <4>3. req'[u] = [r EXCEPT !.clean = FALSE]
        BY <2>1, <3>2, <4>1 DEF Unwatched
      <4>4. QED
        BY <4>2, <4>3 DEF Req
    <3>3. QED
      BY <3>1, <3>2
  <2>3. QED
    BY <2>2 DEF EditInv, Intends
<1>3. CASE ~Commit(w)
  <2>1. clock' = clock
    <3>1. CASE Warm(w)
      BY <3>1 DEF Warm
    <3>2. QED
      BY <1>3, <3>1, RequestWrites
  <2>2. ASSUME NEW u \in Requests \ {w} PROVE Intends(u)'
    <3>1. req'[u].clean = FALSE \/ req'[u] = req[u]
      BY <1>1 DEF Does, Quiet
    <3>2. QED
      BY <2>1, <3>1 DEF EditInv, Intends
  <2>3. Intends(w)'
    <3>1. ASSUME Mutate(w)
          PROVE  /\ Finds(req[w].op, req[w].found)
                 /\ \A v \in Touches(req[w].op, req[w].found) : InStock(req[w].op, req[w].found, v)
                 /\ req'[w].op = req[w].op /\ req'[w].found = req[w].found
                 /\ req'[w].new = Mutated(req[w].op, req[w].found, clock + 1)
      BY <3>1, MutateDoes DEF Mutate
    <3>2. CASE Mutate(w)
      BY <2>1, <3>1, <3>2 DEF Intends
    <3>3. CASE ~Mutate(w)
      BY <1>1, <3>3 DEF Does, Intends
    <3>4. QED
      BY <3>2, <3>3
  <2>4. QED
    BY <2>2, <2>3 DEF EditInv
<1>4. QED
  BY <1>2, <1>3

LEMMA EditStep ==
  ASSUME CacheTyped, WorkFits, EditInv, [Next]_vars
  PROVE  EditInv'
<1>1. CASE UNCHANGED <<req, clock>>
  BY <1>1 DEF EditInv, Intends
<1>2. CASE UNCHANGED vars \/ \E v \in Variants : Lapse(v)
  BY <1>1, <1>2 DEF vars, Lapse
<1>3. ASSUME NEW f \in Flushers, FlushStep(f) \/ FlushFails(f) PROVE EditInv'
  <2>1. clock' = clock /\ (req' = req \/ req' = Unwatched)
    BY <1>3, FlushMoves
  <2>2. QED
    BY <1>1, <2>1, EditBroken
<1>4. CASE Evict
  BY <1>4, EditBroken DEF Evict
<1>5. QED
  BY <1>2, <1>3, <1>4, EditRequest DEF Next

LEMMA EditMakes ==
  ASSUME NEW s \in State, NEW op, NEW id, NEW n, n = Mutated(op, s, id)
  PROVE  /\ n.lines = [v \in Variants |-> IF v \in Touches(op, s) THEN LineAfter(op, s, v, id) ELSE s.lines[v]]
         /\ n.status = IF op.kind = "abandon" THEN "abandoned" ELSE s.status
  BY DEF Mutated, State

(* What a commit makes of the cart. *)
LEMMA CommitMakes ==
  ASSUME CacheTyped, WorkFits, EditInv, NEW w \in Requests, Commit(w)
  PROVE  /\ clock' = clock + 1 /\ clock \in Nat /\ evicted' = evicted
         /\ blob \in State /\ req[w].op \in Op /\ req[w].op.kind # "read" /\ Finds(req[w].op, blob)
         /\ \A v \in Touches(req[w].op, blob) : InStock(req[w].op, blob, v)
         /\ blob'.lines = [v \in Variants |-> IF v \in Touches(req[w].op, blob)
                                              THEN LineAfter(req[w].op, blob, v, clock + 1) ELSE blob.lines[v]]
         /\ blob'.status = IF req[w].op.kind = "abandon" THEN "abandoned" ELSE blob.status
<1>1. /\ clock' = clock + 1 /\ clock \in Nat /\ blob = req[w].found /\ blob \in State
      /\ req[w].at = "exec" /\ req[w].clean /\ blob'.lines = req[w].new.lines /\ req[w].new \in State
  BY CommitWrites
<1>2. req[w].op \in Op /\ req[w].op.kind # "read"
  BY <1>1, RequestIs DEF Staged
<1>3. /\ Finds(req[w].op, blob) /\ \A v \in Touches(req[w].op, blob) : InStock(req[w].op, blob, v)
      /\ req[w].new = Mutated(req[w].op, blob, clock + 1)
  BY <1>1 DEF EditInv, Intends
<1>4. PICK s : s = blob
  OBVIOUS
<1>5. PICK op : op = req[w].op
  OBVIOUS
<1>6. PICK c : c = clock + 1
  OBVIOUS
<1>7. PICK n : n = req[w].new
  OBVIOUS
<1>8. s \in State /\ n = Mutated(op, s, c)
  BY <1>1, <1>3, <1>4, <1>5, <1>6, <1>7
<1>9. /\ n.lines = [v \in Variants |-> IF v \in Touches(op, s) THEN LineAfter(op, s, v, c) ELSE s.lines[v]]
      /\ n.status = IF op.kind = "abandon" THEN "abandoned" ELSE s.status
  BY <1>8, EditMakes
<1>10. blob'.status = n.status
  <2>1. PICK e : e = n.edits \cup {c}
    OBVIOUS
  <2>2. blob' = [n EXCEPT !.edits = e]
    BY <1>6, <1>7, <2>1 DEF Commit
  <2>3. QED
    BY <1>1, <1>7, <2>2 DEF State
<1>11. evicted' = evicted
  BY DEF Commit
<1>12. QED
  BY <1>1, <1>2, <1>3, <1>4, <1>5, <1>6, <1>7, <1>9, <1>10, <1>11

(* The name of a line is nobody else's. *)
LEMMA OneLine ==
  ASSUME CacheTyped, LinesInv, ~evicted, blob \in State, NEW id \in 1..MaxEdits, NEW v \in LineOf(blob, id)
  PROVE  LineOf(blob, id) = {v} /\ v \in Variants /\ blob.lines[v] # NoLine
<1>1. v \in Variants /\ blob.lines[v].id = id
  BY DEF LineOf
<1>2. blob.lines[v] # NoLine
  BY <1>1 DEF NoLine
<1>3. \A u \in Variants \ {v} : blob.lines[u].id # id
  BY <1>1, <1>2 DEF LinesInv
<1>4. QED
  BY <1>1, <1>2, <1>3 DEF LineOf

(* An operation touches one line at most, but for abandoning the cart. *)
LEMMA OneTouched ==
  ASSUME CacheTyped, LinesInv, ~evicted, blob \in State, NEW op \in Op, op.kind \in {"update", "remove"},
         NEW v \in Touches(op, blob)
  PROVE  Touches(op, blob) = {v} /\ v \in Variants /\ blob.lines[v] # NoLine
<1>1. PICK id : id = op.id
  OBVIOUS
<1>2. id \in 1..MaxEdits
  BY <1>1 DEF Op
<1>3. Touches(op, blob) = LineOf(blob, id)
  BY <1>1 DEF Touches
<1>4. QED
  BY <1>2, <1>3, OneLine

(* What a line is after an edit: nothing, the line with its name, or a new one. *)
LEMMA NamesAfter ==
  ASSUME NEW s \in State, NEW op \in Op, op.kind # "read", NEW id, NEW v \in Touches(op, s)
  PROVE  LineAfter(op, s, v, id) = NoLine \/ LineAfter(op, s, v, id).id = s.lines[v].id
         \/ (op.kind = "add" /\ v = op.v /\ LineAfter(op, s, v, id).id = id)
<1>1. CASE op.kind = "add"
  BY <1>1 DEF LineAfter, Touches
<1>2. CASE op.kind = "update"
  <2>1. v \in Variants
    BY <1>2 DEF Touches, LineOf
  <2>2. PICK l : l = s.lines[v]
    OBVIOUS
  <2>3. l \in Line
    BY <2>1, <2>2, StateIs
  <2>4. LineAfter(op, s, v, id) = [l EXCEPT !.qty = op.qty]
    BY <1>2, <2>2 DEF LineAfter
  <2>5. QED
    BY <2>2, <2>3, <2>4 DEF Line, NoLine
<1>3. CASE op.kind \notin {"add", "update"}
  BY <1>3 DEF LineAfter
<1>4. QED
  BY <1>1, <1>2, <1>3

LEMMA LinesCommit ==
  ASSUME CacheTyped, WorkFits, EditInv, LinesInv, NEW w \in Requests, Commit(w)
  PROVE  LinesInv'
<1> SUFFICES ASSUME ~evicted PROVE LinesInv'
  BY CommitMakes DEF LinesInv
<1>1. PICK s : s = blob
  OBVIOUS
<1>2. PICK op : op = req[w].op
  OBVIOUS
<1>3. PICK c : c = clock
  OBVIOUS
<1>4. PICK ls : ls = [v \in Variants |-> IF v \in Touches(op, s) THEN LineAfter(op, s, v, c + 1) ELSE s.lines[v]]
  OBVIOUS
<1>5. clock' = c + 1 /\ c \in Nat /\ s \in State /\ op \in Op /\ op.kind # "read" /\ blob'.lines = ls
  BY <1>1, <1>2, <1>3, <1>4, CommitMakes
<1>6. \A v \in Variants : /\ s.lines[v].id <= c /\ s.lines[v] \in Line /\ s.lines[v].id \in Nat
                          /\ \A u \in Variants \ {v} : s.lines[v] # NoLine => s.lines[u].id # s.lines[v].id
  <2>1. \A v \in Variants : s.lines[v] \in Line
    BY <1>5, StateIs
  <2>2. \A l \in Line : l.id \in Nat
    BY DEF Line, NoLine
  <2>3. QED
    BY <1>1, <1>3, <2>1, <2>2 DEF LinesInv
<1>7. \A v \in Variants : \/ ls[v] = NoLine \/ ls[v].id = s.lines[v].id
                          \/ op.kind = "add" /\ v = op.v /\ ls[v].id = c + 1
  <2>1. ASSUME NEW v \in Variants, v \in Touches(op, s)
        PROVE  \/ ls[v] = NoLine \/ ls[v].id = s.lines[v].id
               \/ op.kind = "add" /\ v = op.v /\ ls[v].id = c + 1
    <3>1. PICK l : l = LineAfter(op, s, v, c + 1)
      OBVIOUS
    <3>2. l = NoLine \/ l.id = s.lines[v].id \/ (op.kind = "add" /\ v = op.v /\ l.id = c + 1)
      BY <1>5, <2>1, <3>1, NamesAfter
    <3>3. ls[v] = l
      BY <1>4, <2>1, <3>1
    <3>4. QED
      BY <3>2, <3>3
  <2>2. QED
    BY <1>4, <2>1
<1>8. ASSUME NEW v \in Variants PROVE ls[v].id <= c + 1
  <2>1. NoLine.id = 0
    BY DEF NoLine
  <2>2. QED
    BY <1>5, <1>6, <1>7, <2>1
<1>9. ASSUME NEW v \in Variants, NEW u \in Variants \ {v}, ls[v] # NoLine PROVE ls[u].id # ls[v].id
  <2>1. ls[v] \in Line
    <3>1. ls \in [Variants -> Line]
      BY <1>5, CommitWrites DEF State
    <3>2. QED
      BY <3>1
  <2>2. ls[v].id # 0
    BY <1>9, <2>1 DEF Line, NoLine
  <2>3. CASE ls[v].id = c + 1 /\ op.kind = "add" /\ v = op.v
    <3>1. ls[u] = NoLine \/ ls[u].id = s.lines[u].id
      BY <1>7, <2>3
    <3>2. ls[u].id <= c
      BY <1>5, <1>6, <3>1 DEF NoLine
    <3>3. ls[u].id \in Nat
      BY <1>6, <3>1 DEF NoLine
    <3>4. QED
      BY <1>5, <2>3, <3>2, <3>3
  <2>4. CASE ls[v].id = s.lines[v].id
    <3>1. s.lines[v] # NoLine
      BY <2>2, <2>4 DEF NoLine
    <3>2. s.lines[u].id # s.lines[v].id
      BY <1>6, <3>1
    <3>3. CASE ls[u] = NoLine
      BY <2>2, <3>3 DEF NoLine
    <3>4. CASE ls[u].id = s.lines[u].id
      BY <2>4, <3>2, <3>4
    <3>5. CASE ls[u].id = c + 1
      <4>1. ls[v].id <= c /\ ls[v].id \in Nat
        BY <1>6, <2>4
      <4>2. QED
        BY <1>5, <3>5, <4>1
    <3>6. QED
      BY <1>7, <3>3, <3>4, <3>5
  <2>5. QED
    BY <1>7, <1>9, <2>3, <2>4
<1>10. evicted' = evicted
  BY CommitMakes
<1>11. QED
  BY <1>5, <1>8, <1>9, <1>10 DEF LinesInv

(* While Redis keeps the cart nothing but a commit changes it. *)
LEMMA CartStays ==
  ASSUME CacheTyped, WorkFits, AckInv, [Next]_vars, ~evicted, ~Evict, \A w \in Requests : ~Commit(w)
  PROVE  blob' = blob /\ clock' = clock /\ evicted' = evicted
<1>1. CASE UNCHANGED vars
  BY <1>1 DEF vars
<1>2. CASE \E v \in Variants : Lapse(v)
  BY <1>2 DEF Lapse
<1>3. ASSUME NEW f \in Flushers, FlushStep(f) \/ FlushFails(f)
      PROVE  blob' = blob /\ clock' = clock /\ evicted' = evicted
  <2>1. ~FlushFill(f)
    BY DEF AckInv, FlushFill
  <2>2. QED
    BY <1>3, <2>1 DEF FlushStep, FlushFind, Upsert, Compare, Clear, FlushFails
<1>4. ASSUME NEW w \in Requests, RequestStep(w)
      PROVE  blob' = blob /\ clock' = clock /\ evicted' = evicted
  <2>1. ~Warm(w)
    BY DEF AckInv, Warm
  <2>2. QED
    BY <1>4, <2>1, RequestWrites, RequestKeeps
<1>5. QED
  BY <1>1, <1>2, <1>3, <1>4 DEF Next

LEMMA LostStays == ASSUME [Next]_vars, evicted PROVE evicted'
<1>1. ASSUME NEW f \in Flushers, FlushStep(f) \/ FlushFails(f) PROVE evicted' = evicted
  BY <1>1 DEF FlushStep, FlushFind, FlushFill, Upsert, Compare, Clear, FlushFails
<1>2. QED
  BY <1>1, RequestKeeps DEF Next, vars, Evict, Lapse

LEMMA LinesStep ==
  ASSUME CacheTyped, WorkFits, AckInv, EditInv, LinesInv, [Next]_vars
  PROVE  LinesInv'
<1>1. CASE evicted \/ Evict
  BY <1>1, LostStays DEF LinesInv, Evict
<1>2. CASE ~evicted /\ \E w \in Requests : Commit(w)
  BY <1>2, LinesCommit
<1>3. CASE ~evicted /\ ~Evict /\ \A w \in Requests : ~Commit(w)
  BY <1>3, CartStays DEF LinesInv
<1>4. QED
  BY <1>1, <1>2, <1>3

-----------------------------------------------------------------------------
(* A commit is an edit of the register. *)
LEMMA KeptIs ==
  /\ ~evicted => /\ KeptCart = [lines |-> blob.lines, status |-> blob.status, edits |-> clock]
                 /\ KeptCart.lines = blob.lines /\ KeptCart.status = blob.status /\ KeptCart.edits = clock
  /\ evicted => KeptCart = Register!Lost
  BY DEF KeptCart, Register!Lost

LEMMA AddEdits ==
  ASSUME NEW s \in State, NEW c, NEW op \in Op, op.kind = "add", NEW ls,
         ls = [v \in Variants |-> IF v \in Touches(op, s) THEN LineAfter(op, s, v, c + 1) ELSE s.lines[v]]
  PROVE  op.v \in Variants /\ op.qty \in Amounts
         /\ ls = [s.lines EXCEPT ![op.v] = [id  |-> IF s.lines[op.v] # NoLine THEN s.lines[op.v].id ELSE c + 1,
                                            qty |-> s.lines[op.v].qty + op.qty]]
<1>1. op.v \in Variants /\ op.qty \in Amounts
  BY DEF Op
<1>2. Touches(op, s) = {op.v}
  BY DEF Touches
<1>3. PICK l : l = [id  |-> IF s.lines[op.v] # NoLine THEN s.lines[op.v].id ELSE c + 1,
                    qty |-> s.lines[op.v].qty + op.qty]
  OBVIOUS
<1>4. LineAfter(op, s, op.v, c + 1) = l
  BY <1>3 DEF LineAfter
<1>5. s.lines \in [Variants -> Line]
  BY DEF State
<1>6. ls = [s.lines EXCEPT ![op.v] = l]
  BY <1>1, <1>2, <1>4, <1>5
<1>7. QED
  BY <1>1, <1>3, <1>6

LEMMA UpdateEdits ==
  ASSUME NEW s \in State, NEW c, NEW op \in Op, op.kind = "update", NEW v \in Variants, Touches(op, s) = {v}, NEW ls,
         ls = [u \in Variants |-> IF u \in Touches(op, s) THEN LineAfter(op, s, u, c + 1) ELSE s.lines[u]]
  PROVE  op.qty \in Amounts /\ ls = [s.lines EXCEPT ![v].qty = op.qty]
<1>1. op.qty \in Amounts
  BY DEF Op
<1>2. s.lines \in [Variants -> Line]
  BY DEF State
<1>3. PICK l : l = [s.lines[v] EXCEPT !.qty = op.qty]
  OBVIOUS
<1>4. LineAfter(op, s, v, c + 1) = l
  BY <1>3 DEF LineAfter
<1>5. ls = [s.lines EXCEPT ![v] = l]
  BY <1>2, <1>4
<1>6. QED
  BY <1>1, <1>3, <1>5

LEMMA RemoveEdits ==
  ASSUME NEW s \in State, NEW c, NEW op \in Op, op.kind = "remove", NEW v \in Variants, Touches(op, s) = {v}, NEW ls,
         ls = [u \in Variants |-> IF u \in Touches(op, s) THEN LineAfter(op, s, u, c + 1) ELSE s.lines[u]]
  PROVE  ls = [s.lines EXCEPT ![v] = NoLine]
<1>1. s.lines \in [Variants -> Line]
  BY DEF State
<1>2. LineAfter(op, s, v, c + 1) = NoLine
  BY DEF LineAfter
<1>3. QED
  BY <1>1, <1>2

LEMMA TouchEdits ==
  ASSUME NEW s \in State, NEW c, NEW op, Touches(op, s) = {}, NEW ls,
         ls = [u \in Variants |-> IF u \in Touches(op, s) THEN LineAfter(op, s, u, c + 1) ELSE s.lines[u]]
  PROVE  ls = s.lines
  BY DEF State

LEMMA CommitEdits ==
  ASSUME CacheTyped, WorkFits, EditInv, LinesInv, ~evicted, NEW w \in Requests, Commit(w)
  PROVE  Register!Next
<1>1. PICK s : s = blob
  OBVIOUS
<1>2. PICK op : op = req[w].op
  OBVIOUS
<1>3. PICK c : c = clock
  OBVIOUS
<1>4. PICK ls : ls = [v \in Variants |-> IF v \in Touches(op, s) THEN LineAfter(op, s, v, c + 1) ELSE s.lines[v]]
  OBVIOUS
<1>5. /\ clock' = c + 1 /\ s \in State /\ op \in Op /\ op.kind # "read" /\ blob'.lines = ls
      /\ blob'.status = IF op.kind = "abandon" THEN "abandoned" ELSE s.status
      /\ s.status = "active" /\ (op.kind = "update" => Touches(op, s) # {})
      /\ \A v \in Touches(op, s) : InStock(op, s, v)
  BY <1>1, <1>2, <1>3, <1>4, CommitMakes DEF Finds, Alive
<1>6. PICK k : k = [lines |-> s.lines, status |-> s.status, edits |-> c]
  OBVIOUS
<1>7. KeptCart = k /\ k.lines = s.lines /\ k.status = "active" /\ k.edits = c
  BY <1>1, <1>3, <1>5, <1>6, KeptIs
<1>8. KeptCart' = [lines |-> ls, status |-> blob'.status, edits |-> c + 1]
  <2>1. ~evicted'
    BY CommitMakes
  <2>2. QED
    BY <1>5, <2>1 DEF KeptCart
<1>9. Register!Live
  BY <1>7 DEF Register!Live
<1>10. ASSUME op.kind # "abandon" PROVE Register!Edited(ls, "active")
  BY <1>5, <1>7, <1>8, <1>10 DEF Register!Edited
<1>11. CASE op.kind = "add"
  <2>1. PICK v : v = op.v
    OBVIOUS
  <2>2. v \in Variants /\ op.qty \in Amounts /\ v \in Touches(op, s)
    BY <1>5, <1>11, <2>1, AddEdits DEF Touches
  <2>3. s.lines[v].qty + op.qty <= Stock
    BY <1>5, <1>11, <2>2 DEF InStock, Reserves
  <2>4. PICK l : l = [id  |-> IF s.lines[v] # NoLine THEN s.lines[v].id ELSE c + 1, qty |-> s.lines[v].qty + op.qty]
    OBVIOUS
  <2>5. ls = [s.lines EXCEPT ![v] = l]
    BY <1>4, <1>5, <1>11, <2>1, <2>4, AddEdits
  <2>6. Register!Lists(v) <=> s.lines[v] # NoLine
    BY <1>7 DEF Register!Lists, Register!NoLine, NoLine
  <2>7. Register!Edited([s.lines EXCEPT ![v] = l], "active")
    BY <1>10, <1>11, <2>5
  <2>8. Register!Add(v, op.qty)
    BY <1>7, <1>9, <2>3, <2>4, <2>6, <2>7 DEF Register!Add
  <2>9. QED
    BY <2>2, <2>8 DEF Register!Next
<1>12. CASE op.kind = "update"
  <2>1. PICK v \in Touches(op, s) : TRUE
    BY <1>5, <1>12
  <2>2. Touches(op, s) = {v} /\ v \in Variants /\ s.lines[v] # NoLine
    BY <1>1, <1>5, <1>12, <2>1, OneTouched
  <2>3. op.qty \in Amounts /\ ls = [s.lines EXCEPT ![v].qty = op.qty]
    BY <1>4, <1>5, <1>12, <2>2, UpdateEdits
  <2>4. Register!Lists(v)
    BY <1>7, <2>2 DEF Register!Lists, Register!NoLine, NoLine
  <2>5. Register!Update(v, op.qty)
    BY <1>7, <1>9, <1>10, <1>12, <2>3, <2>4 DEF Register!Update
  <2>6. QED
    BY <2>2, <2>3, <2>5 DEF Register!Next
<1>13. CASE op.kind = "remove" /\ Touches(op, s) # {}
  <2>1. PICK v \in Touches(op, s) : TRUE
    BY <1>13
  <2>2. Touches(op, s) = {v} /\ v \in Variants
    BY <1>1, <1>5, <1>13, <2>1, OneTouched
  <2>3. ls = [s.lines EXCEPT ![v] = NoLine]
    BY <1>4, <1>5, <1>13, <2>2, RemoveEdits
  <2>4. Register!Remove(v)
    BY <1>7, <1>9, <1>10, <1>13, <2>3 DEF Register!Remove, Register!NoLine, NoLine
  <2>5. QED
    BY <2>2, <2>4 DEF Register!Next
<1>14. CASE op.kind = "abandon"
  <2>1. ls = [v \in Variants |-> NoLine]
    BY <1>4, <1>14 DEF Touches, LineAfter
  <2>2. KeptCart' = [lines |-> [v \in Variants |-> Register!NoLine], status |-> "abandoned", edits |-> c + 1]
    BY <1>5, <1>8, <1>14, <2>1 DEF Register!NoLine, NoLine
  <2>3. Register!Abandon
    BY <1>7, <1>9, <2>2 DEF Register!Abandon, Register!Edited
  <2>4. QED
    BY <2>3 DEF Register!Next
<1>15. CASE op.kind = "set" \/ (op.kind = "remove" /\ Touches(op, s) = {})
  <2>1. Touches(op, s) = {}
    BY <1>15 DEF Touches
  <2>2. ls = s.lines
    BY <1>4, <1>5, <2>1, TouchEdits
  <2>3. Register!Touch
    BY <1>7, <1>9, <1>10, <1>15, <2>2 DEF Register!Touch
  <2>4. QED
    BY <2>3 DEF Register!Next
<1>16. QED
  BY <1>5, <1>11, <1>12, <1>13, <1>14, <1>15 DEF Op

LEMMA RegisterStep ==
  ASSUME CacheTyped, WorkFits, AckInv, EditInv, LinesInv, [Next]_vars
  PROVE  [Register!Next]_KeptCart
<1>1. CASE evicted
  BY <1>1, LostStays DEF KeptCart
<1>2. CASE ~evicted /\ Evict
  <2>1. KeptCart' = Register!Lost
    BY <1>2 DEF Evict, KeptCart, Register!Lost
  <2>2. QED
    BY <2>1 DEF Register!Lose, Register!Next
<1>3. CASE ~evicted /\ \E w \in Requests : Commit(w)
  BY <1>3, CommitEdits
<1>4. CASE ~evicted /\ ~Evict /\ \A w \in Requests : ~Commit(w)
  BY <1>4, CartStays DEF KeptCart
<1>5. QED
  BY <1>1, <1>2, <1>3, <1>4

LEMMA RegisterInit == ASSUME Init PROVE Register!Init /\ EditInv /\ LinesInv
<1>1. Register!Init
  BY DEF Init, KeptCart, Empty, NoLine, Register!Init, Register!NoLine
<1>2. EditInv
  BY DEF Init, Idle, EditInv, Intends
<1>3. LinesInv
  BY DEF Init, Empty, NoLine, LinesInv
<1>4. QED
  BY <1>1, <1>2, <1>3

(* CartRepository.mutate, with its WATCH, its retries and its compensation,     *)
(* implements one register: an edit takes effect at once, on the latest cart,   *)
(* and but for an abandon on one line at most, as long as Redis keeps the cart. *)
THEOREM ImplementsTheRegister == Spec => ImplementsRegister
<1>1. Init => StoreInv /\ EditInv /\ LinesInv /\ Register!Init
  BY InitStore, RegisterInit
<1>2. StoreInv /\ EditInv /\ LinesInv /\ [Next]_vars
      => StoreInv' /\ EditInv' /\ LinesInv' /\ [Register!Next]_KeptCart
  BY StoreStep, EditStep, LinesStep, RegisterStep DEF StoreInv
<1>3. QED
  BY <1>1, <1>2, PTL DEF Spec, ImplementsRegister, Register!Spec
=============================================================================
