------------------------------ MODULE LegacyCart ------------------------------
(***************************************************************************)
(* The Counter cart of one cashier, table and food (SaleTemp with one      *)
(* SaleTempDetail per unit) and its checkout, endSale.  Cart handlers read *)
(* the cart outside their transaction and then write it in a Read          *)
(* Committed one: a statement sees what is committed when it runs, a       *)
(* written row stays locked until the commit, and a foreign key keeps the  *)
(* details inside a living cart.  The checkout is Serializable: it works   *)
(* on the snapshot of its first statement and fails (P2034) if a row that  *)
(* it deletes was written since.  Uncommitted writes are invisible, so     *)
(* each transaction writes when it commits.                                *)
(***************************************************************************)
EXTENDS Naturals, FiniteSets, FiniteSetsExt

CONSTANTS
  Request,      \* requests, retries included
  Key,          \* idempotency keys of checkouts
  Payment,      \* what a checkout asks for: records [payType, inputMoney]
  MaxUnit,      \* bound: details ever created
  MaxQty,       \* bound: the largest quantity asked for
  None

ASSUME CartAssumption ==
  /\ MaxUnit \in Nat /\ MaxQty \in Nat
  /\ Payment \subseteq [payType : {"cash", "bank"}, inputMoney : Nat]

VARIABLES
  cart,      \* the SaleTemp row [id, qty], or None
  details,   \* id of each SaleTempDetail of the cart -> its size
  serial,    \* the last cart id and the last detail id given out
  bills,     \* Key -> the BillSale of that key, or None
  req,       \* Request -> the state of its handler
  stale      \* checkouts that had a row of their snapshot changed

vars == <<cart, details, serial, bills, req, stale>>

Unit == 1..MaxUnit
Size == {"plain", "large"}
Selection == UNION {[S -> Size] : S \in SUBSET Unit}
Empty == [u \in {} |-> "plain"]

SaleTemp == [id : Nat, qty : Nat]
BillSale == [pay : Payment, lines : Selection, amount : Nat]
Snapshot == [cart : SaleTemp \cup {None}, details : Selection,
             bills : [Key -> BillSale \cup {None}]]

\* None is told apart from the rows, from three operations, from the answer "paid" and
\* from what a checkout asks for and sells.
ASSUME NoneIsNoRow ==
  /\ None \notin SaleTemp \cup BillSale \cup {"sync", "removeDetail", "endSale", "paid"}
  /\ None \notin [key : Key, pay : Payment] \cup [pay : Payment, lines : Selection]

HandlerState ==
  [pc : {"idle", "tx", "write", "begin", "body", "committed", "P2034", "P2002", "done"},
   op : {None, "create", "sync", "removeDetail", "remove", "removeAll", "selectSize",
         "endSale"},
   cart : Nat, qty : Nat, unit : Unit \cup {0}, seen : SUBSET Unit,
   key : Key \cup {None}, pay : Payment \cup {None}, attempt : 0..2,
   snap : Snapshot \cup {None},
   answer : {None, "success", "paid", "KEY_USED", "EMPTY", "CHANGED", "UNDERPAID",
             "error"}]

Idle == [pc |-> "idle", op |-> None, cart |-> 0, qty |-> 0, unit |-> 0, seen |-> {},
         key |-> None, pay |-> None, attempt |-> 0, snap |-> None, answer |-> None]

Highest(S) == IF S = {} THEN 0 ELSE Max(S)

\* The n youngest details (orderBy id desc, slice).
Youngest(S, n) == {u \in S : Cardinality({v \in S : v > u}) < n}

\* An uncommitted upsert locks the cart row, an uncommitted delete its detail.
NoRowLock(r) == TRUE      \* Variation: the quantity is read and written back
CartFree(r) ==
  \A q \in Request \ {r} : ~(req[q].pc = "write" /\ req[q].op = "create")
UnitsFree(r, S) ==
  \A q \in Request \ {r} :
     req[q].pc = "write" /\ req[q].op = "removeDetail" => req[q].unit \notin S

\* Every row written is in the snapshot of every checkout that is under way.
Touch == stale' = {q \in Request : req[q].pc = "body"}

Db == [cart |-> cart, details |-> details, bills |-> bills]
Running(r, op) == req[r].pc = "tx" /\ req[r].op = op
Answer(r, a) == req' = [req EXCEPT ![r].pc = "done", ![r].snap = None,
                                   ![r].seen = {}, ![r].answer = a]

-----------------------------------------------------------------------------
(* A request arrives; what it reads of the cart here is outside its        *)
(* transaction.  A cart or detail that is not found is answered 404.       *)

Call(r, state) ==
  /\ req[r].pc = "idle"
  /\ req' = [req EXCEPT ![r] = state]
  /\ UNCHANGED <<cart, details, serial, bills, stale>>

Sync(qty) == [Idle EXCEPT !.pc = "tx", !.op = "sync", !.cart = cart.id, !.qty = qty]

create(r) == Call(r, [Idle EXCEPT !.pc = "tx", !.op = "create"])
updateQty(r, qty) == cart # None /\ Call(r, Sync(qty))
generateSaleTempDetail(r) == cart # None /\ Call(r, Sync(cart.qty))
createSaleTempDetail(r) ==
  cart # None /\ cart.qty < MaxQty /\ Call(r, Sync(cart.qty + 1))
removeSaleTempDetailModal(r, u) ==
  /\ u \in DOMAIN details
  /\ Call(r, [Idle EXCEPT !.pc = "tx", !.op = "removeDetail", !.unit = u])
selectSize(r, u) ==
  /\ u \in DOMAIN details
  /\ Call(r, [Idle EXCEPT !.pc = "tx", !.op = "selectSize", !.unit = u])
remove(r) ==
  /\ cart # None
  /\ Call(r, [Idle EXCEPT !.pc = "tx", !.op = "remove", !.cart = cart.id])
removeAll(r) == Call(r, [Idle EXCEPT !.pc = "tx", !.op = "removeAll"])
endSale(r, k, p) ==
  Call(r, [Idle EXCEPT !.pc = "begin", !.op = "endSale", !.key = k, !.pay = p])

-----------------------------------------------------------------------------
(* The transactions of the cart handlers.                                  *)

\* The upsert and, under its row lock, the details that are there.
Upsert(r) ==
  /\ Running(r, "create") /\ CartFree(r)
  /\ cart # None => cart.qty < MaxQty
  /\ req' = [req EXCEPT ![r].pc = "write", ![r].seen = DOMAIN details,
                        ![r].cart = IF cart = None THEN serial.cart + 1 ELSE cart.id,
                        ![r].qty = IF cart = None THEN 1 ELSE cart.qty + 1]
  /\ UNCHANGED <<cart, details, serial, bills, stale>>

ReadDetails(r) ==
  /\ Running(r, "sync")
  /\ req' = [req EXCEPT ![r].pc = "write",
                        ![r].seen = IF cart # None /\ cart.id = req[r].cart
                                    THEN DOMAIN details ELSE {}]
  /\ UNCHANGED <<cart, details, serial, bills, stale>>

\* Details are added or removed to make up for what was seen; the quantity is
\* set to the target.
syncCartDetails(r) ==
  LET missing == req[r].qty - Cardinality(req[r].seen)
      added == IF Cardinality(req[r].seen) < req[r].qty
               THEN (serial.unit + 1)..(serial.unit + missing) ELSE {}
      removed == IF Cardinality(req[r].seen) > req[r].qty
                 THEN Youngest(req[r].seen, Cardinality(req[r].seen) - req[r].qty) ELSE {}
      kept == DOMAIN details \ removed
  IN
  /\ req[r].pc = "write" /\ req[r].op \in {"create", "sync"}
  /\ CartFree(r) /\ UnitsFree(r, removed)
  /\ \/ cart # None /\ cart.id = req[r].cart
     \/ cart = None /\ req[r].op = "create"
  /\ added \subseteq Unit
  /\ cart' = [id |-> req[r].cart, qty |-> req[r].qty]
  /\ details' = [u \in kept \cup added |-> IF u \in kept THEN details[u] ELSE "plain"]
  /\ serial' = [cart |-> IF cart = None THEN req[r].cart ELSE serial.cart,
                unit |-> Highest(added \cup {serial.unit})]
  /\ Answer(r, "success")
  /\ Touch
  /\ UNCHANGED bills

\* The detail is deleted and what remains is counted; other deletes under way
\* are not visible to the count.
DeleteDetail(r) ==
  /\ Running(r, "removeDetail")
  /\ req[r].unit \in DOMAIN details /\ UnitsFree(r, {req[r].unit})
  /\ req' = [req EXCEPT ![r].pc = "write",
                        ![r].qty = Cardinality(DOMAIN details \ {req[r].unit})]
  /\ UNCHANGED <<cart, details, serial, bills, stale>>

\* The cart gets the count as its quantity, or is deleted if that is zero.
ApplyCount(r) ==
  LET left == DOMAIN details \ {req[r].unit} IN
  /\ req[r].pc = "write" /\ req[r].op = "removeDetail" /\ CartFree(r)
  /\ details' = [u \in left |-> details[u]]
  /\ \/ req[r].qty = 0 /\ left = {} /\ cart' = None
     \/ req[r].qty > 0 /\ cart' = [cart EXCEPT !.qty = req[r].qty]
  /\ Answer(r, "success")
  /\ Touch
  /\ UNCHANGED <<serial, bills>>

SelectSize(r) ==
  /\ Running(r, "selectSize")
  /\ req[r].unit \in DOMAIN details /\ UnitsFree(r, {req[r].unit})
  /\ \E s \in Size : details' = [details EXCEPT ![req[r].unit] = s]
  /\ Answer(r, "success")
  /\ Touch
  /\ UNCHANGED <<cart, serial, bills>>

RemoveCart(r) ==
  /\ \/ Running(r, "remove") /\ cart # None /\ cart.id = req[r].cart
     \/ Running(r, "removeAll")
  /\ CartFree(r) /\ UnitsFree(r, DOMAIN details)
  /\ cart' = None /\ details' = Empty
  /\ Answer(r, "success")
  /\ Touch
  /\ UNCHANGED <<serial, bills>>

-----------------------------------------------------------------------------
(* The checkout.  Its snapshot is that of the statement that waits for the *)
(* advisory lock of (user, table); once it has the lock, all it reads is   *)
(* that snapshot, so the rest of the transaction is one step.              *)

Begin(r) ==
  /\ req[r].pc = "begin"
  /\ req' = [req EXCEPT ![r].pc = "body", ![r].snap = Db]
  /\ stale' = stale \ {r}
  /\ UNCHANGED <<cart, details, serial, bills>>

\* A unit costs 1 and a large one 2.
Total(lines) ==
  Cardinality(DOMAIN lines) + Cardinality({u \in DOMAIN lines : lines[u] = "large"})

Existing(r, db) == db.bills[req[r].key]
SameCheckout(r, bill) == bill.pay = req[r].pay

\* Variation: a quantity that differs from the details is not noticed.
AnyCart(snap) == snap.cart # None
Consistent(snap) == /\ snap.cart # None
                    /\ Cardinality(DOMAIN snap.details) = snap.cart.qty

Covered(r, snap) == \/ req[r].pay.payType = "bank"
                    \/ req[r].pay.inputMoney >= Total(snap.details)

\* What the transaction answers before it writes, in the order of its checks.
Reply(r) ==
  LET snap == req[r].snap IN
  /\ req[r].pc = "body"
  /\ \/ /\ Existing(r, snap) # None
        /\ Answer(r, IF SameCheckout(r, Existing(r, snap)) THEN "paid" ELSE "KEY_USED")
     \/ /\ Existing(r, snap) = None
        /\ \/ snap.cart = None /\ Answer(r, "EMPTY")
           \/ snap.cart # None /\ ~Consistent(snap) /\ Answer(r, "CHANGED")
           \/ Consistent(snap) /\ ~Covered(r, snap) /\ Answer(r, "UNDERPAID")
  /\ UNCHANGED <<cart, details, serial, bills, stale>>

Accepted(r) ==
  /\ req[r].pc = "body"
  /\ Existing(r, req[r].snap) = None
  /\ Consistent(req[r].snap) /\ Covered(r, req[r].snap)

NeverOutdated(r) == FALSE      \* Variation: Read Committed, as in the cart's handlers
Outdated(r) == r \in stale

Catch(r, code) == /\ req' = [req EXCEPT ![r].pc = code, ![r].snap = None]
                  /\ UNCHANGED <<cart, details, serial, bills, stale>>

Duplicate(r) == Accepted(r) /\ bills[req[r].key] # None /\ Catch(r, "P2002")

\* A conflict on these rows, or a serialization failure of another kind.
Conflict(r) == req[r].pc = "body" /\ Catch(r, "P2034")

\* Variation: what was charged stays in the cart.
KeepCart(lines) == UNCHANGED <<cart, details>>
DeleteCart(lines) ==
  cart' = None /\ details' = [u \in DOMAIN details \ DOMAIN lines |-> details[u]]

Charge(r) ==
  LET lines == req[r].snap.details IN
  /\ Accepted(r)
  /\ bills[req[r].key] = None /\ ~Outdated(r)
  /\ CartFree(r) /\ UnitsFree(r, DOMAIN lines)
  /\ bills' = [bills EXCEPT ![req[r].key] =
                 [pay |-> req[r].pay, lines |-> lines, amount |-> Total(lines)]]
  /\ DeleteCart(lines)
  /\ req' = [req EXCEPT ![r].pc = "committed", ![r].snap = None]
  /\ Touch
  /\ UNCHANGED serial

Respond(r) ==
  /\ req[r].pc = "committed" /\ Answer(r, "paid")
  /\ UNCHANGED <<cart, details, serial, bills, stale>>

OnceMore(r) == req[r].attempt <= 2                              \* Variation
MayRetry(r) == req[r].attempt < 2

OnConflict(r) ==
  /\ req[r].pc = "P2034"
  /\ \/ /\ MayRetry(r)
        /\ req' = [req EXCEPT ![r].pc = "begin", ![r].attempt = @ + 1]
     \/ ~MayRetry(r) /\ Answer(r, "error")
  /\ UNCHANGED <<cart, details, serial, bills, stale>>

\* Variation: whatever has the key is taken for this checkout.
OnDuplicateAnyBill(r) ==
  /\ req[r].pc = "P2002" /\ Answer(r, "paid")
  /\ UNCHANGED <<cart, details, serial, bills, stale>>
OnDuplicate(r) ==
  /\ req[r].pc = "P2002"
  /\ LET bill == Existing(r, Db) IN
     Answer(r, IF bill # None /\ SameCheckout(r, bill) THEN "paid" ELSE "KEY_USED")
  /\ UNCHANGED <<cart, details, serial, bills, stale>>

\* A row that is gone, a foreign key, a deadlock, a lost connection or a crash:
\* the transaction writes nothing, or its answer is lost.
Fail(r) ==
  /\ req[r].pc \notin {"idle", "done"}
  /\ Answer(r, "error")
  /\ UNCHANGED <<cart, details, serial, bills, stale>>

-----------------------------------------------------------------------------
\* The cart is absent, or was filled by earlier adds.
Init ==
  /\ \E n \in 0..MaxQty :
        /\ n <= MaxUnit
        /\ cart = IF n = 0 THEN None ELSE [id |-> 1, qty |-> n]
        /\ details = [u \in 1..n |-> "plain"]
        /\ serial = [cart |-> IF n = 0 THEN 0 ELSE 1, unit |-> n]
  /\ bills = [k \in Key |-> None]
  /\ req = [r \in Request |-> Idle]
  /\ stale = {}

Arrive(r) ==
  \/ create(r) \/ generateSaleTempDetail(r) \/ createSaleTempDetail(r)
  \/ remove(r) \/ removeAll(r)
  \/ \E qty \in 1..MaxQty : updateQty(r, qty)
  \/ \E u \in Unit : removeSaleTempDetailModal(r, u) \/ selectSize(r, u)
  \/ \E k \in Key, p \in Payment : endSale(r, k, p)

Handle(r) ==
  \/ Upsert(r) \/ ReadDetails(r) \/ syncCartDetails(r) \/ DeleteDetail(r)
  \/ ApplyCount(r) \/ SelectSize(r) \/ RemoveCart(r)
  \/ Begin(r) \/ Reply(r) \/ Duplicate(r) \/ Conflict(r) \/ Charge(r) \/ Respond(r)
  \/ OnConflict(r) \/ OnDuplicate(r) \/ Fail(r)

Next == \E r \in Request : Arrive(r) \/ Handle(r)

Spec == Init /\ [][Next]_vars

-----------------------------------------------------------------------------
Charged(k) == IF bills[k] = None THEN {} ELSE DOMAIN bills[k].lines

\* Rows and handler states keep their types, details live in a cart only, and a
\* checkout is tried three times at most.
TypeOK ==
  /\ cart \in SaleTemp \cup {None}
  /\ details \in Selection
  /\ cart = None => details = Empty
  /\ serial \in [cart : Nat, unit : Unit \cup {0}]
  /\ bills \in [Key -> BillSale \cup {None}]
  /\ req \in [Request -> HandlerState]
  /\ stale \subseteq Request

\* No unit is charged by two checkouts, and none that was charged is still, or
\* again, in the cart, whatever adds, removals and checkouts run meanwhile.
UnitsChargedOnce ==
  /\ \A k \in Key : Charged(k) \cap DOMAIN details = {}
  /\ \A j, k \in Key : j # k => Charged(j) \cap Charged(k) = {}

\* A checkout charges the cart as it is when it commits, the sizes selected
\* included, and takes exactly that: nothing added meanwhile disappears unpaid.
ChargesTheCart ==
  [][\A k \in Key : bills'[k] # bills[k] =>
        /\ bills[k] = None
        /\ bills'[k].lines = details /\ details' = Empty /\ cart' = None
        /\ Cardinality(DOMAIN details) = cart.qty]_vars

\* "success" is said of a checkout that this key really charged, with this
\* payment; it was enough to pay the bill.
PaidMeansCharged ==
  \A r \in Request :
     req[r].answer = "paid" =>
        LET bill == bills[req[r].key] IN
        /\ bill # None /\ bill.pay = req[r].pay
        /\ bill.pay.payType = "cash" => bill.pay.inputMoney >= bill.amount

\* Whatever changes the cart meanwhile, however often a checkout is sent and wherever
\* its answer is lost: a sale takes the whole cart and never nothing, a unit that was
\* sold or dropped does not return, and "paid" is said of sales that were made.
Asking == [r \in Request |-> IF req[r].op # "endSale" THEN None
                             ELSE [key |-> req[r].key, pay |-> req[r].pay]]
Sold == [k \in Key |-> IF bills[k] = None THEN None
                       ELSE [pay |-> bills[k].pay, lines |-> bills[k].lines]]
Told == {r \in Request : req[r].answer = "paid"}
PaysFor == {x \in Payment \X Selection : x[1].payType = "bank" \/ x[1].inputMoney >= Total(x[2])}
Promise == INSTANCE SellOnce
             WITH inCart <- details, used <- 1..serial.unit, asked <- Asking, sold <- Sold,
                  told <- Told, Enough <- PaysFor, Plain <- "plain"

SellsOnce == Promise!Spec

\* The quantity of a cart row, which screens show and updates start from, counts its
\* details, one per unit: cart.test.js calls the quantity changes transactional with
\* exactly one detail per unit.
OneDetailPerUnit == cart # None => Cardinality(DOMAIN details) = cart.qty

\* Units may be added at the same time from several screens, and sold, emptied and
\* changed in size: as long as no handler that read the quantity outside its
\* transaction takes part, there is one detail per unit at every commit.
AddsKeepUnits ==
  (\A r \in Request : req[r].op \notin {"sync", "removeDetail"}) => OneDetailPerUnit
=============================================================================
