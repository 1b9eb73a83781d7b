--------------------------- MODULE PaymentRequests ----------------------------
(***************************************************************************)
(* How a payment request is carried out: settleOrders ("settle", for one   *)
(* Counter order or a whole table), checkoutCounterDraft ("checkout") and  *)
(* submitOrder ("submit"), step by step, with their replay reads, advisory *)
(* locks, Serializable transactions, error handlers and retries.           *)
(*                                                                         *)
(* A transaction reads the snapshot of its first statement, which these    *)
(* handlers take before they wait for a lock.  It commits only if what it  *)
(* read is still current; otherwise PostgreSQL aborts it (P2034), which it *)
(* may also do for reasons of its own, or its insert meets a unique index  *)
(* (P2002).  An answer may be lost, or the process may die, at any step;   *)
(* a caller that retries is a further request with the same key and body.  *)
(***************************************************************************)
EXTENDS Naturals, FiniteSets

CONSTANTS
  Request,      \* requests, retries included
  Key,          \* (user, idempotency key) pairs
  Order,        \* Order ids
  Existing,     \* orders in the database at the start, READY
  TableOrder,   \* those of them that belong to the one table session
  Kind,         \* the handlers called: a subset of the three above
  Intent,       \* normalized order intents a client may submit
  MaxRetry,     \* retries after a conflict: 2 in every handler
  None

(* Requests.  The body of a settlement is the set of orders it lists with   *)
(* the version of each; the body of the others is their intent.            *)

\* A listed version is one the order has had: 1 and, once served or paid, 2.
Claims == UNION {[S -> 1..2] : S \in SUBSET Existing}
NoClaim == [o \in {} |-> 0]
Bodies == [kind : Kind, claim : Claims, intent : Intent \cup {None}]
Body(kind, claim, intent) == [kind |-> kind, claim |-> claim, intent |-> intent]

ASSUME PaymentAssumption ==
  /\ Order \subseteq Nat
  /\ TableOrder \subseteq Existing /\ Existing \subseteq Order
  /\ Kind \subseteq {"settle", "checkout", "submit"}
  /\ MaxRetry \in Nat
  /\ None \notin Key \cup Request \cup Intent
  /\ None \notin [body : Bodies, orders : SUBSET Order] \cup [key : Key, body : Bodies]

ASSUME NoneIsNoRefusal ==
  None \notin {"STALE_VERSION", "ORDER_NOT_PAYABLE", "CONFLICT",
              "PARTIAL_SETTLEMENT_FORBIDDEN", "KEY_REUSED"}

VARIABLES
  orders,    \* Order -> its row
  bills,     \* Key -> the BillSale of that key, or None
  lock,      \* Order -> the request that holds its advisory lock, or None
  req        \* Request -> the state of its handler

vars == <<orders, bills, lock, req>>

-----------------------------------------------------------------------------
(* Rows and handler states.                                                *)

OrderRow == [status : {"NONE", "READY", "SERVED", "COMPLETED"}, version : Nat,
             bill : Key \cup {None}, key : Key \cup {None},
             intent : Intent \cup {None}]
BillSale == [body : Bodies, orders : SUBSET Order]
Snapshot == [orders : [Order -> OrderRow], bills : [Key -> BillSale \cup {None}]]

HandlerState ==
  [pc : {"idle", "replay", "begin", "body", "committed", "P2034", "P2002", "done"},
   key : Key \cup {None}, body : Bodies \cup {None}, attempt : 0..MaxRetry,
   snap : Snapshot \cup {None},
   answer : {None, "paid", "created", "KEY_REUSED", "STALE_VERSION",
             "ORDER_NOT_PAYABLE", "PARTIAL_SETTLEMENT_FORBIDDEN", "QUOTE_CHANGED",
             "CONFLICT", "error", "lost"}]

Idle == [pc |-> "idle", key |-> None, body |-> None, attempt |-> 0,
         snap |-> None, answer |-> None]

Asked(k, body) == [pc |-> "replay", key |-> k, body |-> body, attempt |-> 0,
                   snap |-> None, answer |-> None]

KindOf(r) == req[r].body.kind
Claimed(r) == DOMAIN req[r].body.claim
Seen(r) == req[r].snap
Held(r) == {o \in Order : lock[o] = r}

NoOrder == [status |-> "NONE", version |-> 0, bill |-> None, key |-> None, intent |-> None]
Present(O) == {o \in Order : O[o].status # "NONE"}
IsFresh(o) == o \notin Present(orders) /\ \A p \in Order \ Present(orders) : o <= p

Db == [orders |-> orders, bills |-> bills]

\* A handler moves on, or ends with an answer; both end its transaction.
Leave(r) == lock' = [o \in Order |-> IF lock[o] = r THEN None ELSE lock[o]]
Goto(r, pc) == req' = [req EXCEPT ![r].pc = pc]
Catch(r, code) == /\ req' = [req EXCEPT ![r].pc = code, ![r].snap = None]
                  /\ Leave(r)
                  /\ UNCHANGED <<orders, bills>>
Answer(r, a) == /\ req' = [req EXCEPT ![r].pc = "done", ![r].snap = None,
                                      ![r].answer = a]
                /\ Leave(r)
                /\ UNCHANGED <<orders, bills>>

-----------------------------------------------------------------------------
(* What an earlier request with the key left behind.                       *)

\* Variation: the fingerprint of the body is not compared.
AnySettlement(r, db) == IF db.bills[req[r].key] = None THEN "absent" ELSE "same"
existingSettlement(r, db) ==
  LET bill == db.bills[req[r].key] IN
  IF bill = None THEN "absent"
  ELSE IF bill.body = req[r].body THEN "same" ELSE "other"

getExistingOrder(r, db) ==
  LET found == {o \in Order : db.orders[o].key = req[r].key} IN
  IF found = {} THEN "absent"
  ELSE IF \A o \in found : db.orders[o].intent = req[r].body.intent
       THEN "same" ELSE "other"

Earlier(r, db) ==
  IF KindOf(r) = "submit" THEN getExistingOrder(r, db) ELSE existingSettlement(r, db)

Success(r) == IF KindOf(r) = "submit" THEN "created" ELSE "paid"

-----------------------------------------------------------------------------
(* Up to the transaction's writes.                                         *)

\* A client lists orders at versions it has seen.  The Counter route names one
\* standalone order, the table route orders of the session.
Send(r, k, kind, claim, intent) ==
  /\ req[r].pc = "idle"
  /\ IF kind = "settle"
     THEN /\ intent = None
          /\ DOMAIN claim # {}
          /\ \/ DOMAIN claim \subseteq TableOrder
             \/ Cardinality(DOMAIN claim) = 1
          /\ \A o \in DOMAIN claim : claim[o] <= orders[o].version
     ELSE claim = NoClaim /\ intent # None
  /\ req' = [req EXCEPT ![r] = Asked(k, Body(kind, claim, intent))]
  /\ UNCHANGED <<orders, bills, lock>>

Replay(r) ==
  /\ req[r].pc = "replay"
  /\ \/ Earlier(r, Db) = "same" /\ Answer(r, Success(r))
     \/ Earlier(r, Db) = "other" /\ Answer(r, "KEY_REUSED")
     \/ /\ Earlier(r, Db) = "absent"
        /\ Goto(r, "begin")
        /\ UNCHANGED <<orders, bills, lock>>

Begin(r) ==
  /\ req[r].pc = "begin"
  /\ req' = [req EXCEPT ![r].pc = "body", ![r].snap = Db]
  /\ UNCHANGED <<orders, bills, lock>>

\* Variation: locks are taken in the order in which the client lists the orders.
AnyUnlocked(r) == Claimed(r) \ Held(r)
NextLock(r) == {o \in Claimed(r) \ Held(r) : \A p \in Claimed(r) \ Held(r) : o <= p}

Lock(r) ==
  /\ req[r].pc = "body"
  /\ \E o \in NextLock(r) : lock[o] = None /\ lock' = [lock EXCEPT ![o] = r]
  /\ UNCHANGED <<orders, bills, req>>

Ready(r) == req[r].pc = "body" /\ Held(r) = Claimed(r)

AnyVersion(r) == TRUE                                           \* Variation
VersionsMatch(r) ==
  \A o \in Claimed(r) : Seen(r).orders[o].version = req[r].body.claim[o]

Payable(r) ==
  \A o \in Claimed(r) :
     /\ Seen(r).orders[o].bill = None
     /\ Seen(r).orders[o].status \in IF o \in TableOrder THEN {"SERVED"}
                                                         ELSE {"READY", "SERVED"}

WholeTable(r) ==
  Claimed(r) \cap TableOrder # {} =>
    Claimed(r) = {o \in TableOrder : Seen(r).orders[o].bill = None}

\* The checks of the transaction body, on its snapshot, in their order.
Refuse(r) ==
  /\ Ready(r)
  /\ \/ Earlier(r, Seen(r)) = "same" /\ Answer(r, Success(r))
     \/ Earlier(r, Seen(r)) = "other" /\ Answer(r, "KEY_REUSED")
     \/ /\ Earlier(r, Seen(r)) = "absent"
        /\ IF KindOf(r) = "settle"
           THEN \/ ~VersionsMatch(r) /\ Answer(r, "STALE_VERSION")
                \/ VersionsMatch(r) /\ ~Payable(r) /\ Answer(r, "ORDER_NOT_PAYABLE")
                \/ /\ VersionsMatch(r) /\ Payable(r) /\ ~WholeTable(r)
                   /\ Answer(r, "PARTIAL_SETTLEMENT_FORBIDDEN")
           ELSE Answer(r, "QUOTE_CHANGED")   \* the catalog moved since the quote

Accepted(r) ==
  /\ Ready(r)
  /\ Earlier(r, Seen(r)) = "absent"
  /\ KindOf(r) = "settle" => VersionsMatch(r) /\ Payable(r) /\ WholeTable(r)

-----------------------------------------------------------------------------
(* The writes: the unique indexes of BillSale and Order, and the guarded    *)
(* updates of the order rows that the transaction read.                    *)

BillKeyTaken(r) ==
  /\ KindOf(r) # "submit"
  /\ bills[req[r].key] # None

SessionBilled(r) ==
  \E k \in Key : /\ bills[k] # None
                 /\ bills[k].orders \cap TableOrder # {}
                 /\ Claimed(r) \cap TableOrder # {}

\* Variation: the handler's own replay read is all that guards the key.
OrderKeySeen(r) ==
  /\ KindOf(r) # "settle"
  /\ \E o \in Order : Seen(r).orders[o].key = req[r].key
OrderKeyTaken(r) ==
  /\ KindOf(r) # "settle"
  /\ \E o \in Order : orders[o].key = req[r].key

Duplicate(r) ==
  /\ Accepted(r)
  /\ BillKeyTaken(r) \/ SessionBilled(r) \/ OrderKeyTaken(r)
  /\ Catch(r, "P2002")

NeverOutdated(r) == FALSE                                       \* Variation
Outdated(r) == \E o \in Claimed(r) : orders[o] # Seen(r).orders[o]

Conflict(r) ==
  /\ Accepted(r)
  /\ Outdated(r)
  /\ Catch(r, "P2034")

\* A serialization failure, a deadlock or a write conflict on anything else.
Abort(r) ==
  /\ req[r].pc = "body"
  /\ Catch(r, "P2034")

recordPayment(row, k) ==
  IF row.status = "SERVED"
  THEN [row EXCEPT !.status = "COMPLETED", !.version = @ + 2, !.bill = k]
  ELSE [row EXCEPT !.version = @ + 1, !.bill = k]

Charge(k, body, S) == bills' = [bills EXCEPT ![k] = [body |-> body, orders |-> S]]

Commit(r) ==
  LET k == req[r].key
      body == req[r].body
      confirmed == [status |-> "READY", version |-> 2, bill |-> None, key |-> k,
                    intent |-> body.intent]
  IN
  /\ Accepted(r)
  /\ ~(BillKeyTaken(r) \/ SessionBilled(r) \/ OrderKeyTaken(r))
  /\ ~Outdated(r)
  /\ \/ /\ body.kind = "settle"
        /\ orders' = [o \in Order |-> IF o \in Claimed(r)
                                      THEN recordPayment(orders[o], k) ELSE orders[o]]
        /\ Charge(k, body, Claimed(r))
     \/ \E o \in Order :
          /\ IsFresh(o)
          /\ \/ /\ body.kind = "checkout"
                /\ orders' = [orders EXCEPT ![o] = recordPayment(confirmed, k)]
                /\ Charge(k, body, {o})
             \/ /\ body.kind = "submit"
                /\ orders' = [orders EXCEPT ![o] = confirmed]
                /\ UNCHANGED bills
  /\ req' = [req EXCEPT ![r].pc = "committed", ![r].snap = None]
  /\ Leave(r)

Respond(r) == req[r].pc = "committed" /\ Answer(r, Success(r))

-----------------------------------------------------------------------------
(* The error handlers.  Both read outside the failed transaction.          *)

OnceMore(r) == req[r].attempt <= MaxRetry                       \* Variation
MayRetry(r) == req[r].attempt < MaxRetry

\* A settlement starts over from its replay read, the others from a new
\* transaction; only the last conflict looks for a committed result.
OnConflict(r) ==
  /\ req[r].pc = "P2034"
  /\ \/ /\ KindOf(r) = "settle"
        /\ \/ Earlier(r, Db) = "same" /\ Answer(r, Success(r))
           \/ Earlier(r, Db) = "other" /\ Answer(r, "KEY_REUSED")
           \/ /\ Earlier(r, Db) = "absent" /\ MayRetry(r)
              /\ req' = [req EXCEPT ![r].pc = "replay", ![r].attempt = @ + 1]
              /\ UNCHANGED <<orders, bills, lock>>
           \/ /\ Earlier(r, Db) = "absent" /\ ~MayRetry(r)
              /\ Answer(r, "CONFLICT")
     \/ /\ KindOf(r) # "settle" /\ MayRetry(r)
        /\ req' = [req EXCEPT ![r].pc = "begin", ![r].attempt = @ + 1]
        /\ UNCHANGED <<orders, bills, lock>>
     \/ /\ KindOf(r) = "checkout" /\ ~MayRetry(r)
        /\ \/ Earlier(r, Db) = "same" /\ Answer(r, Success(r))
           \/ Earlier(r, Db) = "other" /\ Answer(r, "KEY_REUSED")
           \/ Earlier(r, Db) = "absent" /\ Answer(r, "CONFLICT")
     \/ /\ KindOf(r) = "submit" /\ ~MayRetry(r)
        /\ Answer(r, "error")

\* Variation: a unique index names the loser, who is told so without a look.
OnDuplicateAtOnce(r) == req[r].pc = "P2002" /\ Answer(r, "CONFLICT")
OnDuplicate(r) ==
  /\ req[r].pc = "P2002"
  /\ \/ Earlier(r, Db) = "same" /\ Answer(r, Success(r))
     \/ Earlier(r, Db) = "other" /\ Answer(r, "KEY_REUSED")
     \/ /\ Earlier(r, Db) = "absent"
        /\ Answer(r, IF KindOf(r) = "submit" THEN "KEY_REUSED" ELSE "CONFLICT")

\* The connection breaks, the transaction times out or the process dies.
Lose(r) ==
  /\ req[r].pc \notin {"idle", "done"}
  /\ Answer(r, "lost")

-----------------------------------------------------------------------------
(* Meanwhile staff serve orders; a prepaid Counter order completes.         *)

Serve(o) ==
  /\ orders[o].status = "READY"
  /\ orders' = [orders EXCEPT
                 ![o].status = IF orders[o].bill = None THEN "SERVED" ELSE "COMPLETED",
                 ![o].version = IF orders[o].bill = None THEN @ + 1 ELSE @ + 2]
  /\ UNCHANGED <<bills, lock, req>>

Init ==
  /\ orders = [o \in Order |-> IF o \in Existing
                               THEN [NoOrder EXCEPT !.status = "READY", !.version = 1]
                               ELSE NoOrder]
  /\ bills = [k \in Key |-> None]
  /\ lock = [o \in Order |-> None]
  /\ req = [r \in Request |-> Idle]

Handle(r) ==
  \/ Replay(r) \/ Begin(r) \/ Lock(r) \/ Refuse(r) \/ Duplicate(r)
  \/ Conflict(r) \/ Commit(r) \/ Respond(r) \/ OnConflict(r) \/ OnDuplicate(r)

Next ==
  \/ \E r \in Request, k \in Key, kind \in Kind, claim \in Claims, i \in Intent \cup {None} :
        Send(r, k, kind, claim, i)
  \/ \E r \in Request : Handle(r) \/ Abort(r) \/ Lose(r)
  \/ \E o \in Order : Serve(o)

\* Every handler that was started keeps running.
Fairness == \A r \in Request : WF_vars(Handle(r))

Spec == Init /\ [][Next]_vars /\ Fairness

-----------------------------------------------------------------------------
CarriedOut(r) == Earlier(r, Db) = "same"

\* Rows and handler states keep their types; a handler starts a transaction at
\* most MaxRetry times again.
TypeOK ==
  /\ orders \in [Order -> OrderRow]
  /\ bills \in [Key -> BillSale \cup {None}]
  /\ lock \in [Order -> Request \cup {None}]
  /\ req \in [Request -> HandlerState]

\* Whatever the number of attempts, lost answers and rival cashiers, a key and an
\* order are charged at most once and "paid" is said of charged bodies only.
Asking == [r \in Request |-> IF req[r].pc = "idle" THEN None
                             ELSE [key |-> req[r].key, body |-> req[r].body]]
Answering == [r \in Request |-> req[r].answer]
Promise == INSTANCE ChargeOnce WITH asked <- Asking, charged <- bills, answer <- Answering

ChargesOnce == Promise!Spec

\* No caller is turned away for what its key has already done: at the moment of
\* a refusal, by a check or by an error handler, nothing of that body is
\* committed.  (A changed quote is outside this promise: see the README.)
RefusalIsTrue ==
  [][\A r \in Request :
        /\ req[r].answer = None
        /\ req'[r].answer \in {"STALE_VERSION", "ORDER_NOT_PAYABLE", "CONFLICT",
                               "PARTIAL_SETTLEMENT_FORBIDDEN", "KEY_REUSED"}
        => ~CarriedOut(r)]_vars

\* A stale version, an unpayable order and a reused key are final: no other
\* attempt with that key and body, in flight or later, charges it after all, so
\* a cashier who was refused may safely start over with a new key.
RefusalIsFinal ==
  \A r \in Request :
     req[r].answer \in {"STALE_VERSION", "ORDER_NOT_PAYABLE", "KEY_REUSED"}
     => ~CarriedOut(r)

\* However often a submission is sent, and whichever of the two handlers that
\* create orders takes it, the kitchen gets one order for its key.
OneOrderPerKey ==
  \A k \in Key : Cardinality({o \in Order : orders[o].key = k}) <= 1

\* Every request ends: overlapping settlements never wait for each other's
\* advisory locks in a circle, and retries run out.
EveryRequestEnds ==
  \A r \in Request : req[r].pc # "idle" ~> req[r].pc = "done"
=============================================================================
