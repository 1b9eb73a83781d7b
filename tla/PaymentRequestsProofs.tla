------------------------ MODULE PaymentRequestsProofs -------------------------
(***************************************************************************)
(* Proofs about PaymentRequests, for any number of requests, keys and      *)
(* orders and any number of retries: the types, and that the handlers      *)
(* implement ChargeOnce.                                                   *)
(*                                                                         *)
(* The inductive invariant says what a handler may rely on while others    *)
(* run: a bill in its snapshot is still there unchanged (SnapshotIsPast),  *)
(* a committed handler's bill carries its body (CommittedIsCharged), and   *)
(* an order listed by a bill points back to it (BilledOnce), which is what *)
(* makes the row guard "billSaleId: null" enough to charge an order once.  *)
(***************************************************************************)
EXTENDS PaymentRequests, FiniteSetTheorems, TLAPS

Sent(r) == req[r].pc # "idle"

NotAnsweredYet(r) == req[r].pc # "done" => req[r].answer = None

\* What was asked: a key, a body, and for a settlement at least one order.
WellAsked(r) ==
  Sent(r) => /\ req[r].key \in Key
             /\ req[r].body \in Bodies
             /\ req[r].body.kind = "settle" => DOMAIN req[r].body.claim # {}

SnapshotIsPast(r) ==
  req[r].pc = "body" =>
    /\ req[r].snap \in Snapshot
    /\ \A k \in Key : req[r].snap.bills[k] # None => bills[k] = req[r].snap.bills[k]

CommittedIsCharged(r) ==
  req[r].pc = "committed" /\ req[r].body.kind # "submit" =>
    /\ bills[req[r].key] # None
    /\ bills[req[r].key].body = req[r].body

BilledOnce ==
  \A k \in Key : bills[k] # None =>
     \A o \in bills[k].orders : orders[o].bill = k /\ orders[o].status # "NONE"

HandlerOK(r) == /\ NotAnsweredYet(r) /\ WellAsked(r)
                /\ SnapshotIsPast(r) /\ CommittedIsCharged(r)

IInv == TypeOK /\ BilledOnce /\ \A r \in Request : HandlerOK(r)

-----------------------------------------------------------------------------
(* The initial state.                                                      *)

LEMMA InitInv == Init => IInv
<1> SUFFICES ASSUME Init PROVE IInv
  OBVIOUS
<1> USE DEF Init, Idle
<1>1. orders \in [Order -> OrderRow]
  BY PaymentAssumption DEF NoOrder, OrderRow
<1>2. bills \in [Key -> BillSale \cup {None}]
  OBVIOUS
<1>3. req \in [Request -> HandlerState]
  BY PaymentAssumption DEF HandlerState
<1>4. lock \in [Order -> Request \cup {None}]
  OBVIOUS
<1>5. BilledOnce
  BY DEF BilledOnce
<1>6. \A r \in Request : HandlerOK(r)
  BY DEF HandlerOK, NotAnsweredYet, WellAsked, Sent, SnapshotIsPast, CommittedIsCharged
<1> QED
  BY <1>1, <1>2, <1>3, <1>4, <1>5, <1>6 DEF IInv, TypeOK

-----------------------------------------------------------------------------
(* Steps that leave the tables alone.                                      *)

\* Such a step only has to answer for the handler that takes it.
LEMMA HandlerStep ==
  ASSUME IInv, NEW r \in Request, NEW h \in HandlerState,
         req' = [req EXCEPT ![r] = h], orders' = orders, bills' = bills,
         lock' \in [Order -> Request \cup {None}],
         HandlerOK(r)'
  PROVE  IInv'
<1> USE DEF IInv, TypeOK
<1>1. TypeOK'
  OBVIOUS
<1>2. BilledOnce'
  BY DEF BilledOnce
<1>3. ASSUME NEW q \in Request, q # r PROVE HandlerOK(q)'
  <2>1. req'[q] = req[q]
    BY <1>3
  <2> QED
    BY <2>1 DEF HandlerOK, NotAnsweredYet, WellAsked, Sent, SnapshotIsPast,
                CommittedIsCharged
<1> QED
  BY <1>1, <1>2, <1>3

LEMMA LeaveType ==
  ASSUME TypeOK, NEW r \in Request, Leave(r)
  PROVE  lock' \in [Order -> Request \cup {None}]
BY DEF TypeOK, Leave

Refusals == {"KEY_REUSED", "STALE_VERSION", "ORDER_NOT_PAYABLE",
             "PARTIAL_SETTLEMENT_FORBIDDEN", "QUOTE_CHANGED", "CONFLICT", "error", "lost"}

LEMMA AnswerInv ==
  ASSUME IInv, NEW r \in Request, Sent(r),
         NEW a \in Refusals \cup {"paid", "created"}, Answer(r, a)
  PROVE  IInv'
<1> DEFINE h == [req[r] EXCEPT !.pc = "done", !.snap = None, !.answer = a]
<1>1. req[r] \in HandlerState
  BY DEF IInv, TypeOK
<1>2. h \in HandlerState
  BY <1>1 DEF HandlerState, Refusals
<1>3. req' = [req EXCEPT ![r] = h]
  BY DEF Answer, IInv, TypeOK
<1>4. req'[r] = h
  BY <1>3 DEF IInv, TypeOK
<1>5. h.pc = "done" /\ h.key = req[r].key /\ h.body = req[r].body
  BY <1>1 DEF HandlerState
<1>6. HandlerOK(r)'
  BY <1>4, <1>5 DEF IInv, HandlerOK, NotAnsweredYet, WellAsked, Sent, SnapshotIsPast,
                    CommittedIsCharged
<1> HIDE DEF h
<1> QED
  BY <1>2, <1>3, <1>6, HandlerStep, LeaveType DEF Answer, IInv

\* A handler that is not done moves to a place that says nothing of the tables.
LEMMA MoveInv ==
  ASSUME IInv, NEW r \in Request, Sent(r), req[r].pc # "done",
         NEW pc \in {"replay", "begin", "P2034", "P2002"},
         NEW n \in 0..MaxRetry,
         NEW snap \in {None, req[r].snap},
         req' = [req EXCEPT ![r] = [req[r] EXCEPT !.pc = pc, !.attempt = n, !.snap = snap]],
         orders' = orders, bills' = bills,
         lock' \in [Order -> Request \cup {None}]
  PROVE  IInv'
<1> DEFINE h == [req[r] EXCEPT !.pc = pc, !.attempt = n, !.snap = snap]
<1>1. req[r] \in HandlerState
  BY DEF IInv, TypeOK
<1>2. h \in HandlerState
  BY <1>1 DEF HandlerState
<1>4. req'[r] = h
  BY DEF IInv, TypeOK
<1>5. h.pc = pc /\ h.key = req[r].key /\ h.body = req[r].body /\ h.answer = req[r].answer
  BY <1>1 DEF HandlerState
<1>6. HandlerOK(r)'
  BY <1>4, <1>5 DEF IInv, HandlerOK, NotAnsweredYet, WellAsked, Sent, SnapshotIsPast,
                    CommittedIsCharged
<1>7. req' = [req EXCEPT ![r] = h]
  OBVIOUS
<1> HIDE DEF h
<1> QED
  BY <1>2, <1>6, <1>7, HandlerStep

LEMMA CatchInv ==
  ASSUME IInv, NEW r \in Request, req[r].pc = "body",
         NEW code \in {"P2034", "P2002"}, Catch(r, code)
  PROVE  IInv'
<1>1. req[r] \in HandlerState /\ req[r].attempt \in 0..MaxRetry
  BY DEF IInv, TypeOK, HandlerState
<1>2. req' = [req EXCEPT ![r] = [req[r] EXCEPT !.pc = code, !.attempt = req[r].attempt,
                                               !.snap = None]]
  BY <1>1 DEF Catch, IInv, TypeOK, HandlerState
<1>3. lock' \in [Order -> Request \cup {None}]
  BY LeaveType DEF Catch, IInv
<1>4. Sent(r) /\ req[r].pc # "done" /\ None \in {None, req[r].snap}
  BY DEF Sent
<1>5. orders' = orders /\ bills' = bills
  BY DEF Catch
<1>6. code \in {"replay", "begin", "P2034", "P2002"}
  OBVIOUS
<1> QED
  BY <1>1, <1>2, <1>3, <1>4, <1>5, <1>6, MoveInv

-----------------------------------------------------------------------------
(* One lemma per action.                                                   *)

LEMMA SendInv ==
  ASSUME IInv, NEW r \in Request, NEW k \in Key, NEW kind \in Kind,
         NEW claim \in Claims, NEW i \in Intent \cup {None},
         Send(r, k, kind, claim, i)
  PROVE  IInv'
<1> DEFINE h == Asked(k, Body(kind, claim, i))
<1>1. Body(kind, claim, i) \in Bodies /\ Body(kind, claim, i).kind = kind
                                     /\ Body(kind, claim, i).claim = claim
  BY DEF Body, Bodies
<1>2. h \in HandlerState
  <2>1. 0 \in 0..MaxRetry
    BY PaymentAssumption
  <2> QED
    BY <1>1, <2>1 DEF HandlerState, Asked
<1>3. req' = [req EXCEPT ![r] = h]
  BY DEF Send
<1>4. req'[r] = h
  BY <1>3 DEF IInv, TypeOK
<1>5. h.pc = "replay" /\ h.key = k /\ h.body = Body(kind, claim, i) /\ h.answer = None
  BY DEF Asked
<1>6. kind = "settle" => DOMAIN claim # {}
  BY DEF Send
<1>7. HandlerOK(r)'
  BY <1>1, <1>4, <1>5, <1>6 DEF HandlerOK, NotAnsweredYet, WellAsked, Sent, SnapshotIsPast,
                                CommittedIsCharged
<1> HIDE DEF h
<1> QED
  BY <1>2, <1>3, <1>7, HandlerStep DEF Send, IInv, TypeOK

LEMMA ReplayInv ==
  ASSUME IInv, NEW r \in Request, Replay(r)
  PROVE  IInv'
<1>1. Sent(r) /\ req[r].pc # "done" /\ req[r] \in HandlerState
  BY DEF Replay, Sent, IInv, TypeOK
<1>2. CASE Answer(r, Success(r))
  BY <1>1, <1>2, AnswerInv DEF Success
<1>3. CASE Answer(r, "KEY_REUSED")
  BY <1>1, <1>3, AnswerInv DEF Refusals
<1>4. CASE Goto(r, "begin") /\ UNCHANGED <<orders, bills, lock>>
  <2>1. req' = [req EXCEPT ![r] = [req[r] EXCEPT !.pc = "begin",
                                                 !.attempt = req[r].attempt,
                                                 !.snap = req[r].snap]]
    BY <1>1, <1>4 DEF Goto, IInv, TypeOK, HandlerState
  <2>2. req[r].attempt \in 0..MaxRetry /\ req[r].snap \in {None, req[r].snap}
    BY <1>1 DEF HandlerState
  <2>3. lock' \in [Order -> Request \cup {None}] /\ orders' = orders /\ bills' = bills
    BY <1>4 DEF IInv, TypeOK
  <2>4. "begin" \in {"replay", "begin", "P2034", "P2002"}
    OBVIOUS
  <2> QED
    BY <1>1, <2>1, <2>2, <2>3, <2>4, MoveInv
<1> QED
  BY <1>2, <1>3, <1>4 DEF Replay

LEMMA BeginInv ==
  ASSUME IInv, NEW r \in Request, Begin(r)
  PROVE  IInv'
<1> DEFINE h == [req[r] EXCEPT !.pc = "body", !.snap = Db]
<1>1. req[r] \in HandlerState /\ req[r].pc = "begin" /\ HandlerOK(r)
  BY DEF Begin, IInv, TypeOK
<1>2. Db \in Snapshot /\ Db.bills = bills
  BY DEF Db, Snapshot, IInv, TypeOK
<1>3. h \in HandlerState
  BY <1>1, <1>2 DEF HandlerState
<1>4. req' = [req EXCEPT ![r] = h]
  BY DEF Begin, IInv, TypeOK
<1>5. req'[r] = h
  BY <1>4 DEF IInv, TypeOK
<1>6. /\ h.pc = "body" /\ h.key = req[r].key /\ h.body = req[r].body
      /\ h.snap = Db /\ h.answer = req[r].answer
  BY <1>1 DEF HandlerState
<1>7. bills' = bills /\ orders' = orders /\ lock' \in [Order -> Request \cup {None}]
  BY DEF Begin, IInv, TypeOK
<1>8. NotAnsweredYet(r)' /\ WellAsked(r)' /\ CommittedIsCharged(r)'
  BY <1>1, <1>5, <1>6 DEF HandlerOK, NotAnsweredYet, WellAsked, Sent, CommittedIsCharged
<1>9. SnapshotIsPast(r)'
  BY <1>2, <1>5, <1>6, <1>7 DEF SnapshotIsPast
<1>10. HandlerOK(r)'
  BY <1>8, <1>9 DEF HandlerOK
<1> HIDE DEF h
<1> QED
  BY <1>3, <1>4, <1>7, <1>10, HandlerStep

LEMMA LockInv ==
  ASSUME IInv, NEW r \in Request, Lock(r)
  PROVE  IInv'
<1>1. lock' \in [Order -> Request \cup {None}]
  BY DEF Lock, NextLock, IInv, TypeOK
<1>2. req' = req /\ orders' = orders /\ bills' = bills
  BY DEF Lock
<1> QED
  BY <1>1, <1>2 DEF IInv, TypeOK, BilledOnce, HandlerOK, NotAnsweredYet, WellAsked, Sent,
                    SnapshotIsPast, CommittedIsCharged

LEMMA RefuseInv ==
  ASSUME IInv, NEW r \in Request, Refuse(r)
  PROVE  IInv'
<1>1. Sent(r)
  BY DEF Refuse, Ready, Sent
<1>2. PICK a \in Refusals \cup {"paid", "created"} : Answer(r, a)
  BY DEF Refuse, Success, Refusals
<1> QED
  BY <1>1, <1>2, AnswerInv

LEMMA CaughtInv ==
  ASSUME IInv, NEW r \in Request, Duplicate(r) \/ Conflict(r) \/ Abort(r)
  PROVE  IInv'
<1>1. req[r].pc = "body" /\ (Catch(r, "P2034") \/ Catch(r, "P2002"))
  BY DEF Duplicate, Conflict, Abort, Accepted, Ready
<1> QED
  BY <1>1, CatchInv

LEMMA RespondInv ==
  ASSUME IInv, NEW r \in Request, Respond(r) \/ OnDuplicate(r) \/ Lose(r)
  PROVE  IInv'
<1>1. Sent(r)
  BY DEF Respond, OnDuplicate, Lose, Sent
<1>2. PICK a \in Refusals \cup {"paid", "created"} : Answer(r, a)
  BY DEF Respond, OnDuplicate, Lose, Success, Refusals
<1> QED
  BY <1>1, <1>2, AnswerInv

LEMMA OnConflictInv ==
  ASSUME IInv, NEW r \in Request, OnConflict(r)
  PROVE  IInv'
<1>1. Sent(r) /\ req[r].pc # "done" /\ req[r] \in HandlerState
  BY DEF OnConflict, Sent, IInv, TypeOK
<1>2. CASE \E a \in Refusals \cup {"paid", "created"} : Answer(r, a)
  BY <1>1, <1>2, AnswerInv
<1>3. ASSUME NEW pc \in {"replay", "begin"}, MayRetry(r),
             req' = [req EXCEPT ![r].pc = pc, ![r].attempt = @ + 1],
             UNCHANGED <<orders, bills, lock>>
      PROVE  IInv'
  <2>1. req' = [req EXCEPT ![r] = [req[r] EXCEPT !.pc = pc,
                                                 !.attempt = req[r].attempt + 1,
                                                 !.snap = req[r].snap]]
    BY <1>1, <1>3 DEF IInv, TypeOK, HandlerState
  <2>2. req[r].attempt + 1 \in 0..MaxRetry /\ req[r].snap \in {None, req[r].snap}
    BY <1>1, <1>3, PaymentAssumption DEF HandlerState, MayRetry
  <2>3. lock' \in [Order -> Request \cup {None}] /\ orders' = orders /\ bills' = bills
    BY <1>3 DEF IInv, TypeOK
  <2>4. pc \in {"replay", "begin", "P2034", "P2002"}
    OBVIOUS
  <2> QED
    BY <1>1, <2>1, <2>2, <2>3, <2>4, MoveInv
<1> QED
  BY <1>2, <1>3 DEF OnConflict, Success, Refusals

-----------------------------------------------------------------------------
(* Steps that write the tables.                                            *)

\* A ledger that keeps its bills keeps every handler's beliefs about them.
LEMMA LedgerGrows ==
  ASSUME IInv, bills' \in [Key -> BillSale \cup {None}],
         \A k \in Key : bills[k] # None => bills'[k] = bills[k],
         NEW q \in Request, req'[q] = req[q]
  PROVE  HandlerOK(q)'
<1>1. HandlerOK(q)
  BY DEF IInv
<1>2. NotAnsweredYet(q)' /\ WellAsked(q)'
  BY <1>1 DEF HandlerOK, NotAnsweredYet, WellAsked, Sent
<1>3. SnapshotIsPast(q)'
  BY <1>1 DEF HandlerOK, SnapshotIsPast
<1>4. CommittedIsCharged(q)'
  BY <1>1 DEF HandlerOK, CommittedIsCharged, WellAsked, Sent
<1> QED
  BY <1>2, <1>3, <1>4 DEF HandlerOK

LEMMA PaymentRow ==
  ASSUME NEW row \in OrderRow, NEW k \in Key, row.status # "NONE"
  PROVE  /\ recordPayment(row, k) \in OrderRow
         /\ recordPayment(row, k).bill = k
         /\ recordPayment(row, k).status # "NONE"
<1>1. CASE row.status = "SERVED"
  <2>1. [row EXCEPT !.status = "COMPLETED"] \in OrderRow
    BY DEF OrderRow
  <2>2. row.version + 2 \in Nat /\ k \in Key \cup {None}
    BY DEF OrderRow
  <2> QED
    BY <1>1, <2>1, <2>2 DEF recordPayment, OrderRow
<1>2. CASE row.status # "SERVED"
  <2>1. row.version + 1 \in Nat /\ k \in Key \cup {None}
    BY DEF OrderRow
  <2> QED
    BY <1>2, <2>1 DEF recordPayment, OrderRow
<1> QED
  BY <1>1, <1>2

\* What a settlement may write: its orders are unbilled rows of the table.
LEMMA ClaimUnbilled ==
  ASSUME IInv, NEW r \in Request, Accepted(r), ~Outdated(r), KindOf(r) = "settle"
  PROVE  /\ Claimed(r) # {} /\ Claimed(r) \subseteq Order
         /\ \A o \in Claimed(r) : orders[o].bill = None /\ orders[o].status # "NONE"
<1>1. HandlerOK(r) /\ Sent(r)
  BY DEF IInv, Accepted, Ready, Sent
<1>2. Claimed(r) # {}
  BY <1>1 DEF HandlerOK, WellAsked, KindOf, Claimed
<1>3. req[r].body.claim \in Claims
  BY <1>1 DEF HandlerOK, WellAsked, Bodies
<1>4. Claimed(r) \subseteq Order
  BY <1>3, PaymentAssumption DEF Claims, Claimed
<1>5. \A o \in Claimed(r) : orders[o] = Seen(r).orders[o]
  BY DEF Outdated
<1>6. Payable(r)
  BY DEF Accepted
<1> QED
  BY <1>2, <1>4, <1>5, <1>6 DEF Payable

\* The three forms of a commit: what it does to the two tables.
LEMMA CommitEffect ==
  ASSUME IInv, NEW r \in Request, Commit(r)
  PROVE  /\ orders' \in [Order -> OrderRow]
         /\ bills' \in [Key -> BillSale \cup {None}]
         /\ BilledOnce'
         /\ \/ KindOf(r) = "submit" /\ bills' = bills
            \/ /\ KindOf(r) # "submit"
               /\ bills[req[r].key] = None
               /\ \E S \in SUBSET Order :
                     /\ S # {}
                     /\ \A o \in S, k \in Key : bills[k] # None => o \notin bills[k].orders
                     /\ bills' = [bills EXCEPT ![req[r].key] =
                                    [body |-> req[r].body, orders |-> S]]
<1> DEFINE k == req[r].key
           body == req[r].body
           confirmed == [status |-> "READY", version |-> 2, bill |-> None, key |-> k,
                         intent |-> body.intent]
<1>1. HandlerOK(r) /\ Sent(r) /\ Accepted(r) /\ ~Outdated(r)
  BY DEF IInv, Commit, Accepted, Ready, Sent
<1>2. k \in Key /\ body \in Bodies /\ k # None
  BY <1>1, PaymentAssumption DEF HandlerOK, WellAsked
<1>3. orders \in [Order -> OrderRow] /\ bills \in [Key -> BillSale \cup {None}] /\ BilledOnce
  BY DEF IInv, TypeOK
<1>4. confirmed \in OrderRow /\ confirmed.status # "NONE"
  BY <1>2 DEF OrderRow, Bodies
<1>5. KindOf(r) # "submit" => bills[k] = None
  BY DEF Commit, BillKeyTaken
<1>6. ASSUME NEW S \in SUBSET Order, Charge(k, body, S)
      PROVE  bills' \in [Key -> BillSale \cup {None}] /\ bills'[k] = [body |-> body, orders |-> S]
             /\ \A j \in Key : j # k => bills'[j] = bills[j]
  BY <1>2, <1>3, <1>6 DEF Charge, BillSale
<1>7. CASE KindOf(r) = "settle" /\ Charge(k, body, Claimed(r))
           /\ orders' = [o \in Order |-> IF o \in Claimed(r)
                                         THEN recordPayment(orders[o], k) ELSE orders[o]]
  <2>1. /\ Claimed(r) # {} /\ Claimed(r) \subseteq Order
        /\ \A o \in Claimed(r) : orders[o].bill = None /\ orders[o].status # "NONE"
    BY <1>1, <1>7, ClaimUnbilled
  <2>2. \A o \in Claimed(r) : /\ orders'[o] \in OrderRow
                              /\ orders'[o].bill = k /\ orders'[o].status # "NONE"
    BY <1>2, <1>3, <1>7, <2>1, PaymentRow
  <2>3. \A o \in Order \ Claimed(r) : orders'[o] = orders[o]
    BY <1>7
  <2>4. orders' \in [Order -> OrderRow]
    BY <1>3, <1>7, <2>2, <2>3
  <2>5. bills' \in [Key -> BillSale \cup {None}] /\ bills'[k] = [body |-> body, orders |-> Claimed(r)]
        /\ \A j \in Key : j # k => bills'[j] = bills[j]
    BY <1>6, <1>7, <2>1
  <2>6. \A o \in Claimed(r), j \in Key : bills[j] # None => o \notin bills[j].orders
    BY <1>3, <2>1, PaymentAssumption DEF BilledOnce
  <2>7. BilledOnce'
    <3> SUFFICES ASSUME NEW j \in Key, bills'[j] # None, NEW o \in bills'[j].orders
                 PROVE  orders'[o].bill = j /\ orders'[o].status # "NONE"
      BY DEF BilledOnce
    <3>1. CASE j = k
      BY <2>2, <2>5, <3>1
    <3>2. CASE j # k
      <4>1. bills[j] # None /\ o \in bills[j].orders /\ o \in Order
        BY <1>3, <2>5, <3>2 DEF BillSale
      <4>2. o \notin Claimed(r)
        BY <2>6, <4>1
      <4> QED
        BY <1>3, <2>3, <4>1, <4>2 DEF BilledOnce
    <3> QED
      BY <3>1, <3>2
  <2>8. KindOf(r) # "submit"
    BY <1>7
  <2>9. bills' = [bills EXCEPT ![k] = [body |-> body, orders |-> Claimed(r)]]
    BY <1>7 DEF Charge
  <2> QED
    BY <1>5, <2>1, <2>4, <2>5, <2>6, <2>7, <2>8, <2>9
<1>8. ASSUME NEW o \in Order, IsFresh(o)
      PROVE  \A j \in Key : bills[j] # None => o \notin bills[j].orders
  BY <1>3, <1>8 DEF IsFresh, Present, BilledOnce
<1>9. ASSUME NEW o \in Order, IsFresh(o), KindOf(r) = "checkout", Charge(k, body, {o}),
             orders' = [orders EXCEPT ![o] = recordPayment(confirmed, k)]
      PROVE  /\ orders' \in [Order -> OrderRow]
             /\ bills' \in [Key -> BillSale \cup {None}]
             /\ BilledOnce'
             /\ bills' = [bills EXCEPT ![k] = [body |-> body, orders |-> {o}]]
  <2>1. /\ recordPayment(confirmed, k) \in OrderRow
        /\ recordPayment(confirmed, k).bill = k
        /\ recordPayment(confirmed, k).status # "NONE"
    <3> HIDE DEF confirmed
    <3> QED
      BY <1>2, <1>4, PaymentRow
  <2>2. /\ orders' \in [Order -> OrderRow]
        /\ orders'[o].bill = k /\ orders'[o].status # "NONE"
        /\ \A p \in Order : p # o => orders'[p] = orders[p]
    <3> HIDE DEF confirmed
    <3> QED
      BY <1>3, <1>9, <2>1
  <2>3. bills' \in [Key -> BillSale \cup {None}] /\ bills'[k] = [body |-> body, orders |-> {o}]
        /\ \A j \in Key : j # k => bills'[j] = bills[j]
    BY <1>6, <1>9
  <2>4. BilledOnce'
    <3> SUFFICES ASSUME NEW j \in Key, bills'[j] # None, NEW p \in bills'[j].orders
                 PROVE  orders'[p].bill = j /\ orders'[p].status # "NONE"
      BY DEF BilledOnce
    <3>1. CASE j = k
      BY <2>2, <2>3, <3>1
    <3>2. CASE j # k
      <4>1. bills[j] # None /\ p \in bills[j].orders /\ p \in Order
        BY <1>3, <2>3, <3>2 DEF BillSale
      <4>2. p # o
        BY <1>8, <1>9, <4>1
      <4> QED
        BY <1>3, <2>2, <4>1, <4>2 DEF BilledOnce
    <3> QED
      BY <3>1, <3>2
  <2> QED
    BY <1>9, <2>2, <2>3, <2>4 DEF Charge
<1>10. ASSUME NEW o \in Order, IsFresh(o), KindOf(r) = "submit", bills' = bills,
              orders' = [orders EXCEPT ![o] = confirmed]
       PROVE  orders' \in [Order -> OrderRow] /\ BilledOnce'
  <2>1. orders' \in [Order -> OrderRow] /\ \A p \in Order : p # o => orders'[p] = orders[p]
    BY <1>3, <1>4, <1>10
  <2>2. BilledOnce'
    <3> SUFFICES ASSUME NEW j \in Key, bills[j] # None, NEW p \in bills[j].orders
                 PROVE  orders'[p].bill = j /\ orders'[p].status # "NONE"
      BY <1>10 DEF BilledOnce
    <3>1. p \in Order /\ p # o
      BY <1>3, <1>8, <1>10 DEF BillSale
    <3> QED
      BY <1>3, <2>1, <3>1 DEF BilledOnce
  <2> QED
    BY <2>1, <2>2
<1>11. CASE \E o \in Order : /\ IsFresh(o) /\ KindOf(r) = "checkout" /\ Charge(k, body, {o})
                             /\ orders' = [orders EXCEPT ![o] = recordPayment(confirmed, k)]
  <2>1. PICK o \in Order :
             /\ IsFresh(o) /\ KindOf(r) = "checkout" /\ Charge(k, body, {o})
             /\ orders' = [orders EXCEPT ![o] = recordPayment(confirmed, k)]
    BY <1>11
  <2> HIDE DEF confirmed
  <2>2. /\ orders' \in [Order -> OrderRow]
        /\ bills' \in [Key -> BillSale \cup {None}]
        /\ BilledOnce'
        /\ bills' = [bills EXCEPT ![k] = [body |-> body, orders |-> {o}]]
    BY <1>9, <2>1
  <2>3. {o} # {} /\ {o} \in SUBSET Order
        /\ \A p \in {o}, j \in Key : bills[j] # None => p \notin bills[j].orders
    BY <1>8, <2>1
  <2> QED
    BY <1>5, <2>1, <2>2, <2>3
<1>12. CASE \E o \in Order : /\ IsFresh(o) /\ KindOf(r) = "submit" /\ bills' = bills
                             /\ orders' = [orders EXCEPT ![o] = confirmed]
  <2> HIDE DEF confirmed
  <2> QED
    BY <1>3, <1>10, <1>12
<1> QED
  BY <1>7, <1>11, <1>12 DEF Commit, KindOf

LEMMA CommitInv ==
  ASSUME IInv, NEW r \in Request, Commit(r)
  PROVE  IInv'
<1> DEFINE h == [req[r] EXCEPT !.pc = "committed", !.snap = None]
<1>1. /\ orders' \in [Order -> OrderRow]
      /\ bills' \in [Key -> BillSale \cup {None}]
      /\ BilledOnce'
      /\ \/ KindOf(r) = "submit" /\ bills' = bills
         \/ /\ KindOf(r) # "submit"
            /\ bills[req[r].key] = None
            /\ \E S \in SUBSET Order :
                  /\ S # {}
                  /\ \A o \in S, k \in Key : bills[k] # None => o \notin bills[k].orders
                  /\ bills' = [bills EXCEPT ![req[r].key] =
                                 [body |-> req[r].body, orders |-> S]]
  BY CommitEffect
<1>2. req[r] \in HandlerState /\ HandlerOK(r) /\ req[r].pc = "body"
  BY DEF IInv, TypeOK, Commit, Accepted, Ready
<1>3. h \in HandlerState
  BY <1>2 DEF HandlerState
<1>4. req' = [req EXCEPT ![r] = h]
  BY DEF Commit, IInv, TypeOK
<1>5. req'[r] = h /\ \A q \in Request : q # r => req'[q] = req[q]
  BY <1>4 DEF IInv, TypeOK
<1>6. h.pc = "committed" /\ h.key = req[r].key /\ h.body = req[r].body /\ h.answer = req[r].answer
  BY <1>2 DEF HandlerState
<1> HIDE DEF h
<1>7. req[r].key \in Key /\ Sent(r)
  BY <1>2 DEF HandlerOK, WellAsked, Sent
<1>8. \A k \in Key : bills[k] # None => bills'[k] = bills[k]
  BY <1>1, <1>7 DEF IInv, TypeOK
<1>9. CommittedIsCharged(r)'
  <2>1. CASE KindOf(r) = "submit"
    BY <1>5, <1>6, <2>1 DEF CommittedIsCharged, KindOf
  <2>2. CASE KindOf(r) # "submit"
    <3>1. PICK S \in SUBSET Order :
               bills' = [bills EXCEPT ![req[r].key] = [body |-> req[r].body, orders |-> S]]
      BY <1>1, <2>2
    <3>2. bills'[req[r].key] = [body |-> req[r].body, orders |-> S]
      BY <1>7, <3>1 DEF IInv, TypeOK
    <3>3. req[r].body \in Bodies
      BY <1>2, <1>7 DEF HandlerOK, WellAsked
    <3>4. [body |-> req[r].body, orders |-> S] # None
      BY <3>3, PaymentAssumption
    <3> QED
      BY <1>5, <1>6, <3>2, <3>4 DEF CommittedIsCharged
  <2> QED
    BY <2>1, <2>2
<1>10. HandlerOK(r)'
  BY <1>2, <1>5, <1>6, <1>9 DEF HandlerOK, NotAnsweredYet, WellAsked, Sent, SnapshotIsPast
<1>11. \A q \in Request : HandlerOK(q)'
  BY <1>1, <1>5, <1>8, <1>10, LedgerGrows
<1>12. lock' \in [Order -> Request \cup {None}]
  BY LeaveType DEF Commit, IInv
<1>13. req' \in [Request -> HandlerState]
  BY <1>3, <1>4 DEF IInv, TypeOK
<1> QED
  BY <1>1, <1>11, <1>12, <1>13 DEF IInv, TypeOK

LEMMA ServeInv ==
  ASSUME IInv, NEW o \in Order, Serve(o)
  PROVE  IInv'
<1> USE DEF IInv, TypeOK
<1>1. orders[o] \in OrderRow
  OBVIOUS
<1>2. PICK st \in {"SERVED", "COMPLETED"}, v \in Nat :
           orders' = [orders EXCEPT ![o] = [orders[o] EXCEPT !.status = st, !.version = v]]
  <2>1. orders[o].version + 1 \in Nat /\ orders[o].version + 2 \in Nat
    BY <1>1 DEF OrderRow
  <2> QED
    BY <2>1 DEF Serve
<1>3. /\ [orders[o] EXCEPT !.status = st, !.version = v] \in OrderRow
      /\ [orders[o] EXCEPT !.status = st, !.version = v].bill = orders[o].bill
      /\ [orders[o] EXCEPT !.status = st, !.version = v].status # "NONE"
  BY <1>1 DEF OrderRow
<1>4. orders' \in [Order -> OrderRow]
  BY <1>2, <1>3
<1>5. \A p \in Order : orders'[p].bill = orders[p].bill
                       /\ (orders[p].status # "NONE" => orders'[p].status # "NONE")
  BY <1>2, <1>3
<1>6. bills' = bills /\ lock' = lock /\ req' = req
  BY DEF Serve
<1>7. BilledOnce'
  BY <1>5, <1>6 DEF BilledOnce, BillSale
<1>8. \A q \in Request : HandlerOK(q)'
  BY <1>6, LedgerGrows
<1> QED
  BY <1>4, <1>6, <1>7, <1>8

LEMMA NextInv == IInv /\ [Next]_vars => IInv'
<1> SUFFICES ASSUME IInv, [Next]_vars PROVE IInv'
  OBVIOUS
<1>1. CASE \E r \in Request, k \in Key, kind \in Kind, claim \in Claims, i \in Intent \cup {None} :
              Send(r, k, kind, claim, i)
  BY <1>1, SendInv
<1>2. ASSUME NEW r \in Request, Handle(r) \/ Abort(r) \/ Lose(r) PROVE IInv'
  BY <1>2, ReplayInv, BeginInv, LockInv, RefuseInv, CaughtInv, CommitInv, RespondInv,
     OnConflictInv DEF Handle
<1>3. CASE \E o \in Order : Serve(o)
  BY <1>3, ServeInv
<1>4. CASE UNCHANGED vars
  <2>1. orders' = orders /\ bills' = bills /\ lock' = lock /\ req' = req
    BY <1>4 DEF vars
  <2> QED
    BY <2>1 DEF IInv, TypeOK, BilledOnce, HandlerOK, NotAnsweredYet, WellAsked, Sent,
                SnapshotIsPast, CommittedIsCharged
<1> QED
  BY <1>1, <1>2, <1>3, <1>4 DEF Next

\* IInv is an invariant of the handlers.
THEOREM Invariance == Spec => []IInv
<1> QED
  BY InitInv, NextInv, PTL DEF Spec

\* Rows and handler states keep their types, and no handler exceeds its retries.
THEOREM TypeCorrect == Spec => []TypeOK
<1>1. IInv => TypeOK
  BY DEF IInv
<1> QED
  BY <1>1, Invariance, PTL

-----------------------------------------------------------------------------
(* The handlers implement ChargeOnce.                                      *)

\* A step that only moves a handler that was sent is a stuttering step of the
\* promise, or the answer of that handler.
LEMMA AnswerRefines ==
  ASSUME IInv, NEW r \in Request, Sent(r), req[r].pc # "done",
         NEW a \in Refusals \cup {"paid", "created"}, Answer(r, a),
         a = "paid" => bills[req[r].key] # None /\ bills[req[r].key].body = req[r].body
  PROVE  Promise!Next
<1>1. HandlerOK(r) /\ req[r] \in HandlerState /\ req \in [Request -> HandlerState]
  BY DEF IInv, TypeOK
<1>2. /\ req' = [req EXCEPT ![r] = [req[r] EXCEPT !.pc = "done", !.snap = None, !.answer = a]]
      /\ bills' = bills
  BY <1>1 DEF Answer
<1>3. /\ req'[r].pc = "done" /\ req'[r].answer = a
      /\ req'[r].key = req[r].key /\ req'[r].body = req[r].body
      /\ \A q \in Request : q # r => req'[q] = req[q]
  BY <1>1, <1>2 DEF HandlerState
<1>4. req[r].answer = None
  BY <1>1 DEF HandlerOK, NotAnsweredYet
<1>5. Asking' = Asking
  BY <1>3 DEF Asking, Sent
<1>6. Answering' = [Answering EXCEPT ![r] = a]
  BY <1>3 DEF Answering
<1>7. Asking[r] = [key |-> req[r].key, body |-> req[r].body] /\ Answering[r] = None
  BY <1>4 DEF Asking, Answering, Sent
<1>8. req[r].key \in Key /\ req[r].body \in Bodies
  BY <1>1 DEF HandlerOK, WellAsked
<1>9. Asking[r] # None
  BY <1>7, <1>8, PaymentAssumption
<1>10. CASE a = "paid"
  <2>1. Promise!Confirm(r)
    BY <1>2, <1>5, <1>6, <1>7, <1>9, <1>10 DEF Promise!Confirm
  <2> QED
    BY <2>1 DEF Promise!Next
<1>11. CASE a # "paid"
  <2>1. Answering'[r] = a
    BY <1>6 DEF Answering
  <2>2. Promise!Decline(r, Answering'[r])
    BY <1>2, <1>5, <1>6, <1>7, <1>9, <1>11, <2>1 DEF Promise!Decline
  <2> QED
    BY <2>2 DEF Promise!Next
<1> QED
  BY <1>10, <1>11

\* A step that leaves keys, bodies, answers and bills alone is a stuttering step.
LEMMA StutterRefines ==
  ASSUME bills' = bills,
         \A r \in Request : /\ (req'[r].pc = "idle") <=> (req[r].pc = "idle")
                            /\ req'[r].key = req[r].key /\ req'[r].body = req[r].body
                            /\ req'[r].answer = req[r].answer
  PROVE  UNCHANGED <<Asking, bills, Answering>>
BY DEF Asking, Answering

Simulated == Promise!Next \/ UNCHANGED <<Asking, bills, Answering>>

LEMMA MoveRefines ==
  ASSUME IInv, NEW r \in Request, Sent(r), bills' = bills,
         NEW h \in HandlerState, req' = [req EXCEPT ![r] = h],
         h.pc # "idle", h.key = req[r].key, h.body = req[r].body, h.answer = req[r].answer
  PROVE  Simulated
<1>1. req'[r] = h /\ \A q \in Request : q # r => req'[q] = req[q]
  BY DEF IInv, TypeOK
<1> QED
  BY <1>1, StutterRefines DEF Simulated, Sent

LEMMA SendRefines ==
  ASSUME IInv, NEW r \in Request, NEW k \in Key, NEW kind \in Kind,
         NEW claim \in Claims, NEW i \in Intent \cup {None},
         Send(r, k, kind, claim, i)
  PROVE  Promise!Next
<1> DEFINE b == Body(kind, claim, i)
<1>1. b \in Bodies
  BY DEF Body, Bodies
<1> HIDE DEF b
<1>2. req' = [req EXCEPT ![r] = Asked(k, b)] /\ req[r].pc = "idle" /\ bills' = bills
  BY DEF Send, b
<1>3. req'[r] = Asked(k, b) /\ \A q \in Request : q # r => req'[q] = req[q]
  BY <1>2 DEF IInv, TypeOK
<1>4. HandlerOK(r)
  BY DEF IInv
<1>5. Asking[r] = None /\ Asking' = [Asking EXCEPT ![r] = [key |-> k, body |-> b]]
  <2>1. /\ Asked(k, b).pc # "idle"
        /\ [key |-> Asked(k, b).key, body |-> Asked(k, b).body] = [key |-> k, body |-> b]
    BY DEF Asked
  <2>2. req'[r].pc # "idle" /\ [key |-> req'[r].key, body |-> req'[r].body] = [key |-> k, body |-> b]
    BY <1>3, <2>1
  <2> QED
    BY <1>2, <1>3, <2>2 DEF Asking
<1>6. Answering' = Answering
  BY <1>2, <1>3, <1>4 DEF Answering, Asked, HandlerOK, NotAnsweredYet
<1>7. Asking'[r] = [key |-> k, body |-> b] /\ Asking'[r] # None
  <2>1. Asking'[r] = [key |-> k, body |-> b]
    BY <1>5 DEF Asking
  <2> QED
    BY <1>1, <2>1, PaymentAssumption
<1>8. Promise!Ask(r, Asking'[r].key, Asking'[r].body)
  BY <1>2, <1>5, <1>6, <1>7 DEF Promise!Ask
<1> QED
  BY <1>7, <1>8 DEF Promise!Next

\* "Paid" is answered on the strength of a bill, whoever committed it.
LEMMA SuccessRefines ==
  ASSUME IInv, NEW r \in Request, Sent(r), req[r].pc # "done", Answer(r, Success(r)),
         \/ Earlier(r, Db) = "same"
         \/ req[r].pc = "committed"
         \/ req[r].pc = "body" /\ Earlier(r, Seen(r)) = "same"
  PROVE  Promise!Next
<1>1. HandlerOK(r) /\ req[r].key \in Key
  BY DEF IInv, HandlerOK, WellAsked
<1>2. CASE KindOf(r) = "submit"
  <2>1. Success(r) = "created"
    BY <1>2 DEF Success
  <2> QED
    BY <2>1, AnswerRefines
<1>3. CASE KindOf(r) # "submit"
  <2>1. Success(r) = "paid"
    BY <1>3 DEF Success
  <2>2. bills[req[r].key] # None /\ bills[req[r].key].body = req[r].body
    <3>1. CASE Earlier(r, Db) = "same"
      BY <1>3, <3>1 DEF Earlier, existingSettlement, Db
    <3>2. CASE req[r].pc = "committed"
      BY <1>1, <1>3, <3>2 DEF HandlerOK, CommittedIsCharged, KindOf
    <3>3. CASE req[r].pc = "body" /\ Earlier(r, Seen(r)) = "same"
      <4>1. /\ req[r].snap.bills[req[r].key] # None
            /\ req[r].snap.bills[req[r].key].body = req[r].body
        BY <1>3, <3>3 DEF Earlier, existingSettlement, Seen
      <4> QED
        BY <1>1, <3>3, <4>1 DEF HandlerOK, SnapshotIsPast
    <3> QED
      BY <3>1, <3>2, <3>3
  <2> QED
    BY <2>1, <2>2, AnswerRefines
<1> QED
  BY <1>2, <1>3

LEMMA RefusalRefines ==
  ASSUME IInv, NEW r \in Request, Sent(r), req[r].pc # "done",
         NEW a \in Refusals, Answer(r, a)
  PROVE  Promise!Next
BY AnswerRefines DEF Refusals

LEMMA CommitRefines ==
  ASSUME IInv, NEW r \in Request, Commit(r)
  PROVE  Simulated
<1> DEFINE h == [req[r] EXCEPT !.pc = "committed", !.snap = None]
<1>1. req[r] \in HandlerState /\ HandlerOK(r) /\ req[r].pc = "body" /\ Sent(r)
  BY DEF IInv, TypeOK, Commit, Accepted, Ready, Sent
<1>2. req' = [req EXCEPT ![r] = h]
  BY DEF Commit, IInv, TypeOK
<1>3. /\ h \in HandlerState /\ h.pc # "idle" /\ h.key = req[r].key
      /\ h.body = req[r].body /\ h.answer = req[r].answer
  BY <1>1 DEF HandlerState
<1> HIDE DEF h
<1>4. CASE bills' = bills
  BY <1>1, <1>2, <1>3, <1>4, MoveRefines
<1>5. ASSUME NEW S \in SUBSET Order, S # {}, bills[req[r].key] = None,
             \A o \in S, k \in Key : bills[k] # None => o \notin bills[k].orders,
             bills' = [bills EXCEPT ![req[r].key] = [body |-> req[r].body, orders |-> S]]
      PROVE  Promise!Next
  <2>1. req'[r] = h /\ \A q \in Request : q # r => req'[q] = req[q]
    BY <1>2 DEF IInv, TypeOK
  <2>2. Asking' = Asking /\ Answering' = Answering
    BY <1>1, <1>3, <2>1 DEF Asking, Answering, Sent
  <2>3. Asking[r] = [key |-> req[r].key, body |-> req[r].body]
    BY <1>1 DEF Asking, Sent
  <2>4. Asking[r] # None
    BY <1>1, <2>3, PaymentAssumption DEF HandlerOK, WellAsked
  <2>5. S \subseteq Order \ Promise!OrdersCharged
    BY <1>5 DEF Promise!OrdersCharged
  <2>6. Promise!Charge(r, S)
    BY <1>5, <2>2, <2>3, <2>4, <2>5 DEF Promise!Charge
  <2> QED
    BY <2>6 DEF Promise!Next
<1> QED
  BY <1>4, <1>5, CommitEffect DEF Simulated

LEMMA NextRefines == IInv /\ [Next]_vars => Simulated
<1> SUFFICES ASSUME IInv, [Next]_vars PROVE Simulated
  OBVIOUS
<1> USE DEF Simulated
<1>1. CASE \E r \in Request, k \in Key, kind \in Kind, claim \in Claims, i \in Intent \cup {None} :
              Send(r, k, kind, claim, i)
  BY <1>1, SendRefines
<1>2. ASSUME NEW r \in Request, Replay(r) \/ Refuse(r) \/ Respond(r) \/ OnConflict(r)
                                \/ OnDuplicate(r) \/ Lose(r)
      PROVE  Simulated
  <2>1. Sent(r) /\ req[r].pc # "done" /\ req[r] \in HandlerState
    BY <1>2 DEF Replay, Refuse, Ready, Respond, OnConflict, OnDuplicate, Lose, Sent, IInv, TypeOK
  <2>2. CASE \E a \in Refusals : Answer(r, a)
    BY <2>1, <2>2, RefusalRefines
  <2>3. CASE /\ Answer(r, Success(r))
             /\ \/ Earlier(r, Db) = "same" \/ req[r].pc = "committed"
                \/ req[r].pc = "body" /\ Earlier(r, Seen(r)) = "same"
    BY <2>1, <2>3, SuccessRefines
  <2>4. ASSUME NEW pc \in {"begin", "replay"}, NEW n \in 0..MaxRetry, bills' = bills,
               req' = [req EXCEPT ![r] = [req[r] EXCEPT !.pc = pc, !.attempt = n]]
        PROVE  Simulated
    <3> DEFINE h == [req[r] EXCEPT !.pc = pc, !.attempt = n]
    <3>1. /\ h \in HandlerState /\ h.pc # "idle" /\ h.key = req[r].key
          /\ h.body = req[r].body /\ h.answer = req[r].answer
      BY <2>1 DEF HandlerState
    <3>2. req' = [req EXCEPT ![r] = h]
      BY <2>4
    <3> HIDE DEF h
    <3> QED
      BY <2>1, <2>4, <3>1, <3>2, MoveRefines
  <2>5. CASE Goto(r, "begin") /\ bills' = bills
    <3>1. req' = [req EXCEPT ![r] = [req[r] EXCEPT !.pc = "begin", !.attempt = req[r].attempt]]
          /\ req[r].attempt \in 0..MaxRetry
      BY <2>1, <2>5 DEF Goto, HandlerState
    <3> QED
      BY <2>4, <2>5, <3>1
  <2>6. ASSUME NEW pc \in {"begin", "replay"}, MayRetry(r), bills' = bills,
               req' = [req EXCEPT ![r].pc = pc, ![r].attempt = @ + 1]
        PROVE  Simulated
    <3>1. req[r].attempt + 1 \in 0..MaxRetry
      BY <2>1, <2>6, PaymentAssumption DEF MayRetry, HandlerState
    <3>2. req' = [req EXCEPT ![r] = [req[r] EXCEPT !.pc = pc, !.attempt = req[r].attempt + 1]]
      BY <2>1, <2>6 DEF HandlerState
    <3> QED
      BY <2>4, <2>6, <3>1, <3>2
  <2>7. CASE Replay(r)
    BY <2>2, <2>3, <2>5, <2>7 DEF Replay, Refusals
  <2>8. CASE Refuse(r)
    BY <2>2, <2>3, <2>8 DEF Refuse, Ready, Refusals
  <2>9. CASE Respond(r)
    BY <2>3, <2>9 DEF Respond
  <2>10. CASE OnConflict(r)
    BY <2>2, <2>3, <2>6, <2>10 DEF OnConflict, Refusals
  <2>11. CASE OnDuplicate(r)
    BY <2>2, <2>3, <2>11 DEF OnDuplicate, Refusals
  <2>12. CASE Lose(r)
    BY <2>2, <2>12 DEF Lose, Refusals
  <2> QED
    BY <1>2, <2>7, <2>8, <2>9, <2>10, <2>11, <2>12
<1>3. ASSUME NEW r \in Request, Begin(r) \/ Duplicate(r) \/ Conflict(r) \/ Abort(r)
      PROVE  Simulated
  <2>1. Sent(r) /\ req[r] \in HandlerState /\ bills' = bills
    BY <1>3 DEF Begin, Duplicate, Conflict, Abort, Catch, Accepted, Ready, Sent, IInv, TypeOK
  <2>2. PICK pc \in {"body", "P2034", "P2002"}, snap \in Snapshot \cup {None} :
             req' = [req EXCEPT ![r] = [req[r] EXCEPT !.pc = pc, !.snap = snap]]
    <3>1. Db \in Snapshot
      BY DEF Db, Snapshot, IInv, TypeOK
    <3>2. CASE Begin(r)
      <4>1. req' = [req EXCEPT ![r] = [req[r] EXCEPT !.pc = "body", !.snap = Db]]
        BY <3>2 DEF Begin
      <4> QED
        BY <3>1, <4>1
    <3>3. ASSUME NEW code \in {"P2034", "P2002"}, Catch(r, code)
          PROVE  \E pc \in {"body", "P2034", "P2002"}, snap \in Snapshot \cup {None} :
                    req' = [req EXCEPT ![r] = [req[r] EXCEPT !.pc = pc, !.snap = snap]]
      <4>1. req' = [req EXCEPT ![r] = [req[r] EXCEPT !.pc = code, !.snap = None]]
        BY <3>3 DEF Catch
      <4> QED
        BY <4>1
    <3> QED
      BY <1>3, <3>2, <3>3 DEF Duplicate, Conflict, Abort
  <2> DEFINE h == [req[r] EXCEPT !.pc = pc, !.snap = snap]
  <2>3. /\ h \in HandlerState /\ h.pc # "idle" /\ h.key = req[r].key
        /\ h.body = req[r].body /\ h.answer = req[r].answer
    BY <2>1 DEF HandlerState
  <2>4. req' = [req EXCEPT ![r] = h]
    BY <2>2
  <2> HIDE DEF h
  <2> QED
    BY <2>1, <2>3, <2>4, MoveRefines
<1>4. CASE \E r \in Request : Commit(r)
  BY <1>4, CommitRefines
<1>5. CASE (\E r \in Request : Lock(r)) \/ (\E o \in Order : Serve(o)) \/ UNCHANGED vars
  <2>1. bills' = bills /\ req' = req
    BY <1>5 DEF Lock, Serve, vars
  <2> QED
    BY <2>1, StutterRefines
<1> QED
  BY <1>1, <1>2, <1>3, <1>4, <1>5 DEF Next, Handle

LEMMA InitRefines == Init => Promise!Init
BY DEF Init, Idle, Promise!Init, Asking, Answering

\* Every behaviour of the handlers, with every retry, lost answer and rival, is a
\* behaviour of ChargeOnce.
THEOREM ChargesOnceHolds == Spec => ChargesOnce
<1>1. IInv /\ [Next]_vars => [Promise!Next]_<<Asking, bills, Answering>>
  BY NextRefines DEF Simulated
<1> QED
  BY <1>1, InitRefines, Invariance, PTL DEF Spec, ChargesOnce, Promise!Spec

-----------------------------------------------------------------------------
(***************************************************************************)
(* What a refusal is worth, and that a key makes one order.                *)
(* A handler refuses on a snapshot; between the snapshot                   *)
(* and the refusal another attempt with the same key may have committed,   *)
(* and others may try after it.  The argument is that versions only grow:  *)
(* a claim that was not chargeable in a snapshot is not chargeable later,  *)
(* and if it was charged meanwhile it was chargeable in the snapshot.      *)
(***************************************************************************)
\* What may become of a row.
Grown(old, new) ==
  /\ new = old \/ new.version > old.version
  /\ old.bill # None => new.bill = old.bill
  /\ old.key # None => new.key = old.key /\ new.intent = old.intent

\* VersionsMatch and Payable for one order, in the orders of a snapshot.
Chargeable(O, o, v) ==
  /\ O[o].version = v /\ O[o].bill = None
  /\ O[o].status \in IF o \in TableOrder THEN {"SERVED"} ELSE {"READY", "SERVED"}
Blocked(o, v) == orders[o].version >= v /\ ~Chargeable(orders, o, v)

Charged(r) == bills[req[r].key] # None /\ bills[req[r].key].body = req[r].body
Version(r, o) == req[r].body.claim[o]

KeysDiffer ==
  \A o, p \in Order : orders[o].key # None /\ orders[o].key = orders[p].key => o = p
BillListed ==
  \A o \in Order : orders[o].bill # None =>
     bills[orders[o].bill] # None /\ o \in bills[orders[o].bill].orders
AbsentIsBlank == \A o \in Order : orders[o].status = "NONE" => orders[o] = NoOrder

ClaimsSeen(r) ==
  Sent(r) => /\ KindOf(r) = "settle" => \A o \in Claimed(r) : Version(r, o) <= orders[o].version
             /\ KindOf(r) # "settle" => Claimed(r) = {}

SnapshotGrew(r) ==
  req[r].pc = "body" =>
    /\ \A o \in Order : Grown(Seen(r).orders[o], orders[o])
    /\ KindOf(r) = "settle" =>
          \A o \in Claimed(r) : Version(r, o) <= Seen(r).orders[o].version

\* Whoever carried it out meanwhile could do so as of this snapshot.
ChargedMeanwhile(r) ==
  /\ req[r].pc = "body" /\ KindOf(r) = "settle"
  /\ Seen(r).bills[req[r].key] = None /\ Charged(r)
  => /\ \A o \in Claimed(r) : Chargeable(Seen(r).orders, o, Version(r, o))
     /\ WholeTable(r)

OrderKeyFound(r) == \E o \in Order : orders[o].key = req[r].key
DuplicateFound(r) == req[r].pc = "P2002" /\ KindOf(r) = "submit" => OrderKeyFound(r)

Refuted(r) == KindOf(r) = "settle" /\ ~Charged(r)
              /\ \E o \in Claimed(r) : Blocked(o, Version(r, o))
Reused(r) ==
  IF KindOf(r) = "submit"
  THEN \E o \in Order : orders[o].key = req[r].key /\ orders[o].intent # req[r].body.intent
  ELSE bills[req[r].key] # None /\ bills[req[r].key].body # req[r].body

Final(r) == /\ req[r].answer \in {"STALE_VERSION", "ORDER_NOT_PAYABLE"} => Refuted(r)
            /\ req[r].answer = "KEY_REUSED" => Reused(r)

Believes(r) == /\ ClaimsSeen(r) /\ SnapshotGrew(r) /\ ChargedMeanwhile(r)
               /\ DuplicateFound(r) /\ Final(r)

Inv2 == /\ IInv /\ KeysDiffer /\ BillListed /\ AbsentIsBlank
        /\ \A r \in Request : Believes(r)

-----------------------------------------------------------------------------
(* Rows, claims and lookups.                                               *)

LEMMA GrownTransitive ==
  ASSUME NEW a \in OrderRow, NEW b \in OrderRow, NEW c \in OrderRow, Grown(a, b), Grown(b, c)
  PROVE  Grown(a, c)
BY DEF Grown, OrderRow

LEMMA ClaimTypes ==
  ASSUME IInv, NEW r \in Request, Sent(r)
  PROVE  /\ req[r].key \in Key /\ req[r].key # None
         /\ Claimed(r) \subseteq Order /\ \A o \in Claimed(r) : Version(r, o) \in Nat
<1>1. req[r].key \in Key /\ req[r].body \in Bodies
  BY DEF IInv, HandlerOK, WellAsked
<1>2. req[r].body.claim \in Claims
  BY <1>1 DEF Bodies
<1>3. PICK S \in SUBSET Existing : req[r].body.claim \in [S -> 1..2]
  BY <1>2 DEF Claims
<1>4. Claimed(r) = S /\ S \subseteq Order
  BY <1>3, PaymentAssumption DEF Claimed
<1>5. \A o \in S : Version(r, o) \in 1..2
  BY <1>3 DEF Version
<1>6. \A o \in S : Version(r, o) \in Nat
  BY <1>5
<1>7. req[r].key # None
  BY <1>1, PaymentAssumption
<1> QED
  BY <1>1, <1>4, <1>6, <1>7

\* Chargeable now and claimed no later than the older row: the row is the same.
LEMMA ChargeableBefore ==
  ASSUME NEW O, NEW o \in Order, NEW v \in Nat, O[o] \in OrderRow, orders[o] \in OrderRow,
         Grown(O[o], orders[o]), v <= O[o].version, Chargeable(orders, o, v)
  PROVE  Chargeable(O, o, v)
BY DEF Grown, Chargeable, OrderRow

LEMMA BlockedAfter ==
  ASSUME NEW o \in Order, NEW v \in Nat, orders[o] \in OrderRow, orders'[o] \in OrderRow,
         Grown(orders[o], orders'[o]), Blocked(o, v)
  PROVE  Blocked(o, v)'
BY DEF Grown, Blocked, Chargeable, OrderRow

LEMMA OtherIsReused ==
  ASSUME NEW r \in Request, Earlier(r, Db) = "other"
  PROVE  Reused(r)
BY DEF Earlier, Reused, getExistingOrder, existingSettlement, Db

LEMMA AbsentIsNotCarriedOut ==
  ASSUME NEW r \in Request, Earlier(r, Db) # "same"
  PROVE  ~CarriedOut(r)
BY DEF CarriedOut

LEMMA ReusedIsOther ==
  ASSUME NEW r \in Request, Reused(r)
  PROVE  ~CarriedOut(r)
BY DEF CarriedOut, Earlier, Reused, getExistingOrder, existingSettlement, Db

LEMMA NotCharged ==
  ASSUME NEW r \in Request, KindOf(r) = "settle", ~Charged(r)
  PROVE  ~CarriedOut(r)
BY DEF CarriedOut, Earlier, existingSettlement, Db, Charged

-----------------------------------------------------------------------------
(* Steps that leave the tables alone.                                      *)

LEMMA OthersBelieve ==
  ASSUME NEW q \in Request, Believes(q), orders' = orders, bills' = bills, req'[q] = req[q]
  PROVE  Believes(q)'
<1> USE DEF Sent, KindOf, Claimed, Version, Seen, Charged, OrderKeyFound
<1>1. ClaimsSeen(q)' /\ SnapshotGrew(q)' /\ DuplicateFound(q)'
  BY DEF Believes, ClaimsSeen, SnapshotGrew, DuplicateFound
<1>2. ChargedMeanwhile(q)'
  BY DEF Believes, ChargedMeanwhile, Chargeable, WholeTable
<1>3. Final(q)'
  BY DEF Believes, Final, Refuted, Reused, Blocked, Chargeable
<1> QED
  BY <1>1, <1>2, <1>3 DEF Believes

LEMMA HandlerStep2 ==
  ASSUME Inv2, IInv', NEW r \in Request, orders' = orders, bills' = bills,
         \A q \in Request : q # r => req'[q] = req[q],
         Believes(r)'
  PROVE  Inv2'
<1>1. KeysDiffer' /\ BillListed' /\ AbsentIsBlank'
  BY DEF Inv2, KeysDiffer, BillListed, AbsentIsBlank
<1>2. ASSUME NEW q \in Request, q # r PROVE Believes(q)'
  BY <1>2, OthersBelieve DEF Inv2
<1> QED
  BY <1>1, <1>2 DEF Inv2

\* A handler outside its transaction has beliefs about its body and answer only.
LEMMA OutsideBelieves ==
  ASSUME NEW r \in Request, orders' = orders, bills' = bills, Sent(r), ClaimsSeen(r),
         req'[r].key = req[r].key, req'[r].body = req[r].body, req'[r].pc # "body",
         req'[r].pc = "P2002" /\ KindOf(r) = "submit" => OrderKeyFound(r),
         req'[r].answer \in {"STALE_VERSION", "ORDER_NOT_PAYABLE"} => Refuted(r),
         req'[r].answer = "KEY_REUSED" => Reused(r)
  PROVE  Believes(r)'
<1> USE DEF Sent, KindOf, Claimed, Version, Charged, OrderKeyFound
<1>1. ClaimsSeen(r)'
  BY DEF ClaimsSeen
<1>2. SnapshotGrew(r)' /\ ChargedMeanwhile(r)' /\ DuplicateFound(r)'
  BY DEF SnapshotGrew, ChargedMeanwhile, DuplicateFound
<1>3. Final(r)'
  BY DEF Final, Refuted, Reused, Blocked, Chargeable
<1> QED
  BY <1>1, <1>2, <1>3 DEF Believes

LEMMA AnswerInv2 ==
  ASSUME Inv2, IInv', NEW r \in Request, Sent(r), NEW a, Answer(r, a),
         a \in {"STALE_VERSION", "ORDER_NOT_PAYABLE"} => Refuted(r),
         a = "KEY_REUSED" => Reused(r)
  PROVE  Inv2'
<1>1. req[r] \in HandlerState /\ req \in [Request -> HandlerState] /\ ClaimsSeen(r)
  BY DEF Inv2, IInv, TypeOK, Believes
<1>2. /\ req'[r].pc = "done" /\ req'[r].answer = a
      /\ req'[r].key = req[r].key /\ req'[r].body = req[r].body
      /\ \A q \in Request : q # r => req'[q] = req[q]
  BY <1>1 DEF Answer, HandlerState
<1>3. orders' = orders /\ bills' = bills
  BY DEF Answer
<1>4. Believes(r)'
  BY <1>1, <1>2, <1>3, OutsideBelieves
<1> QED
  BY <1>2, <1>3, <1>4, HandlerStep2

LEMMA MoveInv2 ==
  ASSUME Inv2, IInv', NEW r \in Request, Sent(r), req[r].pc # "done",
         orders' = orders, bills' = bills,
         \A q \in Request : q # r => req'[q] = req[q],
         req'[r].pc \in {"replay", "begin", "P2034", "P2002"},
         req'[r].key = req[r].key, req'[r].body = req[r].body,
         req'[r].answer = req[r].answer,
         req'[r].pc = "P2002" /\ KindOf(r) = "submit" => OrderKeyFound(r)
  PROVE  Inv2'
<1>1. ClaimsSeen(r) /\ req[r].answer = None
  BY DEF Inv2, IInv, HandlerOK, NotAnsweredYet, Believes
<1>2. Believes(r)'
  BY <1>1, NoneIsNoRefusal, OutsideBelieves
<1> QED
  BY <1>2, HandlerStep2

-----------------------------------------------------------------------------
(* One lemma per action.                                                   *)

LEMMA SendInv2 ==
  ASSUME Inv2, IInv', NEW r \in Request, NEW k \in Key, NEW kind \in Kind,
         NEW claim \in Claims, NEW i \in Intent \cup {None},
         Send(r, k, kind, claim, i)
  PROVE  Inv2'
<1>1. req' = [req EXCEPT ![r] = Asked(k, Body(kind, claim, i))] /\ req \in [Request -> HandlerState]
  BY DEF Send, Inv2, IInv, TypeOK
<1>2. req'[r] = Asked(k, Body(kind, claim, i)) /\ \A q \in Request : q # r => req'[q] = req[q]
  BY <1>1
<1>3. /\ req'[r].pc = "replay" /\ req'[r].answer = None
      /\ req'[r].body.kind = kind /\ req'[r].body.claim = claim
  BY <1>2 DEF Asked, Body
<1>4. orders' = orders /\ bills' = bills
  BY DEF Send
<1>5. /\ kind = "settle" => \A o \in DOMAIN claim : claim[o] <= orders[o].version
      /\ kind # "settle" => DOMAIN claim = {}
  BY DEF Send, NoClaim
<1>6. ClaimsSeen(r)'
  BY <1>3, <1>4, <1>5 DEF ClaimsSeen, KindOf, Claimed, Version
<1>7. SnapshotGrew(r)' /\ ChargedMeanwhile(r)' /\ DuplicateFound(r)'
  BY <1>3 DEF SnapshotGrew, ChargedMeanwhile, DuplicateFound
<1>8. Final(r)'
  BY <1>3, NoneIsNoRefusal DEF Final
<1> QED
  BY <1>2, <1>4, <1>6, <1>7, <1>8, HandlerStep2 DEF Believes

LEMMA ReplayInv2 ==
  ASSUME Inv2, IInv', NEW r \in Request, Replay(r)
  PROVE  Inv2'
<1>1. Sent(r) /\ req[r].pc # "done" /\ req[r] \in HandlerState /\ req \in [Request -> HandlerState]
  BY DEF Replay, Sent, Inv2, IInv, TypeOK
<1>2. CASE Answer(r, Success(r))
  BY <1>1, <1>2, AnswerInv2 DEF Success
<1>3. CASE Earlier(r, Db) = "other" /\ Answer(r, "KEY_REUSED")
  BY <1>1, <1>3, AnswerInv2, OtherIsReused
<1>4. CASE Goto(r, "begin") /\ UNCHANGED <<orders, bills, lock>>
  <2>1. /\ \A q \in Request : q # r => req'[q] = req[q]
        /\ req'[r].pc = "begin" /\ req'[r].answer = req[r].answer
        /\ req'[r].key = req[r].key /\ req'[r].body = req[r].body
    BY <1>1, <1>4 DEF Goto, HandlerState
  <2> QED
    BY <1>1, <1>4, <2>1, MoveInv2
<1> QED
  BY <1>2, <1>3, <1>4 DEF Replay

LEMMA BeginInv2 ==
  ASSUME Inv2, IInv', NEW r \in Request, Begin(r)
  PROVE  Inv2'
<1>1. /\ Sent(r) /\ req[r] \in HandlerState /\ req \in [Request -> HandlerState]
      /\ Believes(r) /\ HandlerOK(r) /\ req[r].pc = "begin"
  BY DEF Begin, Sent, Inv2, IInv, TypeOK
<1>2. /\ \A q \in Request : q # r => req'[q] = req[q]
      /\ req'[r].pc = "body" /\ req'[r].answer = req[r].answer /\ req'[r].snap = Db
      /\ req'[r].key = req[r].key /\ req'[r].body = req[r].body
  BY <1>1 DEF Begin, HandlerState
<1>3. orders' = orders /\ bills' = bills
  BY DEF Begin
<1>4. ClaimsSeen(r)'
  BY <1>1, <1>2, <1>3 DEF Believes, ClaimsSeen, Sent, KindOf, Claimed, Version
<1>5. SnapshotGrew(r)'
  <2>1. Seen(r)'.orders = orders
    BY <1>2 DEF Seen, Db
  <2>2. \A o \in Order : Grown(Seen(r)'.orders[o], orders[o])
    BY <2>1 DEF Grown
  <2>3. KindOf(r)' = "settle" => \A o \in Claimed(r)' : Version(r, o)' <= orders[o].version
    BY <1>1, <1>2, <1>4, <1>3 DEF ClaimsSeen, Sent, KindOf, Claimed, Version
  <2> QED
    BY <1>3, <2>1, <2>2, <2>3 DEF SnapshotGrew
<1>6. ChargedMeanwhile(r)'
  BY <1>2, <1>3 DEF ChargedMeanwhile, Seen, Db, Charged
<1>7. DuplicateFound(r)'
  BY <1>2 DEF DuplicateFound
<1>8. Final(r)'
  BY <1>1, <1>2, <1>3 DEF Believes, Final, Refuted, Reused, Blocked, Chargeable, KindOf,
                          Claimed, Version, Charged
<1> QED
  BY <1>2, <1>3, <1>4, <1>5, <1>6, <1>7, <1>8, HandlerStep2 DEF Believes

LEMMA LockInv2 ==
  ASSUME Inv2, IInv', NEW r \in Request, Lock(r)
  PROVE  Inv2'
BY HandlerStep2, OthersBelieve DEF Lock, Inv2

\* What the snapshot refutes is refuted by the tables.
LEMMA RefutedSince ==
  ASSUME Inv2, NEW r \in Request, req[r].pc = "body", KindOf(r) = "settle",
         Seen(r).bills[req[r].key] = None, ~(VersionsMatch(r) /\ Payable(r))
  PROVE  Refuted(r)
<1> DEFINE O == Seen(r).orders
<1>1. /\ Believes(r) /\ HandlerOK(r) /\ Sent(r)
      /\ orders \in [Order -> OrderRow] /\ O \in [Order -> OrderRow]
  BY DEF Inv2, IInv, TypeOK, HandlerOK, SnapshotIsPast, Snapshot, Seen, Sent
<1>2. Claimed(r) \subseteq Order /\ \A o \in Claimed(r) : Version(r, o) \in Nat
  BY <1>1, ClaimTypes DEF Inv2
<1>3. PICK o \in Claimed(r) : ~Chargeable(O, o, Version(r, o))
  BY DEF VersionsMatch, Payable, Chargeable, Version
<1>4. ~Charged(r)
  BY <1>1, <1>3 DEF Believes, ChargedMeanwhile
<1>5. Grown(O[o], orders[o]) /\ Version(r, o) <= O[o].version
  BY <1>1, <1>2, <1>3 DEF Believes, SnapshotGrew
<1>6. ~Chargeable(orders, o, Version(r, o))
  BY <1>1, <1>2, <1>3, <1>5, ChargeableBefore
<1>7. orders[o].version >= Version(r, o)
  BY <1>1, <1>2, <1>5 DEF Grown, OrderRow
<1> QED
  BY <1>3, <1>4, <1>6, <1>7 DEF Refuted, Blocked

LEMMA ReusedSince ==
  ASSUME Inv2, NEW r \in Request, req[r].pc = "body", Earlier(r, Seen(r)) = "other"
  PROVE  Reused(r)
<1>1. Believes(r) /\ HandlerOK(r) /\ Sent(r)
  BY DEF Inv2, IInv, Sent
<1>2. req[r].key \in Key /\ req[r].key # None
  BY <1>1, ClaimTypes DEF Inv2
<1>3. CASE KindOf(r) = "submit"
  <2>1. PICK o \in Order : /\ Seen(r).orders[o].key = req[r].key
                           /\ Seen(r).orders[o].intent # req[r].body.intent
    BY <1>3 DEF Earlier, getExistingOrder
  <2>2. Grown(Seen(r).orders[o], orders[o])
    BY <1>1 DEF Believes, SnapshotGrew
  <2> QED
    BY <1>2, <1>3, <2>1, <2>2 DEF Grown, Reused
<1>4. CASE KindOf(r) # "submit"
  BY <1>1, <1>2, <1>4 DEF Earlier, existingSettlement, HandlerOK, SnapshotIsPast, Seen, Reused
<1> QED
  BY <1>3, <1>4

LEMMA RefuseInv2 ==
  ASSUME Inv2, IInv', NEW r \in Request, Refuse(r)
  PROVE  Inv2'
<1>1. Sent(r) /\ req[r].pc = "body"
  BY DEF Refuse, Ready, Sent
<1>2. CASE Answer(r, Success(r))
  BY <1>1, <1>2, AnswerInv2 DEF Success
<1>3. CASE Earlier(r, Seen(r)) = "other" /\ Answer(r, "KEY_REUSED")
  BY <1>1, <1>3, AnswerInv2, ReusedSince
<1>4. CASE /\ KindOf(r) = "settle" /\ Earlier(r, Seen(r)) = "absent"
           /\ ~(VersionsMatch(r) /\ Payable(r))
           /\ Answer(r, "STALE_VERSION") \/ Answer(r, "ORDER_NOT_PAYABLE")
  <2>1. Seen(r).bills[req[r].key] = None
    BY <1>4 DEF Earlier, existingSettlement
  <2>2. Refuted(r)
    BY <1>1, <1>4, <2>1, RefutedSince
  <2> QED
    BY <1>1, <1>4, <2>2, AnswerInv2
<1>5. CASE Answer(r, "PARTIAL_SETTLEMENT_FORBIDDEN") \/ Answer(r, "QUOTE_CHANGED")
  BY <1>1, <1>5, AnswerInv2
<1> QED
  BY <1>2, <1>3, <1>4, <1>5 DEF Refuse

LEMMA CaughtInv2 ==
  ASSUME Inv2, IInv', NEW r \in Request, Duplicate(r) \/ Conflict(r) \/ Abort(r)
  PROVE  Inv2'
<1>1. /\ Sent(r) /\ req[r].pc = "body" /\ Believes(r)
      /\ req[r] \in HandlerState /\ req \in [Request -> HandlerState]
  BY DEF Duplicate, Conflict, Abort, Accepted, Ready, Sent, Inv2, IInv, TypeOK
<1>2. PICK code \in {"P2034", "P2002"} :
         /\ Catch(r, code)
         /\ code = "P2002" => Duplicate(r)
  BY DEF Duplicate, Conflict, Abort
<1>3. /\ \A q \in Request : q # r => req'[q] = req[q]
      /\ req'[r].pc = code /\ req'[r].answer = req[r].answer
      /\ req'[r].key = req[r].key /\ req'[r].body = req[r].body
      /\ orders' = orders /\ bills' = bills
  BY <1>1, <1>2 DEF Catch, HandlerState
<1>4. code = "P2002" /\ KindOf(r) = "submit" => OrderKeyFound(r)
  <2> SUFFICES ASSUME code = "P2002", KindOf(r) = "submit" PROVE OrderKeyFound(r)
    OBVIOUS
  <2>1. Claimed(r) = {}
    BY <1>1 DEF Believes, ClaimsSeen
  <2> QED
    BY <1>2, <2>1 DEF Duplicate, BillKeyTaken, SessionBilled, OrderKeyTaken, OrderKeyFound
<1> QED
  BY <1>1, <1>3, <1>4, MoveInv2

LEMMA OnConflictInv2 ==
  ASSUME Inv2, IInv', NEW r \in Request, OnConflict(r)
  PROVE  Inv2'
<1>1. Sent(r) /\ req[r].pc = "P2034" /\ req[r] \in HandlerState /\ req \in [Request -> HandlerState]
  BY DEF OnConflict, Sent, Inv2, IInv, TypeOK
<1>2. CASE \E a \in {Success(r), "CONFLICT", "error"} : Answer(r, a)
  BY <1>1, <1>2, AnswerInv2 DEF Success
<1>3. CASE Earlier(r, Db) = "other" /\ Answer(r, "KEY_REUSED")
  BY <1>1, <1>3, AnswerInv2, OtherIsReused
<1>4. ASSUME NEW pc \in {"replay", "begin"},
             req' = [req EXCEPT ![r].pc = pc, ![r].attempt = @ + 1],
             UNCHANGED <<orders, bills, lock>>
      PROVE  Inv2'
  <2>1. /\ \A q \in Request : q # r => req'[q] = req[q]
        /\ req'[r].pc = pc /\ req'[r].answer = req[r].answer
        /\ req'[r].key = req[r].key /\ req'[r].body = req[r].body
    BY <1>1, <1>4 DEF HandlerState
  <2> QED
    BY <1>1, <1>4, <2>1, MoveInv2
<1> QED
  BY <1>2, <1>3, <1>4 DEF OnConflict

LEMMA OnDuplicateInv2 ==
  ASSUME Inv2, IInv', NEW r \in Request, OnDuplicate(r)
  PROVE  Inv2'
<1>1. Sent(r) /\ req[r].pc = "P2002" /\ Believes(r)
  BY DEF OnDuplicate, Sent, Inv2
<1>2. CASE \E a \in {Success(r), "CONFLICT"} : Answer(r, a)
  BY <1>1, <1>2, AnswerInv2 DEF Success
<1>3. CASE Earlier(r, Db) = "other" /\ Answer(r, "KEY_REUSED")
  BY <1>1, <1>3, AnswerInv2, OtherIsReused
<1>4. ~(KindOf(r) = "submit" /\ Earlier(r, Db) = "absent")
  BY <1>1 DEF Believes, DuplicateFound, OrderKeyFound, Earlier, getExistingOrder, Db
<1> QED
  BY <1>2, <1>3, <1>4 DEF OnDuplicate

LEMMA LeaveInv2 ==
  ASSUME Inv2, IInv', NEW r \in Request, Respond(r) \/ Lose(r)
  PROVE  Inv2'
<1>1. Sent(r) /\ \E a \in {Success(r), "lost"} : Answer(r, a)
  BY DEF Respond, Lose, Sent
<1> QED
  BY <1>1, AnswerInv2 DEF Success

-----------------------------------------------------------------------------
(* Steps that write the tables.                                            *)

\* A handler that another one's commit carries out could do so itself now.
NewlyCharged(q) ==
  KindOf(q) = "settle" /\ ~Charged(q) /\ Charged(q)' =>
    /\ \A o \in Claimed(q) : Chargeable(orders, o, Version(q, o))
    /\ Claimed(q) \cap TableOrder # {} =>
          Claimed(q) = TableOrder /\ \A o \in TableOrder : orders[o].bill = None

TablesGrow ==
  /\ orders' \in [Order -> OrderRow]
  /\ \A o \in Order : Grown(orders[o], orders'[o])
  /\ \A k \in Key : bills[k] # None => bills'[k] = bills[k]

LEMMA StillRefuted ==
  ASSUME Inv2, NEW q \in Request, TablesGrow, NewlyCharged(q), req'[q] = req[q],
         Sent(q), Refuted(q)
  PROVE  Refuted(q)'
<1>1. Claimed(q) \subseteq Order /\ \A o \in Claimed(q) : Version(q, o) \in Nat
  BY ClaimTypes DEF Inv2
<1>2. PICK o \in Claimed(q) : Blocked(o, Version(q, o))
  BY DEF Refuted
<1>3. ~Charged(q)'
  BY <1>2 DEF NewlyCharged, Refuted, Blocked
<1>4. orders[o] \in OrderRow /\ orders'[o] \in OrderRow /\ Grown(orders[o], orders'[o])
  BY <1>1, <1>2 DEF TablesGrow, Inv2, IInv, TypeOK
<1>5. orders'[o].version >= Version(q, o) /\ ~Chargeable(orders', o, Version(q, o))
  BY <1>1, <1>2, <1>4 DEF Grown, Blocked, Chargeable, OrderRow
<1>6. KindOf(q)' = KindOf(q) /\ Claimed(q)' = Claimed(q) /\ Version(q, o)' = Version(q, o)
  BY DEF KindOf, Claimed, Version
<1> QED
  BY <1>2, <1>3, <1>5, <1>6 DEF Refuted, Blocked, Chargeable, Version, KindOf, Claimed

LEMMA StillReused ==
  ASSUME Inv2, NEW q \in Request, TablesGrow, req'[q] = req[q], Sent(q), Reused(q)
  PROVE  Reused(q)'
<1>1. req[q].key \in Key /\ req[q].key # None
  BY ClaimTypes DEF Inv2
<1>2. CASE KindOf(q) = "submit"
  <2>1. PICK o \in Order : orders[o].key = req[q].key /\ orders[o].intent # req[q].body.intent
    BY <1>2 DEF Reused
  <2>2. orders'[o].key = req[q].key /\ orders'[o].intent # req[q].body.intent
    BY <1>1, <2>1 DEF TablesGrow, Grown
  <2> QED
    BY <1>2, <2>2 DEF Reused, KindOf
<1>3. CASE KindOf(q) # "submit"
  BY <1>1, <1>3 DEF Reused, KindOf, TablesGrow
<1> QED
  BY <1>2, <1>3

LEMMA StillMeanwhile ==
  ASSUME Inv2, NEW q \in Request, TablesGrow, NewlyCharged(q), req'[q] = req[q],
         req[q].pc = "body", KindOf(q) = "settle",
         Seen(q).bills[req[q].key] = None, Charged(q)'
  PROVE  /\ \A o \in Claimed(q) : Chargeable(Seen(q).orders, o, Version(q, o))
         /\ WholeTable(q)
<1> DEFINE O == Seen(q).orders
<1>1. /\ Believes(q) /\ HandlerOK(q) /\ Sent(q)
      /\ orders \in [Order -> OrderRow] /\ O \in [Order -> OrderRow]
  BY DEF Inv2, IInv, TypeOK, HandlerOK, SnapshotIsPast, Snapshot, Seen, Sent
<1>2. Claimed(q) \subseteq Order /\ \A o \in Claimed(q) : Version(q, o) \in Nat
  BY <1>1, ClaimTypes DEF Inv2
<1>3. \A o \in Order : Grown(O[o], orders[o])
  BY <1>1 DEF Believes, SnapshotGrew
<1>4. \A o \in Claimed(q) : Version(q, o) <= O[o].version
  BY <1>1 DEF Believes, SnapshotGrew
<1>5. CASE Charged(q)
  BY <1>1, <1>5 DEF Believes, ChargedMeanwhile
<1>6. CASE ~Charged(q)
  <2>1. \A o \in Claimed(q) : Chargeable(orders, o, Version(q, o))
    BY <1>6 DEF NewlyCharged
  <2>2. ASSUME NEW o \in Claimed(q) PROVE Chargeable(O, o, Version(q, o))
    <3>1. O[o] \in OrderRow /\ orders[o] \in OrderRow /\ Version(q, o) \in Nat /\ o \in Order
      BY <1>1, <1>2
    <3> HIDE DEF O
    <3> QED
      BY <1>3, <1>4, <2>1, <3>1, ChargeableBefore
  <2>3. ASSUME Claimed(q) \cap TableOrder # {}
        PROVE  Claimed(q) = {o \in TableOrder : O[o].bill = None}
    <3>1. Claimed(q) = TableOrder /\ \A o \in TableOrder : orders[o].bill = None
      BY <1>6, <2>3 DEF NewlyCharged
    <3>2. \A o \in TableOrder : O[o].bill = None
      BY <1>3, <3>1, PaymentAssumption DEF Grown
    <3> QED
      BY <3>1, <3>2
  <2> QED
    BY <2>2, <2>3 DEF WholeTable
<1> QED
  BY <1>5, <1>6

\* Whatever commits, a handler that takes no part keeps its beliefs.
LEMMA GrowthBelieves ==
  ASSUME Inv2, NEW q \in Request, TablesGrow, NewlyCharged(q), req'[q] = req[q]
  PROVE  Believes(q)'
<1>1. Believes(q) /\ HandlerOK(q) /\ orders \in [Order -> OrderRow]
  BY DEF Inv2, IInv, TypeOK
<1>2. /\ KindOf(q)' = KindOf(q) /\ Claimed(q)' = Claimed(q) /\ Seen(q)' = Seen(q)
      /\ Sent(q)' <=> Sent(q)
      /\ \A o : Version(q, o)' = Version(q, o)
  BY DEF KindOf, Claimed, Seen, Version, Sent
<1>3. Sent(q) => /\ Claimed(q) \subseteq Order /\ req[q].key # None
                 /\ \A o \in Claimed(q) : Version(q, o) \in Nat
  BY ClaimTypes DEF Inv2
<1>4. ClaimsSeen(q)'
  <2> SUFFICES ASSUME Sent(q), KindOf(q) = "settle", NEW o \in Claimed(q)
               PROVE  Version(q, o) <= orders'[o].version
    BY <1>1, <1>2 DEF Believes, ClaimsSeen
  <2>1. Version(q, o) <= orders[o].version /\ Grown(orders[o], orders'[o])
    BY <1>1, <1>3 DEF Believes, ClaimsSeen, TablesGrow
  <2>2. orders[o].version \in Nat /\ orders'[o].version \in Nat /\ Version(q, o) \in Nat
    BY <1>1, <1>3 DEF TablesGrow, OrderRow
  <2> QED
    BY <2>1, <2>2 DEF Grown
<1>5. SnapshotGrew(q)'
  <2> SUFFICES ASSUME req[q].pc = "body", NEW o \in Order
               PROVE  Grown(Seen(q).orders[o], orders'[o])
    BY <1>1, <1>2 DEF Believes, SnapshotGrew
  <2>1. Seen(q).orders[o] \in OrderRow /\ orders[o] \in OrderRow /\ orders'[o] \in OrderRow
    BY <1>1 DEF HandlerOK, SnapshotIsPast, Snapshot, Seen, TablesGrow
  <2>2. Grown(Seen(q).orders[o], orders[o]) /\ Grown(orders[o], orders'[o])
    BY <1>1 DEF Believes, SnapshotGrew, TablesGrow
  <2> QED
    BY <2>1, <2>2, GrownTransitive
<1>6. ChargedMeanwhile(q)'
  BY <1>2, StillMeanwhile DEF ChargedMeanwhile, Chargeable, WholeTable, Version, KindOf,
                              Claimed, Seen
<1>7. DuplicateFound(q)'
  BY <1>1, <1>2, <1>3 DEF Believes, DuplicateFound, OrderKeyFound, TablesGrow, Grown, Sent
<1>8. Final(q)'
  <2>1. CASE Sent(q)
    BY <1>1, <2>1, StillRefuted, StillReused DEF Believes, Final
  <2>2. CASE ~Sent(q)
    BY <1>1, <2>2, NoneIsNoRefusal DEF HandlerOK, NotAnsweredYet, Sent, Final
  <2> QED
    BY <2>1, <2>2
<1> QED
  BY <1>4, <1>5, <1>6, <1>7, <1>8 DEF Believes

LEMMA PaymentGrows ==
  ASSUME NEW row \in OrderRow, NEW k \in Key, row.status # "NONE", row.bill = None
  PROVE  /\ Grown(row, recordPayment(row, k))
         /\ recordPayment(row, k).key = row.key
<1>1. CASE row.status = "SERVED"
  BY <1>1 DEF recordPayment, OrderRow, Grown
<1>2. CASE row.status # "SERVED"
  BY <1>2 DEF recordPayment, OrderRow, Grown
<1> QED
  BY <1>1, <1>2

LEMMA BillIsNotNone ==
  ASSUME NEW b \in Bodies, NEW S \in SUBSET Order
  PROVE  [body |-> b, orders |-> S] # None
BY PaymentAssumption

LEMMA FreshGrows ==
  ASSUME Inv2, NEW o \in Order, IsFresh(o), NEW row \in OrderRow, row.version > 0
  PROVE  Grown(orders[o], row) /\ orders[o].key = None /\ orders[o].bill = None
BY DEF Inv2, AbsentIsBlank, IsFresh, Present, NoOrder, Grown

\* What the tables hold after a commit, besides what CommitEffect says.
LEMMA CommitRows ==
  ASSUME Inv2, NEW r \in Request, Commit(r)
  PROVE  /\ \A o \in Order : Grown(orders[o], orders'[o])
         /\ KeysDiffer' /\ BillListed' /\ AbsentIsBlank'
<1> DEFINE k == req[r].key
           body == req[r].body
           confirmed == [status |-> "READY", version |-> 2, bill |-> None, key |-> k,
                         intent |-> body.intent]
<1>1. /\ Sent(r) /\ Accepted(r) /\ ~Outdated(r) /\ IInv /\ WellAsked(r)
      /\ orders \in [Order -> OrderRow] /\ bills \in [Key -> BillSale \cup {None}]
      /\ KeysDiffer /\ BillListed /\ AbsentIsBlank
  BY DEF Inv2, IInv, TypeOK, HandlerOK, Commit, Accepted, Ready, Sent
<1>2. k \in Key /\ k # None /\ body \in Bodies
  BY <1>1, ClaimTypes DEF WellAsked
<1>3. confirmed \in OrderRow /\ confirmed.key = k /\ confirmed.status # "NONE"
      /\ confirmed.version > 0 /\ confirmed.bill = None
  BY <1>2 DEF OrderRow, Bodies
<1>4. KindOf(r) # "submit" => bills[k] = None
  BY DEF Commit, BillKeyTaken
<1>5. KindOf(r) # "settle" => \A o \in Order : orders[o].key # k
  BY DEF Commit, OrderKeyTaken
<1>6. ASSUME NEW S \in SUBSET Order, KindOf(r) # "submit", Charge(k, body, S)
      PROVE  /\ bills'[k] # None /\ bills'[k].orders = S
             /\ \A j \in Key : j # k => bills'[j] = bills[j]
             /\ \A o \in Order : orders[o].bill # None =>
                   bills'[orders[o].bill] # None /\ o \in bills'[orders[o].bill].orders
  <2>1. /\ bills'[k] = [body |-> body, orders |-> S]
        /\ \A j \in Key : j # k => bills'[j] = bills[j]
    BY <1>1, <1>2, <1>6 DEF Charge
  <2>2. [body |-> body, orders |-> S] # None
    BY <1>2, BillIsNotNone
  <2>3. ASSUME NEW o \in Order, orders[o].bill # None
        PROVE  bills'[orders[o].bill] # None /\ o \in bills'[orders[o].bill].orders
    <3>1. orders[o].bill \in Key /\ bills[orders[o].bill] # None
      BY <1>1, <2>3 DEF BillListed, OrderRow
    <3>2. orders[o].bill # k
      BY <1>4, <1>6, <3>1
    <3> QED
      BY <1>1, <2>1, <2>3, <3>1, <3>2 DEF BillListed
  <2> QED
    BY <2>1, <2>2, <2>3
<1>7. ASSUME NEW o \in Order, IsFresh(o), NEW row \in OrderRow,
             row.version > 0, row.key = k, row.status # "NONE", KindOf(r) # "settle",
             orders' = [orders EXCEPT ![o] = row]
      PROVE  /\ \A p \in Order : Grown(orders[p], orders'[p])
             /\ KeysDiffer' /\ AbsentIsBlank'
             /\ \A p \in Order : p # o => orders'[p] = orders[p]
             /\ orders'[o] = row
  <2>1. orders'[o] = row /\ \A p \in Order : p # o => orders'[p] = orders[p]
    BY <1>1, <1>7
  <2>2. \A p \in Order : Grown(orders[p], orders'[p])
    BY <1>7, <2>1, FreshGrows DEF Grown
  <2>3. KeysDiffer'
    BY <1>1, <1>5, <1>7, <2>1 DEF KeysDiffer
  <2>4. AbsentIsBlank'
    BY <1>1, <1>7, <2>1 DEF AbsentIsBlank
  <2> QED
    BY <2>1, <2>2, <2>3, <2>4
<1>8. CASE KindOf(r) = "settle" /\ Charge(k, body, Claimed(r))
           /\ orders' = [o \in Order |-> IF o \in Claimed(r)
                                         THEN recordPayment(orders[o], k) ELSE orders[o]]
  <2>1. /\ Claimed(r) \subseteq Order
        /\ \A o \in Claimed(r) : orders[o].bill = None /\ orders[o].status # "NONE"
    BY <1>1, <1>8, ClaimUnbilled
  <2>2. ASSUME NEW o \in Order
        PROVE  /\ Grown(orders[o], orders'[o]) /\ orders'[o].key = orders[o].key
               /\ o \in Claimed(r) => orders'[o].bill = k /\ orders'[o].status # "NONE"
               /\ o \notin Claimed(r) => orders'[o] = orders[o]
    <3>1. CASE o \in Claimed(r)
      <4>1. orders'[o] = recordPayment(orders[o], k) /\ orders[o] \in OrderRow
        BY <1>1, <1>8, <3>1
      <4> QED
        BY <1>2, <2>1, <3>1, <4>1, PaymentGrows, PaymentRow
    <3>2. CASE o \notin Claimed(r)
      BY <1>8, <3>2 DEF Grown
    <3> QED
      BY <3>1, <3>2
  <2>3. KeysDiffer'
    BY <1>1, <2>2 DEF KeysDiffer
  <2>4. AbsentIsBlank'
    BY <1>1, <2>2 DEF AbsentIsBlank
  <2>5. BillListed'
    <3>1. /\ bills'[k] # None /\ bills'[k].orders = Claimed(r)
          /\ \A o \in Order : orders[o].bill # None =>
                bills'[orders[o].bill] # None /\ o \in bills'[orders[o].bill].orders
      BY <1>6, <1>8, <2>1
    <3> QED
      BY <2>2, <3>1 DEF BillListed
  <2> QED
    BY <2>2, <2>3, <2>4, <2>5
<1>9. ASSUME NEW o \in Order, IsFresh(o), KindOf(r) = "checkout", Charge(k, body, {o}),
             orders' = [orders EXCEPT ![o] = recordPayment(confirmed, k)]
      PROVE  /\ \A p \in Order : Grown(orders[p], orders'[p])
             /\ KeysDiffer' /\ BillListed' /\ AbsentIsBlank'
  <2> DEFINE row == recordPayment(confirmed, k)
  <2>1. row \in OrderRow /\ row.bill = k /\ row.status # "NONE" /\ row.key = k /\ row.version > 0
    <3>1. /\ recordPayment(confirmed, k) \in OrderRow
          /\ recordPayment(confirmed, k).bill = k
          /\ recordPayment(confirmed, k).status # "NONE"
      <4> HIDE DEF confirmed
      <4> QED
        BY <1>2, <1>3, PaymentRow
    <3>2. row.key = k /\ row.version = 3
      BY DEF recordPayment
    <3> QED
      BY <3>1, <3>2
  <2> HIDE DEF row
  <2>2. orders' = [orders EXCEPT ![o] = row]
    BY <1>9 DEF row
  <2>3. /\ \A p \in Order : Grown(orders[p], orders'[p])
        /\ KeysDiffer' /\ AbsentIsBlank'
        /\ \A p \in Order : p # o => orders'[p] = orders[p]
        /\ orders'[o] = row
    BY <1>7, <1>9, <2>1, <2>2
  <2>4. /\ bills'[k] # None /\ bills'[k].orders = {o}
        /\ \A p \in Order : orders[p].bill # None =>
              bills'[orders[p].bill] # None /\ p \in bills'[orders[p].bill].orders
    BY <1>6, <1>9
  <2>5. BillListed'
    BY <2>1, <2>3, <2>4 DEF BillListed
  <2> QED
    BY <2>3, <2>5
<1>10. ASSUME NEW o \in Order, IsFresh(o), KindOf(r) = "submit", bills' = bills,
              orders' = [orders EXCEPT ![o] = confirmed]
       PROVE  /\ \A p \in Order : Grown(orders[p], orders'[p])
              /\ KeysDiffer' /\ BillListed' /\ AbsentIsBlank'
  <2> HIDE DEF confirmed
  <2>1. /\ \A p \in Order : Grown(orders[p], orders'[p])
        /\ KeysDiffer' /\ AbsentIsBlank'
        /\ \A p \in Order : p # o => orders'[p] = orders[p]
        /\ orders'[o] = confirmed
    BY <1>3, <1>7, <1>10
  <2>2. BillListed'
    BY <1>1, <1>3, <1>10, <2>1 DEF BillListed
  <2> QED
    BY <2>1, <2>2
<1>11. CASE \E o \in Order : /\ IsFresh(o) /\ KindOf(r) = "checkout" /\ Charge(k, body, {o})
                             /\ orders' = [orders EXCEPT ![o] = recordPayment(confirmed, k)]
  <2> HIDE DEF confirmed
  <2> QED
    BY <1>9, <1>11
<1>12. CASE \E o \in Order : /\ IsFresh(o) /\ KindOf(r) = "submit" /\ bills' = bills
                             /\ orders' = [orders EXCEPT ![o] = confirmed]
  <2> HIDE DEF confirmed
  <2> QED
    BY <1>10, <1>12
<1> QED
  BY <1>8, <1>11, <1>12 DEF Commit, KindOf

LEMMA CommitGrows ==
  ASSUME Inv2, NEW r \in Request, Commit(r)
  PROVE  TablesGrow
<1>1. /\ orders' \in [Order -> OrderRow]
      /\ \/ bills' = bills
         \/ /\ bills[req[r].key] = None
            /\ \E S \in SUBSET Order :
                  bills' = [bills EXCEPT ![req[r].key] = [body |-> req[r].body, orders |-> S]]
  BY CommitEffect DEF Inv2
<1>2. bills \in [Key -> BillSale \cup {None}]
  BY DEF Inv2, IInv, TypeOK
<1>3. \A k \in Key : bills[k] # None => bills'[k] = bills[k]
  BY <1>1, <1>2
<1> QED
  BY <1>1, <1>3, CommitRows DEF TablesGrow

\* The commit that charges the key and body of q made all of its checks on
\* rows that are still there.
LEMMA CommitCharges ==
  ASSUME Inv2, NEW r \in Request, Commit(r),
         NEW q \in Request, Sent(q), req'[q] = req[q]
  PROVE  NewlyCharged(q)
<1> SUFFICES ASSUME KindOf(q) = "settle", ~Charged(q),
                    bills'[req[q].key] # None, bills'[req[q].key].body = req[q].body
             PROVE  /\ \A o \in Claimed(q) : Chargeable(orders, o, Version(q, o))
                    /\ Claimed(q) \cap TableOrder # {} =>
                          Claimed(q) = TableOrder /\ \A o \in TableOrder : orders[o].bill = None
  BY DEF NewlyCharged, Charged
<1>1. /\ IInv /\ BillListed /\ SnapshotGrew(r) /\ WellAsked(r) /\ WellAsked(q) /\ Accepted(r)
      /\ Sent(r) /\ req[r].pc = "body" /\ ~Outdated(r) /\ bills \in [Key -> BillSale \cup {None}]
  BY DEF Inv2, IInv, TypeOK, HandlerOK, Believes, Commit, Accepted, Ready, Sent
<1>2. req[q].key \in Key /\ req[r].key \in Key
  BY <1>1 DEF WellAsked
<1>3. req[q].body = req[r].body
  <2>1. CASE bills' = bills
    BY <2>1 DEF Charged
  <2>2. ASSUME NEW S \in SUBSET Order,
               bills' = [bills EXCEPT ![req[r].key] = [body |-> req[r].body, orders |-> S]]
        PROVE  req[q].body = req[r].body
    <3>1. CASE req[q].key # req[r].key
      BY <1>1, <1>2, <2>2, <3>1 DEF Charged
    <3>2. CASE req[q].key = req[r].key
      BY <1>1, <1>2, <2>2, <3>2
    <3> QED
      BY <3>1, <3>2
  <2> QED
    BY <1>1, <2>1, <2>2, CommitEffect
<1>4. /\ KindOf(r) = "settle" /\ Claimed(r) = Claimed(q)
      /\ \A o : Version(r, o) = Version(q, o)
  BY <1>3 DEF KindOf, Claimed, Version
<1>5. \A o \in Claimed(r) : orders[o] = Seen(r).orders[o]
  BY <1>1 DEF Outdated
<1>6. VersionsMatch(r) /\ Payable(r) /\ WholeTable(r)
  BY <1>1, <1>4 DEF Accepted
<1>7. \A o \in Claimed(q) : Chargeable(orders, o, Version(q, o))
  BY <1>4, <1>5, <1>6 DEF VersionsMatch, Payable, Chargeable, Version
<1>8. ASSUME Claimed(q) \cap TableOrder # {}
      PROVE  Claimed(q) = TableOrder /\ \A o \in TableOrder : orders[o].bill = None
  <2>1. ASSUME NEW o \in TableOrder, orders[o].bill # None PROVE FALSE
    <3>1. o \in Order /\ orders[o].bill \in Key
      BY <1>1, <2>1, PaymentAssumption DEF IInv, TypeOK, OrderRow
    <3>2. bills[orders[o].bill] # None /\ o \in bills[orders[o].bill].orders
      BY <1>1, <2>1, <3>1 DEF BillListed
    <3>3. SessionBilled(r)
      BY <1>4, <1>8, <2>1, <3>1, <3>2 DEF SessionBilled
    <3> QED
      BY <3>3 DEF Commit
  <2>2. \A o \in TableOrder : Seen(r).orders[o].bill = None
    BY <1>1, <2>1, PaymentAssumption DEF SnapshotGrew, Grown
  <2>3. Claimed(q) = TableOrder
    BY <1>4, <1>6, <1>8, <2>2 DEF WholeTable
  <2> QED
    BY <2>1, <2>3
<1> QED
  BY <1>7, <1>8

\* A handler that was not asked anything yet has nothing to be refuted.
LEMMA IdleBelieves ==
  ASSUME IInv, IInv', NEW q \in Request, ~Sent(q), req'[q] = req[q]
  PROVE  Believes(q)'
<1>1. req'[q].pc = "idle" /\ NotAnsweredYet(q)'
  BY DEF Sent, IInv, HandlerOK
<1>2. req'[q].answer = None
  BY <1>1 DEF NotAnsweredYet
<1> QED
  BY <1>1, <1>2, NoneIsNoRefusal DEF Believes, ClaimsSeen, SnapshotGrew, ChargedMeanwhile,
                                     DuplicateFound, Final, Sent

LEMMA CommitInv2 ==
  ASSUME Inv2, IInv', NEW r \in Request, Commit(r)
  PROVE  Inv2'
<1>1. /\ req[r] \in HandlerState /\ req \in [Request -> HandlerState] /\ Sent(r)
      /\ HandlerOK(r) /\ Believes(r) /\ req[r].pc = "body"
      /\ orders \in [Order -> OrderRow]
  BY DEF Inv2, IInv, TypeOK, Commit, Accepted, Ready, Sent
<1>2. /\ \A q \in Request : q # r => req'[q] = req[q]
      /\ req'[r].pc = "committed" /\ req'[r].answer = req[r].answer
      /\ req'[r].key = req[r].key /\ req'[r].body = req[r].body
  BY <1>1 DEF Commit, HandlerState
<1>3. TablesGrow
  BY CommitGrows
<1>4. ASSUME NEW q \in Request, q # r PROVE Believes(q)'
  <2>1. CASE Sent(q)
    BY <1>2, <1>3, <1>4, <2>1, CommitCharges, GrowthBelieves
  <2>2. CASE ~Sent(q)
    BY <1>2, <1>4, <2>2, IdleBelieves DEF Inv2
  <2> QED
    BY <2>1, <2>2
<1>5. Believes(r)'
  <2>1. req'[r].answer = None
    BY <1>1, <1>2 DEF HandlerOK, NotAnsweredYet
  <2>2. ClaimsSeen(r)'
    <3> SUFFICES ASSUME KindOf(r) = "settle", NEW o \in Claimed(r)
                 PROVE  Version(r, o) <= orders'[o].version
      BY <1>1, <1>2 DEF Believes, ClaimsSeen, KindOf, Claimed, Version, Sent
    <3>1. o \in Order /\ Version(r, o) \in Nat
      BY <1>1, ClaimTypes DEF Inv2
    <3>2. Version(r, o) <= orders[o].version /\ Grown(orders[o], orders'[o])
      BY <1>1, <1>3, <3>1 DEF Believes, ClaimsSeen, TablesGrow
    <3>3. orders[o].version \in Nat /\ orders'[o].version \in Nat
      BY <1>1, <1>3, <3>1 DEF TablesGrow, OrderRow
    <3> QED
      BY <3>1, <3>2, <3>3 DEF Grown
  <2> QED
    BY <1>2, <2>1, <2>2, NoneIsNoRefusal DEF Believes, SnapshotGrew, ChargedMeanwhile,
                                             DuplicateFound, Final
<1> QED
  BY <1>4, <1>5, CommitRows DEF Inv2

LEMMA ServeInv2 ==
  ASSUME Inv2, IInv', NEW o \in Order, Serve(o)
  PROVE  Inv2'
<1>1. /\ orders \in [Order -> OrderRow] /\ orders' \in [Order -> OrderRow]
      /\ KeysDiffer /\ BillListed /\ AbsentIsBlank
      /\ bills' = bills /\ req' = req
  BY DEF Inv2, IInv, TypeOK, Serve
<1>2. orders[o].version + 1 \in Nat /\ orders[o].version + 2 \in Nat /\ orders[o] \in OrderRow
  BY <1>1 DEF OrderRow
<1>3. PICK st \in {"SERVED", "COMPLETED"}, v \in Nat :
         /\ v > orders[o].version
         /\ orders' = [orders EXCEPT ![o] = [orders[o] EXCEPT !.status = st, !.version = v]]
  <2>1. CASE orders[o].bill = None
    <3>1. /\ orders[o].version + 1 > orders[o].version
          /\ orders' = [orders EXCEPT ![o] = [orders[o] EXCEPT
                          !.status = "SERVED", !.version = orders[o].version + 1]]
      BY <1>1, <1>2, <2>1 DEF Serve, OrderRow
    <3> QED
      BY <1>2, <3>1
  <2>2. CASE orders[o].bill # None
    <3>1. /\ orders[o].version + 2 > orders[o].version
          /\ orders' = [orders EXCEPT ![o] = [orders[o] EXCEPT
                          !.status = "COMPLETED", !.version = orders[o].version + 2]]
      BY <1>1, <1>2, <2>2 DEF Serve, OrderRow
    <3> QED
      BY <1>2, <3>1
  <2> QED
    BY <2>1, <2>2
<1>4. ASSUME NEW p \in Order
      PROVE  /\ Grown(orders[p], orders'[p])
             /\ orders'[p].key = orders[p].key /\ orders'[p].bill = orders[p].bill
             /\ orders'[p].status = "NONE" => orders'[p] = orders[p]
  <2>1. CASE p = o
    <3>1. orders'[o] = [orders[o] EXCEPT !.status = st, !.version = v]
      BY <1>1, <1>3
    <3>2. /\ orders'[o].version = v /\ orders'[o].status = st
          /\ orders'[o].key = orders[o].key /\ orders'[o].bill = orders[o].bill
          /\ orders'[o].intent = orders[o].intent
      BY <1>2, <3>1 DEF OrderRow
    <3> QED
      BY <1>3, <2>1, <3>2 DEF Grown
  <2>2. CASE p # o
    BY <1>1, <1>3, <2>2 DEF Grown
  <2> QED
    BY <2>1, <2>2
<1>5. TablesGrow
  BY <1>1, <1>4 DEF TablesGrow
<1>6. \A q \in Request : NewlyCharged(q)
  BY <1>1 DEF NewlyCharged, Charged
<1>7. \A q \in Request : Believes(q)'
  BY <1>1, <1>5, <1>6, GrowthBelieves
<1>8. KeysDiffer' /\ BillListed' /\ AbsentIsBlank'
  BY <1>1, <1>4 DEF KeysDiffer, BillListed, AbsentIsBlank
<1> QED
  BY <1>7, <1>8 DEF Inv2

-----------------------------------------------------------------------------
(* The invariant, and what it says of keys and refusals.                   *)

LEMMA InitInv2 == Init => Inv2
<1> SUFFICES ASSUME Init PROVE Inv2
  OBVIOUS
<1>1. IInv
  BY InitInv
<1>2. \A o \in Order : orders[o].key = None /\ orders[o].bill = None
  BY DEF Init, NoOrder
<1>3. \A o \in Order : orders[o].status = "NONE" => orders[o] = NoOrder
  BY DEF Init, NoOrder
<1>4. \A r \in Request : Believes(r)
  BY NoneIsNoRefusal DEF Init, Idle, Believes, ClaimsSeen, Sent, SnapshotGrew,
                         ChargedMeanwhile, DuplicateFound, Final
<1> QED
  BY <1>1, <1>2, <1>3, <1>4 DEF Inv2, KeysDiffer, BillListed, AbsentIsBlank

LEMMA NextInv2 == Inv2 /\ [Next]_vars => Inv2'
<1> SUFFICES ASSUME Inv2, [Next]_vars PROVE Inv2'
  OBVIOUS
<1>1. IInv'
  BY NextInv DEF Inv2
<1>2. CASE \E r \in Request, k \in Key, kind \in Kind, claim \in Claims, i \in Intent \cup {None} :
              Send(r, k, kind, claim, i)
  BY <1>1, <1>2, SendInv2
<1>3. ASSUME NEW r \in Request, Handle(r) \/ Abort(r) \/ Lose(r) PROVE Inv2'
  BY <1>1, <1>3, ReplayInv2, BeginInv2, LockInv2, RefuseInv2, CaughtInv2, CommitInv2,
     OnConflictInv2, OnDuplicateInv2, LeaveInv2 DEF Handle
<1>4. CASE \E o \in Order : Serve(o)
  BY <1>1, <1>4, ServeInv2
<1>5. CASE UNCHANGED vars
  <2>1. orders' = orders /\ bills' = bills /\ req' = req
    BY <1>5 DEF vars
  <2>2. KeysDiffer' /\ BillListed' /\ AbsentIsBlank'
    BY <2>1 DEF Inv2, KeysDiffer, BillListed, AbsentIsBlank
  <2> QED
    BY <1>1, <2>1, <2>2, OthersBelieve DEF Inv2
<1> QED
  BY <1>2, <1>3, <1>4, <1>5 DEF Next

THEOREM Invariance2 == Spec => []Inv2
<1> QED
  BY InitInv2, NextInv2, PTL DEF Spec

\* However often a submission or a checkout is sent, its key makes one order.
THEOREM OneOrder == Spec => []OneOrderPerKey
<1>1. Inv2 => OneOrderPerKey
  <2> SUFFICES ASSUME Inv2, NEW k \in Key
               PROVE  Cardinality({o \in Order : orders[o].key = k}) <= 1
    BY DEF OneOrderPerKey
  <2> DEFINE S == {o \in Order : orders[o].key = k}
  <2>1. \A o, p \in S : o = p
    BY PaymentAssumption DEF Inv2, KeysDiffer
  <2>2. S = {} \/ \E o : S = {o}
    BY <2>1
  <2>3. Cardinality(S) \in {0, 1}
    BY <2>2, FS_EmptySet, FS_Singleton
  <2> QED
    BY <2>3
<1> QED
  BY <1>1, Invariance2, PTL

\* A stale version, an unpayable order and a reused key are final answers: no
\* attempt with that key and body charges or creates anything any more.
THEOREM RefusalsAreFinal == Spec => []RefusalIsFinal
<1>1. Inv2 => RefusalIsFinal
  <2> SUFFICES ASSUME Inv2, NEW r \in Request,
                      req[r].answer \in {"STALE_VERSION", "ORDER_NOT_PAYABLE", "KEY_REUSED"}
               PROVE  ~CarriedOut(r)
    BY DEF RefusalIsFinal
  <2>1. Refuted(r) \/ Reused(r)
    BY DEF Inv2, Believes, Final
  <2> QED
    BY <2>1, ReusedIsOther, NotCharged DEF Refuted
<1> QED
  BY <1>1, Invariance2, PTL

-----------------------------------------------------------------------------
(* The moment of a refusal.                                                *)

Told == {"STALE_VERSION", "ORDER_NOT_PAYABLE", "CONFLICT",
         "PARTIAL_SETTLEMENT_FORBIDDEN", "KEY_REUSED"}

LEMMA AnswerTold ==
  ASSUME IInv, NEW r \in Request, NEW a, Answer(r, a)
  PROVE  req'[r].answer = a
BY DEF IInv, TypeOK, HandlerState, Answer

LEMMA OthersAreSilent ==
  ASSUME IInv, NEW q \in Request, Handle(q) \/ Abort(q) \/ Lose(q),
         NEW r \in Request, r # q
  PROVE  req'[r] = req[r]
<1>1. req \in [Request -> HandlerState]
  BY DEF IInv, TypeOK
<1>2. ASSUME NEW a, Answer(q, a) PROVE req'[r] = req[r]
  BY <1>1, <1>2 DEF Answer
<1>3. ASSUME NEW code, Catch(q, code) PROVE req'[r] = req[r]
  BY <1>1, <1>3 DEF Catch
<1>4. CASE Replay(q) \/ Refuse(q) \/ Respond(q) \/ OnDuplicate(q) \/ Lose(q)
  BY <1>1, <1>2, <1>4 DEF Replay, Refuse, Respond, OnDuplicate, Lose, Goto
<1>5. CASE Duplicate(q) \/ Conflict(q) \/ Abort(q)
  BY <1>3, <1>5 DEF Duplicate, Conflict, Abort
<1>6. CASE OnConflict(q)
  BY <1>1, <1>2, <1>6 DEF OnConflict
<1>7. CASE Begin(q) \/ Lock(q) \/ Commit(q)
  BY <1>1, <1>7 DEF Begin, Lock, Commit
<1> QED
  BY <1>4, <1>5, <1>6, <1>7 DEF Handle

LEMMA SendIsSilent ==
  ASSUME IInv, NEW q \in Request, NEW k \in Key, NEW kind \in Kind,
         NEW claim \in Claims, NEW i \in Intent \cup {None}, Send(q, k, kind, claim, i),
         NEW r \in Request, req[r].answer = None
  PROVE  req'[r].answer = None
BY DEF IInv, TypeOK, Send, Asked

\* One lemma for the answers of the checks, one for those of the error handlers.
LEMMA RefuseTrue ==
  ASSUME Inv2, NEW r \in Request, Refuse(r), req'[r].answer \in Told
  PROVE  ~CarriedOut(r)
<1>1. IInv /\ Believes(r) /\ req[r].pc = "body"
  BY DEF Inv2, Refuse, Ready
<1>2. CASE Answer(r, Success(r)) \/ Answer(r, "QUOTE_CHANGED")
  BY <1>1, <1>2, AnswerTold DEF Success, Told
<1>3. CASE Earlier(r, Seen(r)) = "other"
  BY <1>1, <1>3, ReusedSince, ReusedIsOther
<1>4. CASE /\ KindOf(r) = "settle" /\ Earlier(r, Seen(r)) = "absent"
           /\ ~(VersionsMatch(r) /\ Payable(r) /\ WholeTable(r))
  <2>1. Seen(r).bills[req[r].key] = None
    BY <1>4 DEF Earlier, existingSettlement
  <2>2. ~Charged(r)
    BY <1>1, <1>4, <2>1 DEF Believes, ChargedMeanwhile, VersionsMatch, Payable, Chargeable, Version
  <2> QED
    BY <1>4, <2>2, NotCharged
<1> QED
  BY <1>2, <1>3, <1>4 DEF Refuse

LEMMA HandlersTellTruth ==
  ASSUME Inv2, NEW r \in Request, Replay(r) \/ OnConflict(r) \/ OnDuplicate(r),
         req[r].answer = None, req'[r].answer \in Told
  PROVE  ~CarriedOut(r)
<1> SUFFICES ASSUME CarriedOut(r) PROVE FALSE
  OBVIOUS
<1>1. IInv /\ Earlier(r, Db) = "same" /\ req \in [Request -> HandlerState]
  BY DEF Inv2, IInv, TypeOK, CarriedOut
<1>2. CASE \E a \in {Success(r), "error"} : Answer(r, a)
  BY <1>1, <1>2, AnswerTold DEF Success, Told
<1>3. CASE \E pc \in {"replay", "begin"} : req' = [req EXCEPT ![r].pc = pc, ![r].attempt = @ + 1]
  <2>1. req'[r].answer = None
    BY <1>1, <1>3 DEF HandlerState
  <2> QED
    BY <2>1, NoneIsNoRefusal DEF Told
<1> QED
  BY <1>1, <1>2, <1>3 DEF Replay, OnConflict, OnDuplicate

LEMMA OtherStepsSilent ==
  ASSUME IInv, NEW r \in Request, req[r].answer = None,
         \/ Begin(r) \/ Lock(r) \/ Commit(r) \/ Duplicate(r) \/ Conflict(r)
         \/ Abort(r) \/ Respond(r) \/ Lose(r)
  PROVE  req'[r].answer \notin Told
<1>1. req \in [Request -> HandlerState] /\ req[r] \in HandlerState
  BY DEF IInv, TypeOK
<1>2. CASE Respond(r) \/ Lose(r)
  BY <1>2, AnswerTold DEF Respond, Lose, Success, Told
<1>3. CASE Begin(r) \/ Lock(r) \/ Commit(r)
  <2>1. req'[r].answer = None
    BY <1>1, <1>3 DEF Begin, Lock, Commit, HandlerState
  <2> QED
    BY <2>1, NoneIsNoRefusal DEF Told
<1>4. CASE Duplicate(r) \/ Conflict(r) \/ Abort(r)
  <2>1. req'[r].answer = None
    BY <1>1, <1>4 DEF Duplicate, Conflict, Abort, Catch, HandlerState
  <2> QED
    BY <2>1, NoneIsNoRefusal DEF Told
<1> QED
  BY <1>2, <1>3, <1>4

LEMMA TruthStep ==
  ASSUME Inv2, [Next]_vars, NEW r \in Request,
         req[r].answer = None, req'[r].answer \in Told
  PROVE  ~CarriedOut(r)
<1>1. None \notin Told /\ IInv
  BY NoneIsNoRefusal DEF Told, Inv2
<1>2. ~ \E q \in Request, k \in Key, kind \in Kind, claim \in Claims, i \in Intent \cup {None} :
           Send(q, k, kind, claim, i)
  BY <1>1, SendIsSilent
<1>3. req' # req
  BY <1>1
<1>4. PICK q \in Request : Handle(q) \/ Abort(q) \/ Lose(q)
  BY <1>2, <1>3 DEF Next, vars, Serve
<1>5. q = r
  BY <1>1, <1>4, OthersAreSilent
<1> QED
  BY <1>1, <1>4, <1>5, RefuseTrue, HandlersTellTruth, OtherStepsSilent DEF Handle

\* Nobody is turned away for what his key has done: whoever refuses, by a check
\* on his snapshot or after an error, nothing of that key and body is committed.
THEOREM RefusalsAreTrue == Spec => RefusalIsTrue
<1> DEFINE Truth == \A r \in Request :
        /\ req[r].answer = None
        /\ req'[r].answer \in {"STALE_VERSION", "ORDER_NOT_PAYABLE", "CONFLICT",
                               "PARTIAL_SETTLEMENT_FORBIDDEN", "KEY_REUSED"}
        => ~CarriedOut(r)
<1>1. Inv2 /\ [Next]_vars => [Truth]_vars
  BY TruthStep DEF Told
<1> HIDE DEF Truth
<1>2. Spec => [][Truth]_vars
  BY <1>1, Invariance2, PTL DEF Spec
<1> QED
  BY <1>2 DEF RefusalIsTrue, Truth
=============================================================================
