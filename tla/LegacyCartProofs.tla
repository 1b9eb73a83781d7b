--------------------------- MODULE LegacyCartProofs ---------------------------
(***************************************************************************)
(* Proofs about LegacyCart.  A checkout works on a snapshot; the argument  *)
(* is that one which no write has made stale still sees the cart as it is, *)
(* and that every unit ever charged or in the cart has an id that was      *)
(* given out, so an id given out later belongs to neither.                 *)
(***************************************************************************)
EXTENDS LegacyCart, FiniteSetTheorems, TLAPS

\* The delete of a detail that has not committed holds the lock of its row.
Deleting(r) == req[r].pc = "write" /\ req[r].op = "removeDetail"

UnitsKnown ==
  /\ \A u \in DOMAIN details : u <= serial.unit
  /\ \A k \in Key : \A u \in Charged(k) : u <= serial.unit

BillsCovered ==
  \A k \in Key :
     bills[k] # None =>
        /\ bills[k].pay \in Payment
        /\ bills[k].pay.payType = "cash" => bills[k].pay.inputMoney >= bills[k].amount

WellFormed(r) ==
  /\ req[r].pc \in {"begin", "body", "committed", "P2034", "P2002"} \/ req[r].answer = "paid"
        => req[r].key \in Key /\ req[r].pay \in Payment
  /\ req[r].pc = "write" => req[r].op \in {"create", "sync", "removeDetail"}
  /\ req[r].pc = "body" => req[r].snap \in Snapshot

LockHeld(r) ==
  Deleting(r) => req[r].unit \in DOMAIN details /\ UnitsFree(r, {req[r].unit})

\* The bills of a snapshot are there for good; its cart is, until a row is written.
SnapshotHolds(r) ==
  req[r].pc = "body" =>
     /\ \A k \in Key : req[r].snap.bills[k] # None => bills[k] = req[r].snap.bills[k]
     /\ r \notin stale => req[r].snap.cart = cart /\ req[r].snap.details = details

\* A checkout that has charged, or says so, has its bill.
Billed(r) ==
  req[r].pc = "committed" \/ req[r].answer = "paid" =>
     bills[req[r].key] # None /\ bills[req[r].key].pay = req[r].pay

HandlerOK(r) == WellFormed(r) /\ LockHeld(r) /\ SnapshotHolds(r) /\ Billed(r)

RowsOK == TypeOK /\ UnitsKnown /\ UnitsChargedOnce /\ BillsCovered

IInv == RowsOK /\ \A r \in Request : HandlerOK(r)

-----------------------------------------------------------------------------
(* Lemmas about numbers, selections and handler states.                    *)

LEMMA Counts ==
  ASSUME NEW S \in SUBSET Unit
  PROVE  IsFiniteSet(S) /\ Cardinality(S) \in Nat
<1>1. IsFiniteSet(Unit)
  BY CartAssumption, FS_Interval DEF Unit
<1> QED BY <1>1, FS_Subset, FS_CardinalityType

LEMMA HighestIs ==
  ASSUME NEW S \in SUBSET Nat, NEW m \in S, \A n \in S : m >= n
  PROVE  Highest(S) = m
<1>1. Max(S) \in S /\ \A n \in S : Max(S) >= n
  BY DEF Max
<1>2. Max(S) \in Nat /\ m \in Nat /\ Max(S) >= m /\ m >= Max(S)
  BY <1>1
<1>3. Max(S) = m
  BY <1>2
<1> QED BY <1>3 DEF Highest

LEMMA SelectionIs ==
  /\ \A S \in SUBSET Unit : \A f \in [S -> Size] : f \in Selection
  /\ \A f \in Selection : DOMAIN f \subseteq Unit /\ f \in [DOMAIN f -> Size]
BY DEF Selection

LEMMA EmptyIs == Empty \in Selection /\ DOMAIN Empty = {}
<1>1. Empty \in [{} -> Size] /\ DOMAIN Empty = {}
  BY DEF Empty
<1> QED BY <1>1, SelectionIs

\* A selection of nothing is the empty one.
LEMMA NothingLeft ==
  ASSUME NEW S, S = {}, NEW f
  PROVE  [u \in S |-> f[u]] = Empty
BY DEF Empty

LEMMA IdleIsState == Idle \in HandlerState /\ Idle.answer # "paid"
BY NoneIsNoRow DEF Idle, HandlerState

\* What an answered request is left as.
Replies == {"success", "paid", "KEY_USED", "EMPTY", "CHANGED", "UNDERPAID", "error"}
Answered(r, a) == [req[r] EXCEPT !.pc = "done", !.snap = None, !.seen = {}, !.answer = a]

LEMMA AnswerIs ==
  ASSUME TypeOK, NEW r \in Request, NEW a \in Replies, Answer(r, a)
  PROVE  /\ req' = [req EXCEPT ![r] = Answered(r, a)]
         /\ Answered(r, a) \in HandlerState
         /\ Answered(r, a).pc = "done" /\ Answered(r, a).answer = a
         /\ Answered(r, a).key = req[r].key /\ Answered(r, a).pay = req[r].pay
<1>1. req[r] \in HandlerState
  BY DEF TypeOK
<1>2. req' = [req EXCEPT ![r] = Answered(r, a)]
  BY <1>1 DEF Answer, Answered, TypeOK
<1>3. Answered(r, a) \in HandlerState
  BY <1>1 DEF Answered, HandlerState, Replies
<1>4. /\ Answered(r, a).pc = "done" /\ Answered(r, a).answer = a
      /\ Answered(r, a).key = req[r].key /\ Answered(r, a).pay = req[r].pay
  BY <1>1 DEF Answered, HandlerState
<1> QED BY <1>2, <1>3, <1>4

-----------------------------------------------------------------------------
(* A step that leaves the rows alone and moves one handler.                *)

LEMMA QuietStep ==
  ASSUME IInv, UNCHANGED <<cart, details, serial, bills>>,
         NEW r \in Request, NEW s \in HandlerState, req' = [req EXCEPT ![r] = s],
         stale' = stale \/ stale' = stale \ {r}, HandlerOK(r)'
  PROVE  IInv'
<1>1. req' \in [Request -> HandlerState] /\ \A q \in Request \ {r} : req'[q] = req[q]
  BY DEF IInv, RowsOK, TypeOK
<1>2. RowsOK'
  <2>1. TypeOK'
    BY <1>1 DEF IInv, RowsOK, TypeOK
  <2> QED
    BY <2>1 DEF IInv, RowsOK, UnitsKnown, UnitsChargedOnce, BillsCovered, Charged
<1>3. ASSUME NEW q \in Request \ {r} PROVE HandlerOK(q)'
  <2>1. HandlerOK(q) /\ req'[q] = req[q] /\ (q \in stale' <=> q \in stale)
    BY <1>1, <1>3 DEF IInv
  <2>2. WellFormed(q)' /\ SnapshotHolds(q)' /\ Billed(q)'
    BY <2>1 DEF HandlerOK, WellFormed, SnapshotHolds, Billed
  <2>3. LockHeld(q)'
    <3>1. LockHeld(r)' /\ LockHeld(q)
      BY <2>1 DEF HandlerOK
    <3> QED BY <1>1, <2>1, <3>1 DEF LockHeld, Deleting, UnitsFree
  <2> QED BY <2>2, <2>3 DEF HandlerOK
<1> QED BY <1>2, <1>3 DEF IInv

\* A refusal or a failure says nothing of a bill.
LEMMA AnswerStep ==
  ASSUME IInv, UNCHANGED <<cart, details, serial, bills, stale>>,
         NEW r \in Request, NEW a \in Replies, Answer(r, a),
         a = "paid" => /\ req[r].key \in Key /\ req[r].pay \in Payment
                       /\ bills[req[r].key] # None /\ bills[req[r].key].pay = req[r].pay
  PROVE  IInv'
<1>1. TypeOK
  BY DEF IInv, RowsOK
<1> DEFINE s == Answered(r, a)
<1>2. /\ req' = [req EXCEPT ![r] = s] /\ s \in HandlerState /\ s.pc = "done"
      /\ s.answer = a /\ s.key = req[r].key /\ s.pay = req[r].pay
  BY <1>1, AnswerIs
<1> HIDE DEF s
<1>3. req'[r] = s
  BY <1>1, <1>2 DEF TypeOK
<1>4. HandlerOK(r)'
  BY <1>2, <1>3 DEF HandlerOK, WellFormed, LockHeld, SnapshotHolds, Billed, Deleting
<1> QED BY <1>2, <1>4, QuietStep

-----------------------------------------------------------------------------
(* A step that writes rows: it ends its handler or, if it charges, commits *)
(* it, and keeps what the deletes under way have locked.                   *)

LocksKept(r) == \A q \in Request \ {r} : Deleting(q) => req[q].unit \in DOMAIN details'

LEMMA WriteStep ==
  ASSUME IInv, NEW r \in Request, NEW s \in HandlerState, req' = [req EXCEPT ![r] = s],
         s.pc \in {"done", "committed"},
         s.pc = "committed" \/ s.answer = "paid" =>
            /\ s.key \in Key /\ s.pay \in Payment
            /\ bills'[s.key] # None /\ bills'[s.key].pay = s.pay,
         RowsOK', \A k \in Key : bills[k] # None => bills'[k] = bills[k],
         LocksKept(r), Touch
  PROVE  IInv'
<1>1. req \in [Request -> HandlerState]
  BY DEF IInv, RowsOK, TypeOK
<1>2. req'[r] = s /\ \A q \in Request \ {r} : req'[q] = req[q]
  BY <1>1
<1>3. HandlerOK(r)'
  BY <1>2 DEF HandlerOK, WellFormed, LockHeld, SnapshotHolds, Billed, Deleting
<1>4. ASSUME NEW q \in Request \ {r} PROVE HandlerOK(q)'
  <2>1. HandlerOK(q) /\ req'[q] = req[q]
    BY <1>2, <1>4 DEF IInv
  <2>2. WellFormed(q)'
    BY <2>1 DEF HandlerOK, WellFormed
  <2>3. Billed(q)'
    BY <2>1 DEF HandlerOK, WellFormed, Billed
  <2>4. SnapshotHolds(q)'
    BY <2>1 DEF HandlerOK, SnapshotHolds, Touch
  <2>5. LockHeld(q)'
    BY <1>2, <2>1 DEF HandlerOK, LockHeld, LocksKept, Deleting, UnitsFree
  <2> QED BY <2>2, <2>3, <2>4, <2>5 DEF HandlerOK
<1> QED BY <1>3, <1>4 DEF IInv

\* A handler of the cart answers and leaves the bills alone.
LEMMA CartStep ==
  ASSUME IInv, NEW r \in Request, Answer(r, "success"), UNCHANGED bills, RowsOK',
         LocksKept(r), Touch
  PROVE  IInv'
<1> DEFINE s == Answered(r, "success")
<1>1. /\ req' = [req EXCEPT ![r] = s] /\ s \in HandlerState /\ s.pc = "done"
      /\ s.answer = "success"
  BY AnswerIs DEF IInv, RowsOK, Replies
<1> HIDE DEF s
<1> QED BY <1>1, WriteStep

\* The rows stay right if only details, with known and uncharged ids, are replaced.
LEMMA CartRows ==
  ASSUME IInv, NEW r \in Request, Answer(r, "success"), UNCHANGED bills, Touch,
         cart' \in SaleTemp \cup {None}, details' \in Selection,
         cart' = None => details' = Empty,
         serial' \in [cart : Nat, unit : Unit \cup {0}], serial.unit <= serial'.unit,
         \A u \in DOMAIN details' :
            u \in DOMAIN details \/ (u > serial.unit /\ u <= serial'.unit)
  PROVE  RowsOK'
<1>1. TypeOK'
  <2>1. req' \in [Request -> HandlerState]
    BY AnswerIs DEF IInv, RowsOK, TypeOK, Replies
  <2> QED BY <2>1 DEF IInv, RowsOK, TypeOK, Touch
<1>2. serial.unit \in Nat /\ serial'.unit \in Nat
  BY DEF IInv, RowsOK, TypeOK, Unit
<1>3. \A k \in Key : Charged(k)' = Charged(k) /\ Charged(k) \subseteq Nat
  <2>1. \A k \in Key : bills[k] # None => bills[k].lines \in Selection
    BY DEF IInv, RowsOK, TypeOK, BillSale
  <2> QED BY <2>1, SelectionIs DEF Charged, Unit
<1>4. DOMAIN details' \subseteq Nat
  BY SelectionIs DEF Unit
<1>5. UnitsKnown'
  BY <1>2, <1>3, <1>4 DEF IInv, RowsOK, UnitsKnown
<1>6. UnitsChargedOnce'
  BY <1>2, <1>3, <1>4 DEF IInv, RowsOK, UnitsKnown, UnitsChargedOnce
<1>7. BillsCovered'
  BY DEF IInv, RowsOK, BillsCovered
<1> QED BY <1>1, <1>5, <1>6, <1>7 DEF RowsOK

-----------------------------------------------------------------------------
(* The actions of the cart.                                                *)

LEMMA InitInv == Init => IInv
<1> SUFFICES ASSUME Init PROVE IInv
  OBVIOUS
<1>1. PICK n \in 0..MaxQty :
        /\ n <= MaxUnit
        /\ cart = IF n = 0 THEN None ELSE [id |-> 1, qty |-> n]
        /\ details = [u \in 1..n |-> "plain"]
        /\ serial = [cart |-> IF n = 0 THEN 0 ELSE 1, unit |-> n]
  BY DEF Init
<1>2. n \in Nat /\ n \in Unit \cup {0} /\ 1..n \subseteq Unit
  BY <1>1, CartAssumption DEF Unit
<1>3. details \in Selection /\ DOMAIN details = 1..n
  BY <1>1, <1>2, SelectionIs DEF Size
<1>4. cart \in SaleTemp \cup {None} /\ (cart = None => details = Empty)
  BY <1>1, <1>2, NoneIsNoRow DEF SaleTemp, Empty
<1>5. \A r \in Request : req[r] = Idle
  BY DEF Init
<1>6. TypeOK
  BY <1>1, <1>2, <1>3, <1>4, <1>5, IdleIsState DEF Init, TypeOK
<1>7. \A k \in Key : bills[k] = None /\ Charged(k) = {}
  BY DEF Init, Charged
<1>8. UnitsKnown /\ UnitsChargedOnce /\ BillsCovered
  BY <1>1, <1>2, <1>3, <1>7 DEF UnitsKnown, UnitsChargedOnce, BillsCovered
<1>9. \A r \in Request : HandlerOK(r)
  BY <1>5, NoneIsNoRow
  DEF Idle, HandlerOK, WellFormed, LockHeld, SnapshotHolds, Billed, Deleting
<1> QED BY <1>6, <1>8, <1>9 DEF IInv, RowsOK

\* How a handler may start: as a checkout with its key and payment, or as a handler of
\* the cart, a new quantity being asked for or that of the cart.
Arrived(s) ==
  /\ s \in HandlerState /\ s.answer = None
  /\ \/ s.pc = "begin" /\ s.op = "endSale" /\ s.key \in Key /\ s.pay \in Payment
     \/ /\ s.pc = "tx" /\ s.op # "endSale"
        /\ s.op = "sync" => s.qty > 0 \/ (cart # None /\ s.qty = cart.qty)

\* Every call but those that set a quantity starts a handler like that.
LEMMA Starts ==
  /\ \A op \in {"create", "removeAll"} : Arrived([Idle EXCEPT !.pc = "tx", !.op = op])
  /\ \A op \in {"removeDetail", "selectSize"}, u \in Unit :
        Arrived([Idle EXCEPT !.pc = "tx", !.op = op, !.unit = u])
  /\ \A id \in Nat : Arrived([Idle EXCEPT !.pc = "tx", !.op = "remove", !.cart = id])
  /\ \A k \in Key, p \in Payment :
        Arrived([Idle EXCEPT !.pc = "begin", !.op = "endSale", !.key = k, !.pay = p])
<1>1. Idle \in HandlerState /\ Idle.answer = None
  BY IdleIsState DEF Idle
<1>2. ASSUME NEW op \in {"create", "removeAll"}
      PROVE  Arrived([Idle EXCEPT !.pc = "tx", !.op = op])
  BY <1>1, <1>2, ZenonT(40) DEF Arrived, HandlerState
<1>3. ASSUME NEW op \in {"removeDetail", "selectSize"}, NEW u \in Unit
      PROVE  Arrived([Idle EXCEPT !.pc = "tx", !.op = op, !.unit = u])
  BY <1>1, <1>3, ZenonT(40) DEF Arrived, HandlerState
<1>4. ASSUME NEW id \in Nat
      PROVE  Arrived([Idle EXCEPT !.pc = "tx", !.op = "remove", !.cart = id])
  BY <1>1, <1>4, ZenonT(40) DEF Arrived, HandlerState
<1>5. ASSUME NEW k \in Key, NEW p \in Payment
      PROVE  Arrived([Idle EXCEPT !.pc = "begin", !.op = "endSale", !.key = k, !.pay = p])
  BY <1>1, <1>5, ZenonT(40) DEF Arrived, HandlerState
<1> QED BY <1>2, <1>3, <1>4, <1>5

\* So do the calls that set one.
LEMMA SyncStarts ==
  ASSUME IInv, cart # None, NEW n \in Nat, n > 0 \/ n = cart.qty
  PROVE  Arrived(Sync(n))
<1>1. Idle \in HandlerState /\ Idle.answer = None
  BY IdleIsState DEF Idle
<1>2. PICK id \in Nat : id = cart.id
  BY DEF IInv, RowsOK, TypeOK, SaleTemp
<1> DEFINE s == [Idle EXCEPT !.pc = "tx", !.op = "sync", !.cart = id, !.qty = n]
<1>3. /\ s \in HandlerState /\ s.answer = None
      /\ s.pc = "tx" /\ s.op = "sync" /\ s.qty = n
  BY <1>1, ZenonT(40) DEF HandlerState
<1>4. Sync(n) = s
  BY <1>2 DEF Sync
<1> HIDE DEF s
<1> QED BY <1>3, <1>4 DEF Arrived

\* Every arrival is one of these.
LEMMA ArrivesWith ==
  ASSUME IInv, NEW r \in Request, Arrive(r)
  PROVE  \E s : Arrived(s) /\ Call(r, s)
<1>1. cart # None => cart.id \in Nat /\ cart.qty \in Nat
  BY DEF IInv, RowsOK, TypeOK, SaleTemp
<1>2. ASSUME cart # None, NEW n \in Nat, n > 0 \/ n = cart.qty, Call(r, Sync(n))
      PROVE  \E s : Arrived(s) /\ Call(r, s)
  BY <1>2, SyncStarts
<1>3. CASE create(r) \/ removeAll(r)
  BY <1>3, Starts DEF create, removeAll
<1>4. CASE remove(r)
  BY <1>1, <1>4, Starts DEF remove
<1>5. CASE \E u \in Unit : removeSaleTempDetailModal(r, u) \/ selectSize(r, u)
  BY <1>5, Starts DEF removeSaleTempDetailModal, selectSize
<1>6. CASE \E k \in Key, p \in Payment : endSale(r, k, p)
  BY <1>6, Starts DEF endSale
<1>7. CASE generateSaleTempDetail(r)
  BY <1>1, <1>2, <1>7 DEF generateSaleTempDetail
<1>8. CASE createSaleTempDetail(r)
  <2>1. cart.qty + 1 \in Nat /\ cart.qty + 1 > 0
    BY <1>1, <1>8 DEF createSaleTempDetail
  <2> QED BY <1>2, <1>8, <2>1 DEF createSaleTempDetail
<1>9. ASSUME NEW n \in 1..MaxQty, updateQty(r, n)
      PROVE  \E s : Arrived(s) /\ Call(r, s)
  BY <1>2, <1>9 DEF updateQty
<1> QED BY <1>3, <1>4, <1>5, <1>6, <1>7, <1>8, <1>9 DEF Arrive

\* A handler arrives: nothing is locked, read or paid yet.
LEMMA ArriveInv ==
  ASSUME IInv, NEW r \in Request, Arrive(r)
  PROVE  IInv'
<1>1. PICK s : Arrived(s) /\ Call(r, s)
  BY ArrivesWith
<1>2. /\ s \in HandlerState /\ s.answer # "paid" /\ s.pc \in {"tx", "begin"}
      /\ s.pc = "begin" => s.key \in Key /\ s.pay \in Payment
  BY <1>1, NoneIsNoRow DEF Arrived
<1>3. req' = [req EXCEPT ![r] = s] /\ UNCHANGED <<cart, details, serial, bills, stale>>
  BY <1>1 DEF Call
<1>4. req'[r] = s
  BY <1>3 DEF IInv, RowsOK, TypeOK
<1>5. HandlerOK(r)'
  BY <1>2, <1>4 DEF HandlerOK, WellFormed, LockHeld, SnapshotHolds, Billed, Deleting
<1> QED BY <1>2, <1>3, <1>5, QuietStep

\* A cart handler has read, or written what is not yet visible.
LEMMA WorkStep ==
  ASSUME IInv, NEW r \in Request, NEW s \in HandlerState, req' = [req EXCEPT ![r] = s],
         UNCHANGED <<cart, details, serial, bills, stale>>,
         s.pc = "write", s.op \in {"create", "sync", "removeDetail"},
         s.answer = req[r].answer, s.key = req[r].key, s.pay = req[r].pay,
         s.op = "removeDetail" => s.unit \in DOMAIN details /\ UnitsFree(r, {s.unit})
  PROVE  IInv'
<1>1. req \in [Request -> HandlerState] /\ HandlerOK(r)
  BY DEF IInv, RowsOK, TypeOK
<1>2. req'[r] = s /\ \A q \in Request \ {r} : req'[q] = req[q]
  BY <1>1
<1>3. HandlerOK(r)'
  BY <1>1, <1>2
  DEF HandlerOK, WellFormed, LockHeld, SnapshotHolds, Billed, Deleting, UnitsFree
<1> QED BY <1>3, QuietStep

LEMMA UpsertInv ==
  ASSUME IInv, NEW r \in Request, Upsert(r)
  PROVE  IInv'
<1> DEFINE id == IF cart = None THEN serial.cart + 1 ELSE cart.id
           n == IF cart = None THEN 1 ELSE cart.qty + 1
           s == [req[r] EXCEPT !.pc = "write", !.seen = DOMAIN details, !.cart = id,
                               !.qty = n]
<1>1. /\ req[r] \in HandlerState /\ req[r].op = "create"
      /\ req \in [Request -> HandlerState]
  BY DEF IInv, RowsOK, TypeOK, Upsert, Running
<1>2. id \in Nat /\ n \in Nat /\ DOMAIN details \in SUBSET Unit
  BY SelectionIs DEF IInv, RowsOK, TypeOK, SaleTemp
<1>3. req' = [req EXCEPT ![r] = s]
  BY <1>1 DEF Upsert
<1> HIDE DEF id, n
<1>4. s \in HandlerState
  BY <1>1, <1>2 DEF HandlerState
<1>5. /\ s.pc = "write" /\ s.op = "create" /\ s.answer = req[r].answer
      /\ s.key = req[r].key /\ s.pay = req[r].pay
  BY <1>1 DEF HandlerState
<1> HIDE DEF s
<1>6. UNCHANGED <<cart, details, serial, bills, stale>>
  BY DEF Upsert
<1> QED BY <1>3, <1>4, <1>5, <1>6, WorkStep

LEMMA ReadDetailsInv ==
  ASSUME IInv, NEW r \in Request, ReadDetails(r)
  PROVE  IInv'
<1> DEFINE seen == IF cart # None /\ cart.id = req[r].cart THEN DOMAIN details ELSE {}
           s == [req[r] EXCEPT !.pc = "write", !.seen = seen]
<1>1. /\ req[r] \in HandlerState /\ req[r].op = "sync"
      /\ req \in [Request -> HandlerState]
  BY DEF IInv, RowsOK, TypeOK, ReadDetails, Running
<1>2. seen \in SUBSET Unit
  BY SelectionIs DEF IInv, RowsOK, TypeOK
<1>3. req' = [req EXCEPT ![r] = s]
  BY <1>1 DEF ReadDetails
<1> HIDE DEF seen
<1>4. s \in HandlerState
  BY <1>1, <1>2 DEF HandlerState
<1>5. /\ s.pc = "write" /\ s.op = "sync" /\ s.answer = req[r].answer
      /\ s.key = req[r].key /\ s.pay = req[r].pay
  BY <1>1 DEF HandlerState
<1> HIDE DEF s
<1>6. UNCHANGED <<cart, details, serial, bills, stale>>
  BY DEF ReadDetails
<1> QED BY <1>3, <1>4, <1>5, <1>6, WorkStep

LEMMA DeleteDetailInv ==
  ASSUME IInv, NEW r \in Request, DeleteDetail(r)
  PROVE  IInv'
<1> DEFINE n == Cardinality(DOMAIN details \ {req[r].unit})
           s == [req[r] EXCEPT !.pc = "write", !.qty = n]
<1>1. /\ req[r] \in HandlerState /\ req[r].op = "removeDetail"
      /\ req \in [Request -> HandlerState]
  BY DEF IInv, RowsOK, TypeOK, DeleteDetail, Running
<1>2. n \in Nat
  BY SelectionIs, Counts DEF IInv, RowsOK, TypeOK
<1>3. req' = [req EXCEPT ![r] = s]
  BY <1>1 DEF DeleteDetail
<1> HIDE DEF n
<1>4. s \in HandlerState
  BY <1>1, <1>2 DEF HandlerState
<1>5. /\ s.pc = "write" /\ s.op = "removeDetail" /\ s.answer = req[r].answer
      /\ s.key = req[r].key /\ s.pay = req[r].pay /\ s.unit = req[r].unit
  BY <1>1 DEF HandlerState
<1> HIDE DEF s
<1>6. UNCHANGED <<cart, details, serial, bills, stale>>
  BY DEF DeleteDetail
<1>7. s.unit \in DOMAIN details /\ UnitsFree(r, {s.unit})
  BY <1>5 DEF DeleteDetail
<1> QED BY <1>3, <1>4, <1>5, <1>6, <1>7, WorkStep

\* The details to add have the ids after the last one given out, and the highest of
\* them becomes the last.
Added(last, seen, qty) ==
  IF Cardinality(seen) < qty
  THEN (last + 1)..(last + (qty - Cardinality(seen))) ELSE {}

\* They are an interval that goes on where the last id ended.
LEMMA AddedSpan ==
  ASSUME NEW last \in Nat, NEW seen \in SUBSET Unit, NEW qty \in Nat,
         NEW added, added = Added(last, seen, qty), added \subseteq Unit
  PROVE  \E top \in Nat : /\ last <= top /\ added = (last + 1)..top
                          /\ Highest(added \cup {last}) = top
<1>1. Cardinality(seen) \in Nat
  BY Counts
<1>2. PICK top \in Nat : last <= top /\ added = (last + 1)..top
  <2>1. CASE Cardinality(seen) < qty
    <3> DEFINE top == last + (qty - Cardinality(seen))
    <3>1. top \in Nat /\ last <= top /\ added = (last + 1)..top
      BY <1>1, <2>1 DEF Added
    <3> QED BY <3>1
  <2>2. CASE ~(Cardinality(seen) < qty)
    <3>1. added = (last + 1)..last
      BY <2>2 DEF Added
    <3> QED BY <3>1
  <2> QED BY <2>1, <2>2
<1>3. added \cup {last} \in SUBSET Nat
  BY DEF Unit
<1>4. top \in added \cup {last} /\ \A u \in added \cup {last} : top >= u
  BY <1>2
<1>5. Highest(added \cup {last}) = top
  BY <1>3, <1>4, HighestIs
<1> QED BY <1>2, <1>5

LEMMA AddedIs ==
  ASSUME NEW last \in Unit \cup {0}, NEW seen \in SUBSET Unit, NEW qty \in Nat,
         NEW added, added = Added(last, seen, qty), added \subseteq Unit
  PROVE  /\ Highest(added \cup {last}) \in Unit \cup {0}
         /\ last <= Highest(added \cup {last})
         /\ \A u \in added : u > last /\ u <= Highest(added \cup {last})
<1>1. last \in Nat
  BY DEF Unit
<1>2. PICK top \in Nat : /\ last <= top /\ added = (last + 1)..top
                         /\ Highest(added \cup {last}) = top
  BY <1>1, AddedSpan
<1>3. top \in Unit \cup {0}
  <2>1. top \in added \cup {last}
    BY <1>1, <1>2
  <2> QED BY <2>1
<1>4. \A u \in added : u > last /\ u <= top
  BY <1>1, <1>2
<1> QED BY <1>2, <1>3, <1>4

LEMMA SyncInv ==
  ASSUME IInv, NEW r \in Request, syncCartDetails(r)
  PROVE  IInv'
<1> DEFINE qty == req[r].qty
           seen == req[r].seen
           added == Added(serial.unit, seen, qty)
           removed == IF Cardinality(seen) > qty
                      THEN Youngest(seen, Cardinality(seen) - qty) ELSE {}
           kept == DOMAIN details \ removed
           row == [id |-> req[r].cart, qty |-> qty]
<1>1. /\ req[r] \in HandlerState /\ qty \in Nat /\ seen \in SUBSET Unit
      /\ req[r].cart \in Nat /\ serial.cart \in Nat /\ serial.unit \in Unit \cup {0}
      /\ details \in Selection
  BY DEF IInv, RowsOK, TypeOK, HandlerState
<1>2. /\ Answer(r, "success") /\ UNCHANGED bills /\ Touch /\ UnitsFree(r, removed)
      /\ added \subseteq Unit /\ cart' = row
      /\ details' = [u \in kept \cup added |-> IF u \in kept THEN details[u] ELSE "plain"]
      /\ serial' = [cart |-> IF cart = None THEN req[r].cart ELSE serial.cart,
                    unit |-> Highest(added \cup {serial.unit})]
  BY DEF syncCartDetails, Added
<1>3. /\ Highest(added \cup {serial.unit}) \in Unit \cup {0}
      /\ serial.unit <= Highest(added \cup {serial.unit})
      /\ \A u \in added : u > serial.unit /\ u <= Highest(added \cup {serial.unit})
  BY <1>1, <1>2, AddedIs
<1> HIDE DEF added, removed
<1>4. row \in SaleTemp /\ row # None
  BY <1>1, NoneIsNoRow DEF SaleTemp
<1>5. kept \cup added \subseteq Unit /\ details' \in [kept \cup added -> Size]
  BY <1>1, <1>2, SelectionIs DEF Size
<1>6. details' \in Selection /\ DOMAIN details' = kept \cup added
  BY <1>5, SelectionIs
<1>7. serial' \in [cart : Nat, unit : Unit \cup {0}] /\ serial.unit <= serial'.unit
  BY <1>1, <1>2, <1>3
<1>8. \A u \in DOMAIN details' :
         u \in DOMAIN details \/ (u > serial.unit /\ u <= serial'.unit)
  BY <1>2, <1>3, <1>6
<1>9. LocksKept(r)
  BY <1>2, <1>6 DEF IInv, HandlerOK, LockHeld, LocksKept, Deleting, UnitsFree
<1>10. RowsOK'
  BY <1>2, <1>4, <1>6, <1>7, <1>8, CartRows
<1> QED BY <1>2, <1>9, <1>10, CartStep

LEMMA ApplyCountInv ==
  ASSUME IInv, NEW r \in Request, ApplyCount(r)
  PROVE  IInv'
<1> DEFINE left == DOMAIN details \ {req[r].unit}
<1>1. /\ Answer(r, "success") /\ UNCHANGED <<serial, bills>> /\ Touch
      /\ details' = [u \in left |-> details[u]]
  BY DEF ApplyCount
<1>2. /\ details \in Selection /\ req[r].unit \in DOMAIN details /\ req[r].qty \in Nat
      /\ UnitsFree(r, {req[r].unit})
      /\ serial \in [cart : Nat, unit : Unit \cup {0}] /\ serial.unit \in Nat
  BY DEF IInv, RowsOK, TypeOK, HandlerState, HandlerOK, LockHeld, Deleting, ApplyCount, Unit
<1>3. cart \in SaleTemp
  BY <1>2, EmptyIs DEF IInv, RowsOK, TypeOK
<1>4. details' \in [left -> Size] /\ left \subseteq Unit
  BY <1>1, <1>2, SelectionIs
<1>5. details' \in Selection /\ DOMAIN details' = left
  BY <1>4, SelectionIs
<1>6. cart' \in SaleTemp \cup {None} /\ (cart' = None => details' = Empty)
  <2>1. CASE left = {} /\ cart' = None
    BY <1>1, <2>1, NothingLeft
  <2>2. CASE req[r].qty > 0 /\ cart' = [cart EXCEPT !.qty = req[r].qty]
    <3>1. cart' \in SaleTemp
      BY <1>2, <1>3, <2>2 DEF SaleTemp
    <3> QED BY <3>1, NoneIsNoRow
  <2> QED BY <2>1, <2>2 DEF ApplyCount
<1>7. LocksKept(r)
  BY <1>2, <1>5 DEF IInv, HandlerOK, LockHeld, LocksKept, Deleting, UnitsFree
<1>8. RowsOK'
  <2>1. \A u \in DOMAIN details' : u \in DOMAIN details
    BY <1>5
  <2>2. serial' = serial /\ serial.unit <= serial'.unit
    BY <1>1, <1>2
  <2> QED BY <1>1, <1>2, <1>5, <1>6, <2>1, <2>2, CartRows
<1> QED BY <1>1, <1>7, <1>8, CartStep

LEMMA SelectSizeInv ==
  ASSUME IInv, NEW r \in Request, SelectSize(r)
  PROVE  IInv'
<1>1. PICK s \in Size : details' = [details EXCEPT ![req[r].unit] = s]
  BY DEF SelectSize
<1>2. /\ Answer(r, "success") /\ UNCHANGED <<cart, serial, bills>> /\ Touch
      /\ req[r].unit \in DOMAIN details
  BY DEF SelectSize
<1>3. /\ details \in Selection /\ serial.unit \in Nat
      /\ serial \in [cart : Nat, unit : Unit \cup {0}]
      /\ cart \in SaleTemp /\ cart' \in SaleTemp \cup {None} /\ cart' # None
  BY <1>2, EmptyIs, NoneIsNoRow DEF IInv, RowsOK, TypeOK, Unit
<1>4. DOMAIN details \subseteq Unit /\ details \in [DOMAIN details -> Size]
  BY <1>3, SelectionIs
<1>5. details' \in [DOMAIN details -> Size]
  BY <1>1, <1>4
<1>6. details' \in Selection /\ DOMAIN details' = DOMAIN details
  BY <1>4, <1>5, SelectionIs
<1>7. LocksKept(r)
  BY <1>6 DEF IInv, HandlerOK, LockHeld, LocksKept
<1>8. RowsOK'
  <2>1. serial' = serial /\ serial.unit <= serial'.unit
    BY <1>2, <1>3
  <2> QED BY <1>2, <1>3, <1>6, <2>1, CartRows
<1> QED BY <1>2, <1>7, <1>8, CartStep

LEMMA RemoveCartInv ==
  ASSUME IInv, NEW r \in Request, RemoveCart(r)
  PROVE  IInv'
<1>1. /\ Answer(r, "success") /\ UNCHANGED <<serial, bills>> /\ Touch
      /\ cart' = None /\ details' = Empty /\ UnitsFree(r, DOMAIN details)
  BY DEF RemoveCart
<1>2. serial \in [cart : Nat, unit : Unit \cup {0}] /\ serial.unit \in Nat
  BY DEF IInv, RowsOK, TypeOK, Unit
<1>3. LocksKept(r)
  BY <1>1 DEF IInv, HandlerOK, LockHeld, LocksKept, Deleting, UnitsFree
<1>4. RowsOK'
  <2>1. details' \in Selection /\ DOMAIN details' = {}
    BY <1>1, EmptyIs
  <2>2. serial' = serial /\ serial.unit <= serial'.unit
    BY <1>1, <1>2
  <2> QED BY <1>1, <1>2, <2>1, <2>2, CartRows
<1> QED BY <1>1, <1>3, <1>4, CartStep

-----------------------------------------------------------------------------
(* The actions of the checkout.                                            *)

LEMMA BeginInv ==
  ASSUME IInv, NEW r \in Request, Begin(r)
  PROVE  IInv'
<1> DEFINE s == [req[r] EXCEPT !.pc = "body", !.snap = Db]
<1>1. /\ req[r] \in HandlerState /\ req \in [Request -> HandlerState] /\ HandlerOK(r)
      /\ req[r].pc = "begin"
  BY DEF IInv, RowsOK, TypeOK, Begin
<1>2. Db \in Snapshot /\ Db.bills = bills /\ Db.cart = cart /\ Db.details = details
  BY DEF IInv, RowsOK, TypeOK, Db, Snapshot
<1>3. req' = [req EXCEPT ![r] = s]
  BY <1>1 DEF Begin
<1>4. s \in HandlerState
  BY <1>1, <1>2 DEF HandlerState
<1>5. /\ s.pc = "body" /\ s.snap = Db /\ s.answer = req[r].answer
      /\ s.key = req[r].key /\ s.pay = req[r].pay
  BY <1>1 DEF HandlerState
<1> HIDE DEF s
<1>6. req'[r] = s /\ UNCHANGED <<cart, details, serial, bills>> /\ stale' = stale \ {r}
  BY <1>1, <1>3 DEF Begin
<1>7. WellFormed(r)' /\ LockHeld(r)' /\ Billed(r)'
  BY <1>1, <1>2, <1>5, <1>6 DEF HandlerOK, WellFormed, LockHeld, Billed, Deleting
<1>8. SnapshotHolds(r)'
  BY <1>2, <1>5, <1>6 DEF SnapshotHolds
<1> QED BY <1>3, <1>4, <1>6, <1>7, <1>8, QuietStep DEF HandlerOK

LEMMA ReplyInv ==
  ASSUME IInv, NEW r \in Request, Reply(r)
  PROVE  IInv'
<1>1. HandlerOK(r) /\ req[r].pc = "body" /\ UNCHANGED <<cart, details, serial, bills, stale>>
  BY DEF IInv, Reply
<1>2. PICK a \in Replies :
        /\ Answer(r, a)
        /\ a = "paid" => /\ Existing(r, req[r].snap) # None
                         /\ SameCheckout(r, Existing(r, req[r].snap))
  BY DEF Reply, Replies
<1>3. a = "paid" => /\ req[r].key \in Key /\ req[r].pay \in Payment
                    /\ bills[req[r].key] # None /\ bills[req[r].key].pay = req[r].pay
  BY <1>1, <1>2 DEF HandlerOK, WellFormed, SnapshotHolds, Existing, SameCheckout
<1> QED BY <1>1, <1>2, <1>3, AnswerStep

LEMMA CatchInv ==
  ASSUME IInv, NEW r \in Request, req[r].pc = "body", NEW code \in {"P2002", "P2034"},
         Catch(r, code)
  PROVE  IInv'
<1> DEFINE s == [req[r] EXCEPT !.pc = code, !.snap = None]
<1>1. /\ req[r] \in HandlerState /\ req \in [Request -> HandlerState] /\ HandlerOK(r)
  BY DEF IInv, RowsOK, TypeOK
<1>2. req' = [req EXCEPT ![r] = s]
  BY <1>1 DEF Catch
<1>3. s \in HandlerState
  BY <1>1 DEF HandlerState
<1>4. s.pc = code /\ s.answer = req[r].answer /\ s.key = req[r].key /\ s.pay = req[r].pay
  BY <1>1 DEF HandlerState
<1> HIDE DEF s
<1>5. req'[r] = s /\ UNCHANGED <<cart, details, serial, bills, stale>>
  BY <1>1, <1>2 DEF Catch
<1>6. HandlerOK(r)'
  BY <1>1, <1>4, <1>5
  DEF HandlerOK, WellFormed, LockHeld, SnapshotHolds, Billed, Deleting
<1> QED BY <1>2, <1>3, <1>5, <1>6, QuietStep

LEMMA RespondInv ==
  ASSUME IInv, NEW r \in Request, Respond(r)
  PROVE  IInv'
<1>1. /\ req[r].key \in Key /\ req[r].pay \in Payment
      /\ bills[req[r].key] # None /\ bills[req[r].key].pay = req[r].pay
  BY DEF IInv, HandlerOK, WellFormed, Billed, Respond
<1> QED BY <1>1, AnswerStep DEF Respond, Replies

LEMMA OnConflictInv ==
  ASSUME IInv, NEW r \in Request, OnConflict(r)
  PROVE  IInv'
<1>1. UNCHANGED <<cart, details, serial, bills, stale>>
  BY DEF OnConflict
<1>2. CASE Answer(r, "error")
  BY <1>1, <1>2, NoneIsNoRow, AnswerStep DEF Replies
<1>3. CASE MayRetry(r) /\ req' = [req EXCEPT ![r].pc = "begin", ![r].attempt = @ + 1]
  <2> DEFINE s == [req[r] EXCEPT !.pc = "begin", !.attempt = @ + 1]
  <2>1. /\ req[r] \in HandlerState /\ req \in [Request -> HandlerState] /\ HandlerOK(r)
        /\ req[r].pc = "P2034"
    BY DEF IInv, RowsOK, TypeOK, OnConflict
  <2>2. req[r].attempt \in 0..2 /\ req[r].attempt + 1 \in 0..2
    BY <1>3, <2>1 DEF MayRetry, HandlerState
  <2>3. s \in HandlerState
    BY <2>1, <2>2 DEF HandlerState
  <2>4. /\ s.pc = "begin" /\ s.answer = req[r].answer /\ s.key = req[r].key
        /\ s.pay = req[r].pay
    BY <2>1 DEF HandlerState
  <2>5. req' = [req EXCEPT ![r] = s]
    BY <1>3, <2>1
  <2> HIDE DEF s
  <2>6. req'[r] = s
    BY <2>1, <2>5
  <2>7. HandlerOK(r)'
    BY <1>1, <2>1, <2>4, <2>6
    DEF HandlerOK, WellFormed, LockHeld, SnapshotHolds, Billed, Deleting
  <2> QED BY <1>1, <2>3, <2>5, <2>7, QuietStep
<1> QED BY <1>2, <1>3 DEF OnConflict

LEMMA OnDuplicateInv ==
  ASSUME IInv, NEW r \in Request, OnDuplicate(r)
  PROVE  IInv'
<1>1. UNCHANGED <<cart, details, serial, bills, stale>>
  BY DEF OnDuplicate
<1>2. req[r].key \in Key /\ req[r].pay \in Payment
  BY DEF IInv, HandlerOK, WellFormed, OnDuplicate
<1>3. Existing(r, Db) = bills[req[r].key]
  BY DEF Existing, Db
<1>4. CASE bills[req[r].key] # None /\ SameCheckout(r, bills[req[r].key])
  BY <1>1, <1>2, <1>3, <1>4, AnswerStep DEF OnDuplicate, SameCheckout, Replies
<1>5. CASE ~(bills[req[r].key] # None /\ SameCheckout(r, bills[req[r].key]))
  BY <1>1, <1>3, <1>5, AnswerStep DEF OnDuplicate, Replies
<1> QED BY <1>4, <1>5

\* An amount is a number.
LEMMA TotalType ==
  ASSUME NEW lines \in Selection
  PROVE  Total(lines) \in Nat
<1>1. DOMAIN lines \in SUBSET Unit /\ {u \in DOMAIN lines : lines[u] = "large"} \in SUBSET Unit
  BY SelectionIs
<1> QED BY <1>1, Counts DEF Total

\* The cart that a checkout charges is the one that is there: the snapshot is current.
LEMMA ChargeSees ==
  ASSUME IInv, NEW r \in Request, Charge(r)
  PROVE  /\ req[r].key \in Key /\ req[r].pay \in Payment /\ bills[req[r].key] = None
         /\ req[r].snap.cart = cart /\ req[r].snap.details = details
         /\ cart # None /\ Cardinality(DOMAIN details) = cart.qty
         /\ cart' = None /\ details' = Empty
         /\ bills' = [bills EXCEPT ![req[r].key] =
                        [pay |-> req[r].pay, lines |-> details, amount |-> Total(details)]]
<1>1. HandlerOK(r) /\ req[r].pc = "body" /\ r \notin stale
  BY DEF IInv, Charge, Accepted, Outdated
<1>2. req[r].snap.cart = cart /\ req[r].snap.details = details
  BY <1>1 DEF HandlerOK, SnapshotHolds
<1>3. cart' = None /\ details' = [u \in DOMAIN details \ DOMAIN details |-> details[u]]
  BY <1>2 DEF Charge, DeleteCart
<1>4. details' = Empty
  BY <1>3, NothingLeft
<1> QED
  BY <1>1, <1>2, <1>3, <1>4 DEF HandlerOK, WellFormed, Charge, Accepted, Consistent

LEMMA ChargeInv ==
  ASSUME IInv, NEW r \in Request, Charge(r)
  PROVE  IInv'
<1>1. PICK k \in Key : k = req[r].key
  BY ChargeSees
<1> DEFINE bill == [pay |-> req[r].pay, lines |-> details, amount |-> Total(details)]
           s == [req[r] EXCEPT !.pc = "committed", !.snap = None]
<1>2. /\ k \in Key /\ req[r].pay \in Payment /\ bills[k] = None
      /\ cart' = None /\ details' = Empty /\ bills' = [bills EXCEPT ![k] = bill]
  BY <1>1, ChargeSees
<1>3. /\ req[r] \in HandlerState /\ req \in [Request -> HandlerState]
      /\ details \in Selection /\ bills \in [Key -> BillSale \cup {None}]
      /\ serial.unit \in Nat
  BY DEF IInv, RowsOK, TypeOK, Unit
<1>4. Total(details) \in Nat
  BY <1>3, TotalType
<1>5. bill \in BillSale /\ bill # None /\ bill.pay = req[r].pay /\ bill.lines = details
  <2>1. bill \in BillSale
    BY <1>2, <1>3, <1>4 DEF BillSale
  <2> QED BY <2>1, NoneIsNoRow
<1>6. bill.pay.payType = "cash" => bill.pay.inputMoney >= bill.amount
  <2>1. Covered(r, req[r].snap) /\ req[r].snap.details = details
    BY ChargeSees DEF Charge, Accepted
  <2> QED BY <2>1 DEF Covered
<1>7. /\ req' = [req EXCEPT ![r] = s] /\ Touch /\ UNCHANGED serial
      /\ UnitsFree(r, DOMAIN details)
  <2>1. req[r].snap.details = details
    BY ChargeSees
  <2> QED BY <1>3, <2>1 DEF Charge
<1> HIDE DEF bill
<1>8. s \in HandlerState
  BY <1>3 DEF HandlerState
<1>9. s.pc = "committed" /\ s.key = k /\ s.pay = req[r].pay
  BY <1>1, <1>3 DEF HandlerState
<1> HIDE DEF s
<1>10. bills'[k] = bill /\ \A j \in Key \ {k} : bills'[j] = bills[j]
  BY <1>2, <1>3
<1>11. TypeOK'
  <2>1. bills' \in [Key -> BillSale \cup {None}] /\ req' \in [Request -> HandlerState]
    BY <1>2, <1>3, <1>5, <1>7, <1>8
  <2> QED BY <1>2, <1>7, <2>1, EmptyIs DEF IInv, RowsOK, TypeOK, Touch
<1>12. /\ Charged(k)' = DOMAIN details /\ \A j \in Key \ {k} : Charged(j)' = Charged(j)
       /\ DOMAIN details' = {} /\ Charged(k) = {}
  BY <1>2, <1>5, <1>10, EmptyIs DEF Charged
<1>13. UnitsKnown' /\ UnitsChargedOnce'
  BY <1>2, <1>7, <1>12 DEF IInv, RowsOK, UnitsKnown, UnitsChargedOnce
<1>14. BillsCovered'
  BY <1>2, <1>5, <1>6, <1>10 DEF IInv, RowsOK, BillsCovered
<1>15. LocksKept(r)
  BY <1>7 DEF IInv, HandlerOK, LockHeld, LocksKept, Deleting, UnitsFree
<1>16. \A j \in Key : bills[j] # None => bills'[j] = bills[j]
  BY <1>2, <1>10
<1>17. RowsOK'
  BY <1>11, <1>13, <1>14 DEF RowsOK
<1> QED
  BY <1>2, <1>5, <1>7, <1>8, <1>9, <1>10, <1>15, <1>16, <1>17, WriteStep

LEMMA NextInv == IInv /\ [Next]_vars => IInv'
<1> SUFFICES ASSUME IInv, [Next]_vars PROVE IInv'
  OBVIOUS
<1>1. ASSUME NEW r \in Request, Handle(r) PROVE IInv'
  <2>1. CASE Fail(r)
    BY <2>1, NoneIsNoRow, AnswerStep DEF Fail, Replies
  <2>2. CASE Duplicate(r) \/ Conflict(r)
    BY <2>2, CatchInv DEF Duplicate, Conflict, Accepted
  <2> QED
    BY <1>1, <2>1, <2>2, UpsertInv, ReadDetailsInv, SyncInv, DeleteDetailInv, ApplyCountInv,
       SelectSizeInv, RemoveCartInv, BeginInv, ReplyInv, ChargeInv, RespondInv,
       OnConflictInv, OnDuplicateInv
    DEF Handle
<1>2. CASE UNCHANGED vars
  BY <1>2 DEF vars, IInv, RowsOK, TypeOK, UnitsKnown, UnitsChargedOnce, BillsCovered, Charged,
              HandlerOK, WellFormed, LockHeld, SnapshotHolds, Billed, Deleting, UnitsFree
<1> QED BY <1>1, <1>2, ArriveInv DEF Next

LEMMA AlwaysInv == Spec => []IInv
BY InitInv, NextInv, PTL DEF Spec

-----------------------------------------------------------------------------
(* The theorems about checkouts.                                           *)

\* Rows and handler states keep their types, and a checkout is tried three times at
\* most.
THEOREM TypeCorrect == Spec => []TypeOK
BY AlwaysInv, PTL DEF IInv, RowsOK

\* No unit is charged twice, and none that was charged is in the cart again.
THEOREM ChargedOnce == Spec => []UnitsChargedOnce
BY AlwaysInv, PTL DEF IInv, RowsOK

\* A checkout that is told "paid" was charged, with its payment, which covered it.
THEOREM PaidIsCharged == Spec => []PaidMeansCharged
<1>1. IInv => PaidMeansCharged
  BY DEF IInv, RowsOK, HandlerOK, WellFormed, Billed, BillsCovered, PaidMeansCharged
<1> QED BY <1>1, AlwaysInv, PTL

\* A checkout charges the whole cart as it is when it commits, and nothing else.
THEOREM ChargesCart == Spec => ChargesTheCart
<1> DEFINE Taken == \A k \in Key : bills'[k] # bills[k] =>
                       /\ bills[k] = None
                       /\ bills'[k].lines = details /\ details' = Empty /\ cart' = None
                       /\ Cardinality(DOMAIN details) = cart.qty
<1>1. ASSUME IInv, NEW r \in Request, Charge(r) PROVE Taken
  <2>1. PICK j \in Key : j = req[r].key
    BY <1>1, ChargeSees
  <2>2. /\ bills' = [bills EXCEPT ![j] = [pay |-> req[r].pay, lines |-> details,
                                          amount |-> Total(details)]]
        /\ bills[j] = None /\ details' = Empty /\ cart' = None
        /\ Cardinality(DOMAIN details) = cart.qty
    BY <1>1, <2>1, ChargeSees
  <2>3. /\ bills'[j].lines = details
        /\ \A k \in Key \ {j} : bills'[k] = bills[k]
    BY <1>1, <2>2 DEF IInv, RowsOK, TypeOK
  <2> QED BY <2>2, <2>3
<1>2. ASSUME bills' = bills PROVE Taken
  BY <1>2
<1>3. IInv /\ [Next]_vars => [Taken]_vars
  <2> HIDE DEF Taken
  <2>1. ASSUME NEW r \in Request, Handle(r) PROVE Charge(r) \/ bills' = bills
    BY <2>1
    DEF Handle, Upsert, ReadDetails, syncCartDetails, DeleteDetail, ApplyCount, SelectSize,
        RemoveCart, Begin, Reply, Duplicate, Conflict, Catch, Respond, OnConflict,
        OnDuplicate, Fail
  <2>2. ASSUME NEW r \in Request, Arrive(r) PROVE bills' = bills
    BY <2>2
    DEF Arrive, Call, create, updateQty, generateSaleTempDetail, createSaleTempDetail,
        removeSaleTempDetailModal, selectSize, remove, removeAll, endSale
  <2> QED BY <1>1, <1>2, <2>1, <2>2 DEF Next
<1> QED BY <1>3, AlwaysInv, PTL DEF Spec, ChargesTheCart

-----------------------------------------------------------------------------
(* Adds that overlap keep one detail per unit, as long as nobody starts    *)
(* from a quantity read outside its transaction.                           *)

Adding == \A r \in Request : req[r].op \notin {"sync", "removeDetail"}

IdleIsNew == \A r \in Request : req[r].pc = "idle" => req[r].op \notin {"sync", "removeDetail"}

\* An add under way has seen all there is and wants one more.
AddsOne(r) ==
  req[r].pc = "write" => /\ req[r].op = "create"
                         /\ req[r].seen = DOMAIN details
                         /\ req[r].qty = Cardinality(DOMAIN details) + 1

AInv == IdleIsNew /\ (Adding => OneDetailPerUnit /\ \A r \in Request : AddsOne(r))

LEMMA InitAdds == Init => AInv
<1> SUFFICES ASSUME Init PROVE AInv
  OBVIOUS
<1>1. IdleIsNew /\ \A r \in Request : AddsOne(r)
  BY NoneIsNoRow DEF Init, Idle, IdleIsNew, AddsOne
<1>2. OneDetailPerUnit
  <2>1. PICK n \in 0..MaxQty : /\ cart = IF n = 0 THEN None ELSE [id |-> 1, qty |-> n]
                               /\ details = [u \in 1..n |-> "plain"]
    BY DEF Init
  <2>2. DOMAIN details = 1..n /\ n \in Nat
    BY <2>1, CartAssumption
  <2>3. Cardinality(1..n) = n
    BY <2>2, FS_Interval
  <2> QED BY <2>1, <2>2, <2>3 DEF OneDetailPerUnit
<1> QED BY <1>1, <1>2 DEF AInv

\* A request never changes what it does, and is answered once.
LEMMA HandlerKeeps ==
  ASSUME IInv, NEW r \in Request, Handle(r)
  PROVE  /\ req'[r].op = req[r].op /\ req'[r].key = req[r].key /\ req'[r].pay = req[r].pay
         /\ req[r].pc \notin {"idle", "done"} /\ req'[r].pc # "idle"
         /\ req'[r].answer = req[r].answer \/ req'[r].pc = "done"
         /\ \A q \in Request \ {r} : req'[q] = req[q]
<1>1. req \in [Request -> HandlerState] /\ req[r] \in HandlerState
  BY DEF IInv, RowsOK, TypeOK
<1> DEFINE Kept == /\ req'[r].op = req[r].op /\ req'[r].key = req[r].key
                   /\ req'[r].pay = req[r].pay /\ req'[r].pc # "idle"
                   /\ req'[r].answer = req[r].answer \/ req'[r].pc = "done"
                   /\ \A q \in Request \ {r} : req'[q] = req[q]
<1>2. ASSUME NEW a, Answer(r, a) PROVE Kept
  BY <1>1, <1>2 DEF Answer, HandlerState
<1>3. CASE Upsert(r) \/ ReadDetails(r) \/ DeleteDetail(r)
  BY <1>1, <1>3 DEF Upsert, ReadDetails, DeleteDetail, Running, HandlerState
<1>4. CASE Begin(r) \/ Duplicate(r) \/ Conflict(r) \/ Charge(r)
  BY <1>1, <1>4 DEF Begin, Duplicate, Conflict, Charge, Accepted, Catch, HandlerState
<1>5. CASE syncCartDetails(r) \/ ApplyCount(r) \/ SelectSize(r) \/ RemoveCart(r)
  <2> HIDE DEF Kept
  <2>1. Kept
    BY <1>2, <1>5 DEF syncCartDetails, ApplyCount, SelectSize, RemoveCart
  <2>2. req[r].pc \notin {"idle", "done"}
    BY <1>5 DEF syncCartDetails, ApplyCount, SelectSize, RemoveCart, Running
  <2> QED BY <2>1, <2>2 DEF Kept
<1>6. CASE Reply(r) \/ Respond(r) \/ OnDuplicate(r) \/ Fail(r)
  <2> HIDE DEF Kept
  <2>1. Kept
    BY <1>2, <1>6 DEF Reply, Respond, OnDuplicate, Fail
  <2>2. req[r].pc \notin {"idle", "done"}
    BY <1>6 DEF Reply, Respond, OnDuplicate, Fail
  <2> QED BY <2>1, <2>2 DEF Kept
<1>7. CASE OnConflict(r)
  <2>1. CASE Answer(r, "error")
    BY <1>2, <1>7, <2>1 DEF OnConflict
  <2>2. CASE req' = [req EXCEPT ![r].pc = "begin", ![r].attempt = @ + 1]
    BY <1>1, <1>7, <2>2 DEF OnConflict, HandlerState
  <2> QED BY <1>7, <2>1, <2>2 DEF OnConflict
<1> QED BY <1>3, <1>4, <1>5, <1>6, <1>7 DEF Handle

\* An arriving request writes nothing yet.
LEMMA ArriveIsNew ==
  ASSUME IInv, NEW r \in Request, Arrive(r)
  PROVE  /\ req[r].pc = "idle" /\ req'[r].pc \in {"tx", "begin"}
         /\ \A q \in Request \ {r} : req'[q] = req[q]
         /\ UNCHANGED <<cart, details>>
<1>1. PICK s : s.pc \in {"tx", "begin"} /\ Call(r, s)
  BY ArrivesWith DEF Arrived
<1> QED BY <1>1 DEF Call, IInv, RowsOK, TypeOK

\* A step that leaves the units and their number alone, and starts no write.
LEMMA SameUnits ==
  ASSUME IInv, AInv, Adding, NEW r \in Request,
         DOMAIN details' = DOMAIN details, cart' = cart, req'[r].pc # "write",
         \A q \in Request \ {r} : req'[q] = req[q]
  PROVE  OneDetailPerUnit' /\ \A q \in Request : AddsOne(q)'
<1>1. OneDetailPerUnit'
  BY DEF AInv, OneDetailPerUnit
<1>2. ASSUME NEW q \in Request PROVE AddsOne(q)'
  BY <1>2 DEF AInv, AddsOne
<1> QED BY <1>1, <1>2

\* With the cart's row free, nobody else is about to add.
LEMMA NobodyElse ==
  ASSUME IInv, AInv, Adding, NEW r \in Request, CartFree(r), req'[r].pc # "write",
         \A q \in Request \ {r} : req'[q] = req[q]
  PROVE  \A q \in Request : AddsOne(q)'
<1>1. \A q \in Request \ {r} : req[q].pc # "write"
  BY DEF AInv, AddsOne, CartFree
<1> QED BY <1>1 DEF AddsOne

LEMMA SyncAdds ==
  ASSUME IInv, AInv, Adding, NEW r \in Request, syncCartDetails(r)
  PROVE  OneDetailPerUnit' /\ \A q \in Request : AddsOne(q)'
<1>1. req'[r].pc = "done" /\ \A q \in Request \ {r} : req'[q] = req[q]
  <2>1. Answer(r, "success")
    BY DEF syncCartDetails
  <2> QED BY <2>1 DEF Answer, IInv, RowsOK, TypeOK, HandlerState
<1>2. \A q \in Request : AddsOne(q)'
  BY <1>1, NobodyElse DEF syncCartDetails
<1>3. OneDetailPerUnit'
  <2> DEFINE n == Cardinality(DOMAIN details)
             new == serial.unit + 1
  <2>1. req[r].seen = DOMAIN details /\ req[r].qty = n + 1
    BY DEF AInv, AddsOne, syncCartDetails
  <2>2. /\ DOMAIN details \in SUBSET Unit /\ serial.unit \in Nat
    BY SelectionIs DEF IInv, RowsOK, TypeOK, Unit
  <2>3. IsFiniteSet(DOMAIN details) /\ n \in Nat /\ new \in Nat
    BY <2>2, Counts
  <2>4. Added(serial.unit, DOMAIN details, n + 1) = {new}
    <3>1. (n + 1) - n = 1 /\ n < n + 1 /\ new..new = {new}
      BY <2>3
    <3> QED BY <2>2, <3>1 DEF Added
  <2>5. DOMAIN details' = DOMAIN details \cup {new} /\ cart'.qty = n + 1
    <3>1. ~(n > n + 1)
      BY <2>3
    <3> HIDE DEF n, new
    <3>2. /\ details' = [u \in DOMAIN details \cup {new} |->
                           IF u \in DOMAIN details THEN details[u] ELSE "plain"]
          /\ cart' = [id |-> req[r].cart, qty |-> n + 1]
      BY <2>1, <2>4, <3>1 DEF syncCartDetails, Added, n
    <3> QED BY <3>2
  <2>6. new \notin DOMAIN details
    BY <2>2 DEF IInv, RowsOK, UnitsKnown, Unit
  <2>7. Cardinality(DOMAIN details \cup {new}) = n + 1
    BY <2>3, <2>6, FS_AddElement
  <2> QED BY <2>5, <2>7 DEF OneDetailPerUnit
<1> QED BY <1>2, <1>3

LEMMA UpsertAdds ==
  ASSUME IInv, AInv, Adding, NEW r \in Request, Upsert(r)
  PROVE  OneDetailPerUnit' /\ \A q \in Request : AddsOne(q)'
<1>1. UNCHANGED <<cart, details>> /\ req[r].op = "create"
  BY DEF Upsert, Running
<1>2. /\ req'[r].seen = DOMAIN details /\ req'[r].op = "create"
      /\ req'[r].qty = IF cart = None THEN 1 ELSE cart.qty + 1
      /\ \A q \in Request \ {r} : req'[q] = req[q]
  BY <1>1 DEF Upsert, IInv, RowsOK, TypeOK, HandlerState
<1>3. req'[r].qty = Cardinality(DOMAIN details) + 1
  <2>1. CASE cart = None
    <3>1. DOMAIN details = {}
      BY <2>1, EmptyIs DEF IInv, RowsOK, TypeOK
    <3> QED BY <1>2, <2>1, <3>1, FS_EmptySet
  <2>2. CASE cart # None
    BY <1>2, <2>2 DEF AInv, OneDetailPerUnit
  <2> QED BY <2>1, <2>2
<1>4. OneDetailPerUnit'
  BY <1>1 DEF AInv, OneDetailPerUnit
<1>5. ASSUME NEW q \in Request PROVE AddsOne(q)'
  BY <1>1, <1>2, <1>3, <1>5 DEF AInv, AddsOne
<1> QED BY <1>4, <1>5

LEMMA NextAdds == IInv /\ AInv /\ [Next]_vars => AInv'
<1> SUFFICES ASSUME IInv, AInv, [Next]_vars PROVE AInv'
  OBVIOUS
<1> DEFINE Exact == OneDetailPerUnit /\ \A q \in Request : AddsOne(q)
<1>1. ASSUME NEW r \in Request, Arrive(r) PROVE AInv'
  <2>1. /\ req[r].pc = "idle" /\ req'[r].pc \in {"tx", "begin"}
        /\ \A q \in Request \ {r} : req'[q] = req[q]
        /\ UNCHANGED <<cart, details>>
    BY <1>1, ArriveIsNew
  <2>2. IdleIsNew'
    BY <2>1 DEF AInv, IdleIsNew
  <2>3. Adding' => Adding
    BY <2>1 DEF AInv, IdleIsNew, Adding
  <2>4. Adding => Exact'
    BY <2>1, SameUnits
  <2> QED BY <2>2, <2>3, <2>4 DEF AInv
<1>2. ASSUME NEW r \in Request, Handle(r) PROVE AInv'
  <2>1. /\ req'[r].op = req[r].op /\ req'[r].pc # "idle"
        /\ \A q \in Request \ {r} : req'[q] = req[q]
    BY <1>2, HandlerKeeps
  <2>2. IdleIsNew' /\ (Adding' => Adding)
    BY <2>1 DEF AInv, IdleIsNew, Adding
  <2>3. ASSUME Adding PROVE Exact'
    <3>1. CASE Upsert(r)
      BY <2>3, <3>1, UpsertAdds
    <3>2. CASE syncCartDetails(r)
      BY <2>3, <3>2, SyncAdds
    <3>3. CASE ReadDetails(r) \/ DeleteDetail(r) \/ ApplyCount(r)
      BY <2>3, <3>3 DEF Adding, ReadDetails, DeleteDetail, ApplyCount, Running
    <3>4. CASE RemoveCart(r) \/ Charge(r)
      <4>1. cart' = None /\ CartFree(r)
        BY <3>4, ChargeSees DEF RemoveCart, Charge
      <4>2. req'[r].pc # "write"
        BY <3>4 DEF RemoveCart, Charge, Answer, IInv, RowsOK, TypeOK, HandlerState
      <4> QED BY <2>1, <2>3, <4>1, <4>2, NobodyElse DEF OneDetailPerUnit
    <3>5. CASE SelectSize(r)
      <4>1. DOMAIN details' = DOMAIN details /\ cart' = cart
        BY <3>5 DEF SelectSize
      <4>2. req'[r].pc # "write"
        BY <3>5 DEF SelectSize, Answer, IInv, RowsOK, TypeOK, HandlerState
      <4> QED BY <2>1, <2>3, <4>1, <4>2, SameUnits
    <3>6. CASE \/ Begin(r) \/ Reply(r) \/ Duplicate(r) \/ Conflict(r) \/ Respond(r)
               \/ OnConflict(r) \/ OnDuplicate(r) \/ Fail(r)
      <4>1. UNCHANGED <<cart, details>>
        BY <3>6 DEF Begin, Reply, Duplicate, Conflict, Catch, Respond, OnConflict,
                    OnDuplicate, Fail
      <4>2. req'[r].pc # "write"
        BY <3>6 DEF Begin, Reply, Duplicate, Conflict, Catch, Respond, OnConflict,
                    OnDuplicate, Fail, Answer, IInv, RowsOK, TypeOK, HandlerState
      <4> QED BY <2>1, <2>3, <4>1, <4>2, SameUnits
    <3> QED BY <1>2, <3>1, <3>2, <3>3, <3>4, <3>5, <3>6 DEF Handle
  <2> QED BY <2>2, <2>3 DEF AInv
<1>3. CASE UNCHANGED vars
  BY <1>3 DEF vars, AInv, IdleIsNew, Adding, OneDetailPerUnit, AddsOne
<1> QED BY <1>1, <1>2, <1>3 DEF Next

\* Adds, sales, removals of the cart and choices of size may overlap as they like:
\* one detail per unit remains.
THEOREM AddsAreCounted == Spec => []AddsKeepUnits
<1>1. AInv => AddsKeepUnits
  BY DEF AInv, Adding, AddsKeepUnits
<1> QED BY <1>1, AlwaysInv, InitAdds, NextAdds, PTL DEF Spec
-----------------------------------------------------------------------------
(* The cart and its checkout implement SellOnce.  Besides IInv that needs  *)
(* a cart that is never there without a unit, and that a handler which     *)
(* says "paid" is a checkout and has not answered before.                  *)

CartCounts == cart # None => cart.qty > 0

SaleKnown(r) ==
  /\ req[r].pc = "idle" => req[r].op # "endSale"
  /\ req[r].pc \in {"begin", "body", "committed", "P2034", "P2002"} => req[r].op = "endSale"
  /\ req[r].answer = "paid" => req[r].pc = "done" /\ req[r].op = "endSale"
  /\ req[r].op = "sync" => req[r].qty > 0
  /\ req[r].op = "create" /\ req[r].pc = "write" => req[r].qty > 0

SInv == CartCounts /\ \A r \in Request : SaleKnown(r)

\* At first no handler is under way and a cart has what was put into it.
LEMMA InitSale == Init => SInv
<1> SUFFICES ASSUME Init PROVE SInv
  OBVIOUS
<1>1. CartCounts
  BY DEF Init, CartCounts
<1>2. ASSUME NEW r \in Request PROVE SaleKnown(r)
  <2>1. req[r] = Idle
    BY DEF Init
  <2> QED BY <2>1, NoneIsNoRow DEF Idle, SaleKnown
<1> QED BY <1>1, <1>2 DEF SInv

\* A handler that arrives asks for at least one unit.
LEMMA ArriveSale ==
  ASSUME IInv, SInv, NEW r \in Request, Arrive(r)
  PROVE  SInv'
<1>1. PICK s : Arrived(s) /\ Call(r, s)
  BY ArrivesWith
<1>2. req'[r] = s /\ UNCHANGED cart /\ \A q \in Request \ {r} : req'[q] = req[q]
  BY <1>1 DEF Call, IInv, RowsOK, TypeOK
<1>3. SaleKnown(r)'
  BY <1>1, <1>2, NoneIsNoRow DEF Arrived, SaleKnown, SInv, CartCounts
<1>4. ASSUME NEW q \in Request \ {r} PROVE SaleKnown(q)'
  BY <1>2, <1>4 DEF SInv, SaleKnown
<1> QED BY <1>2, <1>3, <1>4 DEF SInv, CartCounts

\* The quantity of a cart, and of a handler that is about to write it.
LEMMA HandleCounts ==
  ASSUME IInv, SInv, NEW r \in Request, Handle(r)
  PROVE  /\ CartCounts'
         /\ req'[r].op = "sync" => req'[r].qty > 0
         /\ req'[r].op = "create" /\ req'[r].pc = "write" => req'[r].qty > 0
<1>1. /\ req[r] \in HandlerState /\ req \in [Request -> HandlerState] /\ SaleKnown(r)
      /\ cart # None => cart \in SaleTemp /\ cart.qty \in Nat
      /\ CartCounts
  BY DEF IInv, RowsOK, TypeOK, SInv, SaleTemp
<1>2. CASE Upsert(r)
  <2>1. req'[r].op = "create" /\ req'[r].qty = (IF cart = None THEN 1 ELSE cart.qty + 1)
    BY <1>1, <1>2 DEF Upsert, Running, HandlerState
  <2> QED BY <1>1, <1>2, <2>1 DEF Upsert, CartCounts
<1>3. CASE DeleteDetail(r)
  BY <1>1, <1>3 DEF DeleteDetail, Running, HandlerState, CartCounts
<1>4. CASE syncCartDetails(r)
  <2>1. /\ cart' = [id |-> req[r].cart, qty |-> req[r].qty] /\ req[r].qty > 0
        /\ Answer(r, "success")
    BY <1>1, <1>4 DEF syncCartDetails, SaleKnown
  <2> QED BY <1>1, <2>1 DEF Answer, CartCounts, SaleKnown, HandlerState
<1>5. CASE ApplyCount(r)
  <2>1. cart \in SaleTemp
    BY <1>1, <1>5, EmptyIs
    DEF ApplyCount, IInv, RowsOK, TypeOK, HandlerOK, LockHeld, Deleting
  <2>2. cart' = None \/ (cart'.qty = req[r].qty /\ req[r].qty > 0)
    BY <1>5, <2>1 DEF ApplyCount, SaleTemp
  <2>3. Answer(r, "success") /\ req[r].op = "removeDetail"
    BY <1>5 DEF ApplyCount
  <2> QED BY <1>1, <2>2, <2>3 DEF Answer, CartCounts, HandlerState
<1>6. CASE RemoveCart(r) \/ Charge(r)
  <2>1. cart' = None
    BY <1>6, ChargeSees DEF RemoveCart
  <2>2. req'[r].qty = req[r].qty /\ req'[r].pc # "write"
    BY <1>1, <1>6 DEF RemoveCart, Charge, Answer, HandlerState
  <2> QED BY <1>1, <1>6, <2>1, <2>2, HandlerKeeps DEF CartCounts, SaleKnown
<1>7. CASE \/ ReadDetails(r) \/ SelectSize(r) \/ Begin(r) \/ Reply(r) \/ Duplicate(r)
           \/ Conflict(r) \/ Respond(r) \/ OnConflict(r) \/ OnDuplicate(r) \/ Fail(r)
  <2>1. cart' = cart /\ req'[r].qty = req[r].qty
    BY <1>1, <1>7, SMTT(20)
    DEF ReadDetails, SelectSize, Begin, Reply, Duplicate, Conflict, Catch, Respond, OnConflict,
        OnDuplicate, Fail, Answer, HandlerState
  <2>2. req'[r].op = "create" => req'[r].pc # "write"
    BY <1>1, <1>7, SMTT(20)
    DEF ReadDetails, Running, SelectSize, Begin, Reply, Duplicate, Conflict, Catch, Respond,
        OnConflict, OnDuplicate, Fail, Answer, HandlerState
  <2> QED BY <1>1, <1>7, <2>1, <2>2, HandlerKeeps DEF CartCounts, SaleKnown
<1> QED BY <1>2, <1>3, <1>4, <1>5, <1>6, <1>7 DEF Handle

\* A handler of the cart does not become a checkout, and only a checkout says "paid".
LEMMA HandleSale ==
  ASSUME IInv, SInv, NEW r \in Request, Handle(r)
  PROVE  SInv'
<1>1. /\ req[r] \in HandlerState /\ req \in [Request -> HandlerState] /\ SaleKnown(r)
  BY DEF IInv, RowsOK, TypeOK, SInv
<1>2. req'[r].pc \in {"begin", "body", "committed", "P2034", "P2002"} => req[r].op = "endSale"
  <2>1. CASE \/ Upsert(r) \/ ReadDetails(r) \/ DeleteDetail(r)
    BY <1>1, <2>1 DEF Upsert, ReadDetails, DeleteDetail, HandlerState
  <2>2. CASE syncCartDetails(r) \/ ApplyCount(r) \/ SelectSize(r) \/ RemoveCart(r)
    BY <1>1, <2>2
    DEF syncCartDetails, ApplyCount, SelectSize, RemoveCart, Answer, HandlerState
  <2>3. CASE Reply(r) \/ Respond(r) \/ OnDuplicate(r) \/ Fail(r)
    BY <1>1, <2>3 DEF Reply, Respond, OnDuplicate, Fail, Answer, HandlerState
  <2>4. CASE Begin(r) \/ Duplicate(r) \/ Conflict(r) \/ Charge(r) \/ OnConflict(r)
    BY <1>1, <2>4 DEF Begin, Duplicate, Conflict, Charge, Accepted, OnConflict, SaleKnown
  <2> QED BY <2>1, <2>2, <2>3, <2>4 DEF Handle
<1>3. req'[r].answer = "paid" => req'[r].pc = "done" /\ req[r].op = "endSale"
  <2>1. req'[r].answer = req[r].answer \/ req'[r].pc = "done"
    BY HandlerKeeps
  <2>2. req[r].answer # "paid"
    BY <1>1, HandlerKeeps DEF SaleKnown
  <2>3. CASE syncCartDetails(r) \/ ApplyCount(r) \/ SelectSize(r) \/ RemoveCart(r)
    BY <1>1, <2>3
    DEF syncCartDetails, ApplyCount, SelectSize, RemoveCart, Answer, HandlerState
  <2>4. CASE Reply(r) \/ Respond(r) \/ OnDuplicate(r) \/ OnConflict(r)
    BY <1>1, <2>1, <2>2, <2>4 DEF Reply, Respond, OnDuplicate, OnConflict, SaleKnown
  <2>5. CASE Fail(r)
    BY <1>1, <2>5 DEF Fail, Answer, HandlerState
  <2>6. CASE \/ Upsert(r) \/ ReadDetails(r) \/ DeleteDetail(r) \/ Begin(r) \/ Duplicate(r)
             \/ Conflict(r) \/ Charge(r)
    <3>1. req'[r].answer = req[r].answer
      BY <1>1, <2>6
      DEF Upsert, ReadDetails, DeleteDetail, Begin, Duplicate, Conflict, Catch, Charge,
          HandlerState
    <3> QED BY <2>2, <3>1
  <2> QED BY <2>3, <2>4, <2>5, <2>6 DEF Handle
<1>4. SaleKnown(r)'
  BY <1>1, <1>2, <1>3, HandlerKeeps, HandleCounts DEF SaleKnown
<1>5. ASSUME NEW q \in Request \ {r} PROVE SaleKnown(q)'
  BY <1>5, HandlerKeeps DEF SInv, SaleKnown
<1> QED BY <1>4, <1>5, HandleCounts DEF SInv

LEMMA NextSale == IInv /\ SInv /\ [Next]_vars => SInv'
<1>1. CASE UNCHANGED vars
  BY <1>1 DEF vars, SInv, CartCounts, SaleKnown
<1> QED BY <1>1, ArriveSale, HandleSale DEF Next

-----------------------------------------------------------------------------
(* Every step is one of SellOnce, or changes nothing that it knows of.     *)

Handed == 1..serial.unit
promised == <<details, Handed, Asking, Sold, Told>>
Simulated == Promise!Next \/ UNCHANGED promised

LEMMA InitRefines == Init => Promise!Init
<1> SUFFICES ASSUME Init PROVE Promise!Init
  OBVIOUS
<1>1. PICK n \in 0..MaxQty : /\ n <= MaxUnit /\ details = [u \in 1..n |-> "plain"]
                             /\ serial = [cart |-> IF n = 0 THEN 0 ELSE 1, unit |-> n]
  BY DEF Init
<1>2. serial.unit = n /\ 1..n \subseteq Unit
  BY <1>1, CartAssumption DEF Unit
<1>3. \A r \in Request : req[r].op # "endSale" /\ req[r].answer # "paid"
  BY NoneIsNoRow DEF Init, Idle
<1>4. Asking = [r \in Request |-> None] /\ Told = {}
  BY <1>3 DEF Asking, Told
<1>5. Sold = [k \in Key |-> None]
  BY DEF Init, Sold
<1> QED BY <1>1, <1>2, <1>4, <1>5 DEF Promise!Init

\* A checkout that arrives asks for a sale; the other arrivals change nothing promised.
LEMMA AskRefines ==
  ASSUME IInv, SInv, NEW r \in Request, Arrive(r)
  PROVE  Simulated
<1>1. PICK s : Arrived(s) /\ Call(r, s)
  BY ArrivesWith
<1>2. /\ req'[r] = s /\ UNCHANGED <<details, serial, bills>>
      /\ \A q \in Request \ {r} : req'[q] = req[q]
  BY <1>1 DEF Call, IInv, RowsOK, TypeOK
<1>3. req[r].op # "endSale" /\ req[r].answer # "paid" /\ s.answer # "paid"
  BY <1>1, NoneIsNoRow DEF Call, Arrived, SInv, SaleKnown
<1>4. UNCHANGED <<details, Handed, Sold, Told>>
  BY <1>2, <1>3 DEF Handed, Sold, Told
<1>5. CASE s.op # "endSale"
  BY <1>2, <1>3, <1>4, <1>5 DEF Asking, Simulated, promised
<1>6. CASE s.op = "endSale"
  <2>1. s.key \in Key /\ s.pay \in Payment
    BY <1>1, <1>6 DEF Arrived
  <2>2. Asking[r] = None /\ Asking' = [Asking EXCEPT ![r] = [key |-> s.key, pay |-> s.pay]]
    BY <1>2, <1>3, <1>6 DEF Asking
  <2>3. Promise!Ask(r, s.key, s.pay)
    BY <1>4, <2>2 DEF Promise!Ask, Handed
  <2> QED BY <2>1, <2>3 DEF Promise!Next, Simulated
<1> QED BY <1>5, <1>6

\* What handlers ask for stays; what they were told stays unless one is told "paid" now.
LEMMA HandleTells ==
  ASSUME IInv, SInv, NEW r \in Request, Handle(r)
  PROVE  /\ UNCHANGED Asking
         /\ req'[r].answer # "paid" => UNCHANGED Told
         /\ req'[r].answer = "paid" => Told' = Told \cup {r}
<1>1. UNCHANGED Asking
  BY HandlerKeeps DEF Asking
<1>2. req[r].answer # "paid" /\ \A q \in Request \ {r} : req'[q] = req[q]
  BY HandlerKeeps DEF SInv, SaleKnown
<1> QED BY <1>1, <1>2 DEF Told

\* A step of a handler that leaves the rows alone and does not say "paid".
LEMMA QuietRefines ==
  ASSUME IInv, SInv, NEW r \in Request, Handle(r), UNCHANGED <<details, serial, bills>>,
         req'[r].answer # "paid"
  PROVE  Simulated
BY HandleTells DEF Simulated, promised, Handed, Sold

\* "Paid" is said of the bill of the key, which has this payment.
LEMMA TellRefines ==
  ASSUME IInv, SInv, NEW r \in Request, Handle(r), UNCHANGED <<details, serial, bills>>,
         req'[r].answer = "paid"
  PROVE  Simulated
<1>1. SInv' /\ IInv'
  BY HandleSale, NextInv DEF Next
<1>2. PICK k \in Key, p \in Payment : k = req[r].key /\ p = req[r].pay
  BY <1>1, HandlerKeeps DEF IInv, HandlerOK, WellFormed
<1>3. bills[k] # None /\ bills[k].pay = p
  BY <1>1, <1>2, HandlerKeeps DEF IInv, HandlerOK, Billed
<1>4. /\ Asking[r] = [key |-> k, pay |-> p] /\ Asking[r] # None
      /\ Sold[k] # None /\ Sold[k].pay = p
  <2>1. req[r].op = "endSale"
    BY <1>1, HandlerKeeps DEF SInv, SaleKnown
  <2>2. bills[k] \in BillSale
    BY <1>3 DEF IInv, RowsOK, TypeOK
  <2>3. [pay |-> bills[k].pay, lines |-> bills[k].lines] \in [pay : Payment, lines : Selection]
    BY <2>2 DEF BillSale
  <2> QED BY <1>2, <1>3, <2>1, <2>3, NoneIsNoRow DEF Asking, Sold
<1>5. UNCHANGED <<details, Handed, Asking, Sold>> /\ Told' = Told \cup {r}
  BY HandleTells DEF Handed, Sold
<1>6. Promise!Tell(r)
  BY <1>4, <1>5 DEF Promise!Tell, Handed
<1> QED BY <1>6 DEF Promise!Next, Simulated

\* A handler of the cart that ends tells nobody "paid" and sells nothing.
LEMMA CartRefines ==
  ASSUME IInv, SInv, NEW r \in Request, Handle(r), Answer(r, "success"), UNCHANGED bills
  PROVE  UNCHANGED <<Asking, Sold, Told>>
<1>1. req'[r].answer # "paid"
  BY DEF Answer, IInv, RowsOK, TypeOK, HandlerState
<1> QED BY <1>1, HandleTells DEF Sold

\* Details are deleted: their units are dropped.
LEMMA DropRefines ==
  ASSUME IInv, SInv, NEW r \in Request, Handle(r), Answer(r, "success"),
         UNCHANGED <<serial, bills>>, NEW S \in SUBSET Unit,
         details' = [u \in DOMAIN details \ S |-> details[u]]
  PROVE  Simulated
<1>1. UNCHANGED <<Handed, Asking, Sold, Told>>
  BY CartRefines DEF Handed
<1>2. Promise!Drop(S)
  BY <1>1 DEF Promise!Drop, Promise!Without, Handed
<1> QED BY <1>2 DEF Promise!Next, Simulated

\* Details are added, with ids never used, or deleted.
LEMMA SyncRefines ==
  ASSUME IInv, SInv, NEW r \in Request, Handle(r), syncCartDetails(r)
  PROVE  Simulated
<1> DEFINE qty == req[r].qty
           seen == req[r].seen
           last == serial.unit
           added == Added(last, seen, qty)
           removed == IF Cardinality(seen) > qty
                      THEN Youngest(seen, Cardinality(seen) - qty) ELSE {}
           kept == DOMAIN details \ removed
<1>1. /\ qty \in Nat /\ seen \in SUBSET Unit /\ last \in Unit \cup {0} /\ last \in Nat
      /\ DOMAIN details \subseteq Unit /\ \A u \in DOMAIN details : u <= last
      /\ serial \in [cart : Nat, unit : Unit \cup {0}]
  BY SelectionIs DEF IInv, RowsOK, TypeOK, HandlerState, UnitsKnown, Unit
<1>2. /\ Answer(r, "success") /\ UNCHANGED bills /\ added \subseteq Unit
      /\ details' = [u \in kept \cup added |-> IF u \in kept THEN details[u] ELSE "plain"]
      /\ serial'.unit = Highest(added \cup {last})
  BY DEF syncCartDetails, Added
<1>3. Handed' = Handed \cup added /\ \A u \in added : u > last
  <2>1. PICK top \in Nat : /\ last <= top /\ added = (last + 1)..top
                           /\ Highest(added \cup {last}) = top
    BY <1>1, <1>2, AddedSpan
  <2> HIDE DEF added, last
  <2>2. Handed' = 1..top /\ Handed = 1..last
    BY <1>2, <2>1 DEF Handed, last
  <2> QED BY <1>1, <2>1, <2>2
<1>4. /\ Cardinality(seen) > qty => added = {}
      /\ ~(Cardinality(seen) > qty) => removed = {}
      /\ removed \in SUBSET Unit
  BY <1>1, Counts DEF Added, Youngest
<1>5. UNCHANGED <<Asking, Sold, Told>>
  BY <1>2, CartRefines
<1> HIDE DEF added, removed
<1>6. CASE added = {}
  <2>1. details' = [u \in DOMAIN details \ removed |-> details[u]]
    BY <1>2, <1>6
  <2>2. UNCHANGED Handed
    BY <1>3, <1>6
  <2>3. Promise!Drop(removed)
    BY <1>5, <2>1, <2>2 DEF Promise!Drop, Promise!Without, Handed
  <2> QED BY <1>4, <2>3 DEF Promise!Next, Simulated
<1>7. CASE removed = {}
  <2>1. added \cap Handed = {} /\ added \cap DOMAIN details = {}
    BY <1>1, <1>2, <1>3 DEF Handed, Unit
  <2>2. details' = [u \in DOMAIN details \cup added |-> IF u \in added THEN "plain" ELSE details[u]]
    BY <1>2, <1>7, <2>1
  <2>3. Promise!Put(added)
    BY <1>3, <1>5, <2>1, <2>2 DEF Promise!Put, Handed
  <2> QED BY <1>2, <2>3 DEF Promise!Next, Simulated
<1> QED BY <1>4, <1>6, <1>7

\* A size is chosen for a unit.
LEMMA ResizeRefines ==
  ASSUME IInv, SInv, NEW r \in Request, Handle(r), SelectSize(r)
  PROVE  Simulated
<1>1. PICK u \in Unit, size \in Size :
         u \in DOMAIN details /\ details' = [details EXCEPT ![u] = size]
  BY SelectionIs DEF SelectSize, IInv, RowsOK, TypeOK
<1>2. UNCHANGED <<Handed, Asking, Sold, Told>>
  BY CartRefines DEF SelectSize, Handed
<1>3. Promise!Resize(u, size)
  BY <1>1, <1>2 DEF Promise!Resize, Handed
<1> QED BY <1>3 DEF Promise!Next, Simulated

\* A checkout sells the cart that is there, with at least one unit, for enough.
LEMMA SellRefines ==
  ASSUME IInv, SInv, NEW r \in Request, Handle(r), Charge(r)
  PROVE  Simulated
<1>1. PICK k \in Key, p \in Payment : k = req[r].key /\ p = req[r].pay
  BY ChargeSees
<1> DEFINE bill == [pay |-> p, lines |-> details, amount |-> Total(details)]
<1>2. /\ bills[k] = None /\ bills' = [bills EXCEPT ![k] = bill] /\ details' = Empty
      /\ cart # None /\ Cardinality(DOMAIN details) = cart.qty
      /\ req[r].snap.details = details
  BY <1>1, ChargeSees
<1>3. details \in Selection /\ bills \in [Key -> BillSale \cup {None}]
  BY DEF IInv, RowsOK, TypeOK
<1>4. bill # None /\ bill.pay = p /\ bill.lines = details
  <2>1. bill \in BillSale
    BY <1>3, TotalType DEF BillSale
  <2> QED BY <2>1, NoneIsNoRow
<1>5. Sold[k] = None /\ Sold' = [Sold EXCEPT ![k] = [pay |-> p, lines |-> details]]
  <2> HIDE DEF bill
  <2> QED BY <1>2, <1>3, <1>4 DEF Sold
<1>6. DOMAIN details # {}
  <2>1. cart.qty > 0
    BY <1>2 DEF SInv, CartCounts
  <2> QED BY <1>2, <2>1, FS_EmptySet
<1>7. <<p, details>> \in PaysFor
  <2>1. p.payType = "bank" \/ p.inputMoney >= Total(details)
    BY <1>1, <1>2 DEF Charge, Accepted, Covered
  <2> QED BY <1>3, <2>1 DEF PaysFor
<1>8. Asking[r] = [key |-> k, pay |-> p] /\ Asking[r] # None
  <2>1. req[r].op = "endSale"
    BY DEF Charge, Accepted, SInv, SaleKnown
  <2> QED BY <1>1, <2>1, NoneIsNoRow DEF Asking
<1>9. UNCHANGED <<Handed, Asking, Told>>
  <2>1. req'[r].answer # "paid"
    BY HandlerKeeps DEF Charge, IInv, RowsOK, TypeOK, HandlerState, SInv, SaleKnown
  <2> QED BY <2>1, HandleTells DEF Charge, Handed
<1>10. details' = [u \in DOMAIN details \ DOMAIN details |-> details[u]]
  BY <1>2, NothingLeft
<1>11. Promise!Sell(r)
  BY <1>5, <1>6, <1>7, <1>8, <1>9, <1>10 DEF Promise!Sell, Promise!Without, Handed
<1> QED BY <1>11 DEF Promise!Next, Simulated

LEMMA NextRefines == IInv /\ SInv /\ [Next]_vars => Simulated
<1> SUFFICES ASSUME IInv, SInv, [Next]_vars PROVE Simulated
  OBVIOUS
<1>1. ASSUME NEW r \in Request, Handle(r) PROVE Simulated
  <2>1. CASE ApplyCount(r)
    <3>1. {req[r].unit} \in SUBSET Unit
      BY <2>1, SelectionIs
      DEF ApplyCount, IInv, RowsOK, TypeOK, HandlerOK, LockHeld, Deleting
    <3> QED BY <1>1, <2>1, <3>1, DropRefines DEF ApplyCount
  <2>2. CASE RemoveCart(r)
    <3>1. DOMAIN details \in SUBSET Unit
      BY SelectionIs DEF IInv, RowsOK, TypeOK
    <3>2. details' = [u \in DOMAIN details \ DOMAIN details |-> details[u]]
      BY <2>2, NothingLeft DEF RemoveCart
    <3> QED BY <1>1, <2>2, <3>1, <3>2, DropRefines DEF RemoveCart
  <2>3. CASE \/ Upsert(r) \/ ReadDetails(r) \/ DeleteDetail(r) \/ Begin(r) \/ Reply(r)
             \/ Duplicate(r) \/ Conflict(r) \/ Respond(r) \/ OnConflict(r) \/ OnDuplicate(r)
             \/ Fail(r)
    <3>1. UNCHANGED <<details, serial, bills>>
      BY <2>3
      DEF Upsert, ReadDetails, DeleteDetail, Begin, Reply, Duplicate, Conflict, Catch, Respond,
          OnConflict, OnDuplicate, Fail
    <3> QED BY <1>1, <3>1, QuietRefines, TellRefines
  <2> QED BY <1>1, <2>1, <2>2, <2>3, SyncRefines, ResizeRefines, SellRefines DEF Handle
<1>2. CASE UNCHANGED vars
  BY <1>2 DEF vars, Simulated, promised, Handed, Asking, Sold, Told
<1> QED BY <1>1, <1>2, AskRefines DEF Next

\* Whatever handlers, retries and lost answers do to the cart, it keeps the promise.
THEOREM SellsOnceHolds == Spec => SellsOnce
<1>1. IInv /\ SInv /\ [Next]_vars =>
        [Promise!Next]_<<details, 1..serial.unit, Asking, Sold, Told>>
  BY NextRefines DEF Simulated, promised, Handed
<1> QED
  BY <1>1, InitRefines, InitSale, NextSale, AlwaysInv, PTL DEF Spec, SellsOnce, Promise!Spec
=============================================================================
