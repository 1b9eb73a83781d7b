------------------------ MODULE OrderLifecycleProofs ------------------------
(* Proofs about OrderLifecycle for every value of its constants.           *)
EXTENDS OrderLifecycle, FiniteSums

(* The inductive invariant.                                                *)

\* preparingAt, which the cancellation guard reads, agrees with the status and
\* with the history, which the property reads.
StagedRow(row) ==
  /\ row.status \in {"PREPARING", "READY", "SERVED"} => row.preparingAt = "set"
  /\ row.preparingAt = "set" =>
       row.status \in {"PREPARING", "READY", "SERVED", "PAID", "COMPLETED"}
  /\ KitchenBegan(row) => row.preparingAt = "set"

RowOK(row) == row \in OrderRow /\ AuditedRow(row) /\ StagedRow(row)

OrdersOK == orders \in [Order -> OrderRow] /\ \A o \in Order : RowOK(orders[o])

\* A row that does not exist belongs to no session and no bill, a table channel
\* has a session, and the bill of an order was issued.
Placed ==
  \A o \in Order :
     LET row == orders[o] IN
     /\ row.status = "NONE" =>
          row.session = NoSession /\ row.bill = NoBill /\ row.version = 0
     /\ row.status # "NONE" /\ row.channel # "COUNTER" => row.session # NoSession
     /\ row.bill # NoBill => bills[row.bill].status = "use"

\* The refund of an order returns the bill that order is on.
RefundOfOwnBill ==
  \A o \in Order :
     refunds[o].status # "NONE" => refunds[o].bill = orders[o].bill

IInv ==
  /\ OrdersOK
  /\ bills \in [Bill -> BillRow]
  /\ refunds \in [Order -> RefundRow]
  /\ sessions \in [Session -> SessionRow]
  /\ Placed
  /\ PaymentMatchesStatus
  /\ RefundOfOwnBill
  /\ RefundIsWholePayment
  /\ ClosedSessionSettled

\* A status an order may take next without losing or forging a kitchen start.
KeepsStage(row, to) ==
  /\ to \in Status \ {"NONE"}
  /\ to \in {"READY", "SERVED"} => row.preparingAt = "set"
  /\ row.preparingAt = "set" =>
       to \in {"PREPARING", "READY", "SERVED", "PAID", "COMPLETED"}

-----------------------------------------------------------------------------
(* Facts about one Order row.                                              *)

NewHistory(row, to) ==
  Append(row.history,
         [from |-> row.status, to |-> to, version |-> row.version + 1])

LEMMA NewHistoryType ==
  ASSUME NEW row \in OrderRow, NEW to \in Status
  PROVE  /\ NewHistory(row, to) \in Seq(HistoryRow)
         /\ Len(NewHistory(row, to)) = Len(row.history) + 1
         /\ NewHistory(row, to)[Len(row.history) + 1] =
              [from |-> row.status, to |-> to, version |-> row.version + 1]
         /\ \A v \in 1..Len(row.history) :
               NewHistory(row, to)[v] = row.history[v]
BY DEF NewHistory, OrderRow, HistoryRow

LEMMA AdvanceFields ==
  ASSUME NEW row \in OrderRow, NEW to \in Status
  PROVE  /\ Advance(row, to).status = to
         /\ Advance(row, to).version = row.version + 1
         /\ Advance(row, to).channel = row.channel
         /\ Advance(row, to).session = row.session
         /\ Advance(row, to).creator = row.creator
         /\ Advance(row, to).total = row.total
         /\ Advance(row, to).bill = row.bill
         /\ Advance(row, to).preparingAt =
              IF to = "PREPARING" THEN "set" ELSE row.preparingAt
         /\ Advance(row, to).history = NewHistory(row, to)
<1>1. /\ Advance(row, to).status = to
      /\ Advance(row, to).version = row.version + 1
      /\ Advance(row, to).channel = row.channel
      /\ Advance(row, to).session = row.session
      /\ Advance(row, to).creator = row.creator
  BY DEF Advance, OrderRow
<1>2. /\ Advance(row, to).total = row.total
      /\ Advance(row, to).bill = row.bill
      /\ Advance(row, to).preparingAt =
           IF to = "PREPARING" THEN "set" ELSE row.preparingAt
  BY DEF Advance, OrderRow
<1>3. Advance(row, to).history = NewHistory(row, to)
  BY DEF Advance, OrderRow, NewHistory
<1> QED BY <1>1, <1>2, <1>3

LEMMA AdvanceType ==
  ASSUME NEW row \in OrderRow, NEW to \in Status
  PROVE  Advance(row, to) \in OrderRow
<1> DEFINE h == NewHistory(row, to)
           p == IF to = "PREPARING" THEN "set" ELSE row.preparingAt
           r1 == [row EXCEPT !.status = to]
           r2 == [r1 EXCEPT !.version = row.version + 1]
           r3 == [r2 EXCEPT !.preparingAt = p]
           r4 == [r3 EXCEPT !.history = h]
<1>1. h \in Seq(HistoryRow)
  BY NewHistoryType
<1>2. p \in {"null", "set"} /\ row.version + 1 \in Nat
  BY DEF OrderRow
<1>3. Advance(row, to) = r4
  BY DEF Advance, NewHistory
<1>4. r1 \in OrderRow
  BY DEF OrderRow
<1> HIDE DEF r1
<1>5. r2 \in OrderRow
  BY <1>2, <1>4 DEF OrderRow
<1> HIDE DEF r2
<1>6. r3 \in OrderRow
  BY <1>2, <1>5 DEF OrderRow
<1> HIDE DEF r3, h, p
<1>7. r4 \in OrderRow
  BY <1>1, <1>6 DEF OrderRow
<1> QED BY <1>3, <1>7

LEMMA AdvanceAudited ==
  ASSUME NEW row \in OrderRow, NEW to \in Status, AuditedRow(row)
  PROVE  AuditedRow(Advance(row, to))
<1> DEFINE h == row.history
           n == NewHistory(row, to)
           last == Len(h) + 1
           new == [from |-> row.status, to |-> to, version |-> row.version + 1]
<1>1. /\ h \in Seq(HistoryRow) /\ Len(h) \in Nat
      /\ row.version = Len(h)
      /\ row.status = IF Len(h) = 0 THEN "NONE" ELSE h[Len(h)].to
      /\ \A v \in 1..Len(h) :
            h[v].version = v /\ h[v].from = IF v - 1 = 0 THEN "NONE" ELSE h[v - 1].to
  BY DEF AuditedRow, OrderRow
<1>2. /\ Len(n) = last
      /\ n[last] = new
      /\ \A v \in 1..Len(h) : n[v] = h[v]
  BY NewHistoryType
<1>3. new.from = row.status /\ new.to = to /\ new.version = row.version + 1
  OBVIOUS
<1>4. /\ Advance(row, to).history = n
      /\ Advance(row, to).version = row.version + 1
      /\ Advance(row, to).status = to
  BY AdvanceFields
<1> HIDE DEF new, n, h
<1>5. ASSUME NEW v \in 1..last
      PROVE  n[v].version = v
             /\ n[v].from = IF v - 1 = 0 THEN "NONE" ELSE n[v - 1].to
  <2>1. CASE v = last
    BY <1>1, <1>2, <1>3, <2>1 DEF last
  <2>2. CASE v \in 1..Len(h)
    BY <1>1, <1>2, <2>2
  <2> QED BY <2>1, <2>2, <1>1 DEF last
<1>6. to = IF last = 0 THEN "NONE" ELSE n[last].to
  BY <1>1, <1>2, <1>3 DEF last
<1> QED BY <1>1, <1>2, <1>4, <1>5, <1>6 DEF AuditedRow, last

LEMMA AdvanceRowOK ==
  ASSUME NEW row, RowOK(row), NEW to, KeepsStage(row, to)
  PROVE  RowOK(Advance(row, to))
<1> USE DEF KeepsStage
<1>1. row \in OrderRow /\ to \in Status /\ Len(row.history) \in Nat
  BY DEF RowOK, OrderRow
<1>2. Advance(row, to) \in OrderRow /\ AuditedRow(Advance(row, to))
  BY <1>1, AdvanceType, AdvanceAudited DEF RowOK
<1>3. /\ Advance(row, to).status = to
      /\ Advance(row, to).preparingAt =
           IF to = "PREPARING" THEN "set" ELSE row.preparingAt
      /\ Advance(row, to).history = NewHistory(row, to)
  BY <1>1, AdvanceFields
<1>4. KitchenBegan(Advance(row, to)) =>
        KitchenBegan(row) \/ to \in {"PREPARING", "READY", "SERVED"}
  <2> DEFINE n == NewHistory(row, to)
  <2>1. /\ Len(n) = Len(row.history) + 1
        /\ n[Len(row.history) + 1] =
             [from |-> row.status, to |-> to, version |-> row.version + 1]
        /\ \A v \in 1..Len(row.history) : n[v] = row.history[v]
    BY <1>1, NewHistoryType
  <2>2. Advance(row, to).history = n
    BY <1>3
  <2> HIDE DEF n
  <2>3. ASSUME NEW v \in 1..Len(n), n[v].to \in {"PREPARING", "READY", "SERVED"}
        PROVE  KitchenBegan(row) \/ to \in {"PREPARING", "READY", "SERVED"}
    BY <1>1, <2>1, <2>3 DEF KitchenBegan
  <2> QED BY <2>2, <2>3 DEF KitchenBegan
<1>5. StagedRow(row)
  BY DEF RowOK
<1>6. StagedRow(Advance(row, to))
  BY <1>3, <1>4, <1>5 DEF StagedRow
<1>7. Advance(row, to).status # "NONE"
  BY <1>3
<1> QED BY <1>2, <1>6, <1>7 DEF RowOK

\* Being put on a bill disturbs nothing else in the row.
LEMMA BillRowOK ==
  ASSUME NEW row, RowOK(row), NEW b \in Bill
  PROVE  LET r == [row EXCEPT !.bill = b] IN
         /\ RowOK(r)
         /\ r.bill = b
         /\ r.status = row.status
         /\ r.version = row.version
         /\ r.channel = row.channel
         /\ r.session = row.session
         /\ r.total = row.total
         /\ r.preparingAt = row.preparingAt
         /\ r.history = row.history
<1> DEFINE r == [row EXCEPT !.bill = b]
<1>1. row \in OrderRow
  BY DEF RowOK
<1>2. r \in OrderRow
  BY <1>1 DEF OrderRow
<1>3. /\ r.bill = b
      /\ r.status = row.status
      /\ r.version = row.version
      /\ r.channel = row.channel
      /\ r.session = row.session
  BY <1>1 DEF OrderRow
<1>4. /\ r.total = row.total
      /\ r.preparingAt = row.preparingAt
      /\ r.history = row.history
  BY <1>1 DEF OrderRow
<1> HIDE DEF r
<1>5. AuditedRow(r)
  BY <1>3, <1>4 DEF RowOK, AuditedRow
<1>6. StagedRow(r)
  BY <1>3, <1>4 DEF RowOK, StagedRow, KitchenBegan
<1>7. RowOK(r)
  BY <1>2, <1>5, <1>6 DEF RowOK
<1> QED BY <1>3, <1>4, <1>7 DEF r

\* A later row of the same order: a higher version over the same past.
Extends(r, row) ==
  /\ r.version > row.version
  /\ \A v \in 1..row.version : r.history[v] = row.history[v]

LEMMA AdvanceExtends ==
  ASSUME NEW row \in OrderRow, AuditedRow(row), NEW to \in Status
  PROVE  Extends(Advance(row, to), row)
<1>1. row.version = Len(row.history) /\ Len(row.history) \in Nat
  BY DEF AuditedRow, OrderRow
<1>2. /\ Advance(row, to).history = NewHistory(row, to)
      /\ Advance(row, to).version = row.version + 1
  BY AdvanceFields
<1>3. \A v \in 1..Len(row.history) : NewHistory(row, to)[v] = row.history[v]
  BY NewHistoryType
<1> QED BY <1>1, <1>2, <1>3 DEF Extends

LEMMA ExtendsTransitive ==
  ASSUME NEW p \in OrderRow, NEW q \in OrderRow, NEW r \in OrderRow,
         Extends(q, p), Extends(r, q)
  PROVE  Extends(r, p)
<1>1. p.version \in Nat /\ q.version \in Nat /\ r.version \in Nat
  BY DEF OrderRow
<1> QED BY <1>1 DEF Extends

-----------------------------------------------------------------------------
(* A step that writes one Order row, and at most issues one bill for it.   *)

\* The bill of one Counter order.
OwnBill(r) == [status |-> "use", amount |-> r.total, session |-> NoSession]

OrderStep(o, r) ==
  /\ orders[o].status \notin TERMINAL_ORDER_STATUSES
  /\ RowOK(r)
  /\ Extends(r, orders[o])
  /\ r.status \notin {"NONE", "PAID"}
  /\ orders' = [orders EXCEPT ![o] = r]
  /\ bills' \in [Bill -> BillRow]
  /\ \A b \in Bill : bills[b].status = "use" => bills'[b] = bills[b]
  /\ \/ r.bill = orders[o].bill /\ bills' = bills
     \/ /\ orders[o].bill = NoBill
        /\ r.bill \in Bill
        /\ bills[r.bill].status = "NONE"
        /\ bills' = [bills EXCEPT ![r.bill] = OwnBill(r)]
  /\ orders[o].bill # NoBill => r.total = orders[o].total
  /\ \/ r.session = orders[o].session
     \/ orders[o].status = "NONE" /\ r.session \in Session
        /\ sessions[r.session].status = "OPEN"
  /\ r.channel # "COUNTER" => r.session # NoSession
  /\ r.status \in {"SERVED", "REJECTED", "CANCELLED"} => r.bill = NoBill
  /\ r.status = "COMPLETED" => r.bill # NoBill
  /\ r.session # NoSession => r.bill = NoBill
  /\ refunds' = refunds
  /\ sessions' = sessions

LEMMA OrderStepInv ==
  ASSUME IInv, NEW o \in Order, NEW r, OrderStep(o, r)
  PROVE  IInv'
<1>1. /\ orders \in [Order -> OrderRow]
      /\ \A p \in Order : RowOK(orders[p])
      /\ r \in OrderRow
  BY DEF IInv, OrdersOK, OrderStep, RowOK
<1>2. \A p \in Order : orders'[p] = IF p = o THEN r ELSE orders[p]
  BY <1>1 DEF OrderStep
<1>3. refunds[o].status = "NONE"
  BY DEF IInv, PaymentMatchesStatus, RefundIsWholePayment, RefundOfOwnBill,
         OrderStep, TERMINAL_ORDER_STATUSES
<1>4. OrdersOK'
  <2>1. orders' \in [Order -> OrderRow]
    BY <1>1 DEF OrderStep
  <2> QED BY <1>1, <1>2, <2>1 DEF OrdersOK, OrderStep
<1>5. Placed'
  <2> SUFFICES ASSUME NEW p \in Order
               PROVE  LET row == orders'[p] IN
                      /\ row.status = "NONE" =>
                           row.session = NoSession /\ row.bill = NoBill /\ row.version = 0
                      /\ row.status # "NONE" /\ row.channel # "COUNTER"
                           => row.session # NoSession
                      /\ row.bill # NoBill => bills'[row.bill].status = "use"
    BY DEF Placed
  <2>1. CASE p = o
    <3>1. orders'[p] = r
      BY <1>2, <2>1
    <3>2. ASSUME r.bill # NoBill PROVE bills'[r.bill].status = "use"
      <4>1. CASE r.bill = orders[o].bill
        BY <1>1, <3>2, <4>1 DEF IInv, Placed, OrderStep, OrderRow
      <4>2. CASE r.bill # orders[o].bill
        <5>1. bills' = [bills EXCEPT ![r.bill] = OwnBill(r)] /\ r.bill \in Bill
              /\ bills \in [Bill -> BillRow]
          BY <4>2 DEF OrderStep, IInv
        <5>2. OwnBill(r).status = "use"
          BY DEF OwnBill
        <5> QED BY <5>1, <5>2
      <4> QED BY <4>1, <4>2
    <3> QED BY <3>1, <3>2 DEF OrderStep
  <2>2. CASE p # o
    <3>1. orders'[p] = orders[p] /\ orders[p].bill \in Bill \cup {NoBill}
      BY <1>1, <1>2, <2>2 DEF OrderRow
    <3> QED BY <3>1 DEF IInv, Placed, OrderStep
  <2> QED BY <2>1, <2>2
<1>6. PaymentMatchesStatus'
  BY <1>2, <1>3 DEF IInv, PaymentMatchesStatus, OrderStep
<1>7. RefundOfOwnBill'
  BY <1>2, <1>3 DEF IInv, RefundOfOwnBill, OrderStep
<1>8. RefundIsWholePayment'
  BY <1>2, <1>3 DEF IInv, RefundIsWholePayment, OrdersOn, OrderStep
<1>9. ClosedSessionSettled'
  BY <1>2, ConstantsAssumption
     DEF IInv, ClosedSessionSettled, OrdersOf, ActiveCall, OrderStep
<1> QED BY <1>4, <1>5, <1>6, <1>7, <1>8, <1>9 DEF IInv, OrderStep

-----------------------------------------------------------------------------
(* What each update of a row leaves.                                       *)

SamePlace(r, row) ==
  r.channel = row.channel /\ r.session = row.session /\ r.total = row.total

LEMMA AdvanceOK ==
  ASSUME NEW row, RowOK(row), NEW to, KeepsStage(row, to)
  PROVE  LET r == Advance(row, to) IN
         /\ RowOK(r) /\ Extends(r, row) /\ SamePlace(r, row)
         /\ r.status = to /\ r.bill = row.bill
         /\ r.preparingAt = IF to = "PREPARING" THEN "set" ELSE row.preparingAt
<1>1. row \in OrderRow /\ AuditedRow(row) /\ to \in Status
  BY DEF RowOK, KeepsStage
<1>2. RowOK(Advance(row, to))
  BY AdvanceRowOK
<1>3. Extends(Advance(row, to), row)
  BY <1>1, AdvanceExtends
<1>4. SamePlace(Advance(row, to), row)
  BY <1>1, AdvanceFields DEF SamePlace
<1>5. Advance(row, to).status = to /\ Advance(row, to).bill = row.bill
  BY <1>1, AdvanceFields
<1>6. Advance(row, to).preparingAt =
        IF to = "PREPARING" THEN "set" ELSE row.preparingAt
  BY <1>1, AdvanceFields
<1> QED BY <1>2, <1>3, <1>4, <1>5, <1>6

LEMMA NewOrderOK ==
  ASSUME NEW channel \in {"COUNTER", "QR", "STAFF"},
         NEW s \in Session \cup {NoSession}, NEW u \in Staff \cup {NoUser},
         NEW total \in Cents
  PROVE  LET r == NewOrder(channel, s, u, total) IN
         /\ RowOK(r)
         /\ r.status = "NONE" /\ r.bill = NoBill /\ r.preparingAt = "null"
         /\ r.channel = channel /\ r.session = s /\ r.total = total
<1> DEFINE r == [status |-> "NONE", version |-> 0, channel |-> channel,
                 session |-> s, creator |-> u, total |-> total,
                 bill |-> NoBill, preparingAt |-> "null", history |-> <<>>]
<1>1. NewOrder(channel, s, u, total) = r
  BY DEF NewOrder
<1>2. r \in OrderRow
  BY DEF OrderRow, Status
<1>3. AuditedRow(r) /\ StagedRow(r)
  BY DEF AuditedRow, StagedRow, KitchenBegan
<1> QED BY <1>1, <1>2, <1>3 DEF RowOK

LEMMA SubmissionOK ==
  ASSUME NEW row, RowOK(row), row.preparingAt = "null", NEW k \in BOOLEAN
  PROVE  LET r == submissionState(row, k) IN
         /\ RowOK(r) /\ Extends(r, row) /\ SamePlace(r, row)
         /\ r.status = IF k THEN "CONFIRMED" ELSE "SUBMITTED"
         /\ r.bill = row.bill /\ r.preparingAt = "null"
<1> DEFINE sub == Advance(row, "SUBMITTED")
           con == Advance(sub, "CONFIRMED")
<1>1. KeepsStage(row, "SUBMITTED")
  BY DEF KeepsStage, Status
<1>2. /\ RowOK(sub) /\ Extends(sub, row) /\ SamePlace(sub, row)
      /\ sub.status = "SUBMITTED" /\ sub.bill = row.bill
      /\ sub.preparingAt = "null"
  BY <1>1, AdvanceOK
<1> HIDE DEF sub
<1>3. KeepsStage(sub, "CONFIRMED")
  BY <1>2 DEF KeepsStage, Status
<1>4. /\ RowOK(con) /\ Extends(con, sub) /\ SamePlace(con, sub)
      /\ con.status = "CONFIRMED" /\ con.bill = sub.bill
      /\ con.preparingAt = "null"
  BY <1>2, <1>3, AdvanceOK
<1> HIDE DEF con
<1>5. Extends(con, row)
  BY <1>2, <1>4, ExtendsTransitive DEF RowOK
<1>6. CASE k
  <2>1. submissionState(row, k) = con
    BY <1>6 DEF submissionState, con, sub
  <2> QED BY <1>2, <1>4, <1>5, <1>6, <2>1 DEF SamePlace
<1>7. CASE ~k
  <2>1. submissionState(row, k) = sub
    BY <1>7 DEF submissionState, sub
  <2> QED BY <1>2, <1>7, <2>1
<1> QED BY <1>6, <1>7

LEMMA EarlyPaymentOK ==
  ASSUME NEW row, RowOK(row), row.status # "NONE", NEW b \in Bill
  PROVE  LET r == recordEarlyCounterPayment(row, b) IN
         /\ RowOK(r) /\ Extends(r, row) /\ SamePlace(r, row)
         /\ r.status = row.status /\ r.bill = b
<1> DEFINE a == Advance(row, row.status)
           r == [a EXCEPT !.bill = b]
<1>1. KeepsStage(row, row.status)
  BY DEF KeepsStage, RowOK, StagedRow, OrderRow
<1>2. /\ RowOK(a) /\ Extends(a, row) /\ SamePlace(a, row)
      /\ a.status = row.status
  BY <1>1, AdvanceOK
<1> HIDE DEF a
<1>3. /\ RowOK(r) /\ r.bill = b /\ r.status = a.status
      /\ r.version = a.version /\ r.history = a.history
      /\ r.channel = a.channel /\ r.session = a.session /\ r.total = a.total
  BY <1>2, BillRowOK
<1>4. r = recordEarlyCounterPayment(row, b)
  BY DEF recordEarlyCounterPayment, a
<1> HIDE DEF r
<1> QED BY <1>2, <1>3, <1>4 DEF Extends, SamePlace

LEMMA CompletePaidOK ==
  ASSUME NEW row, RowOK(row), row.status = "SERVED", NEW b \in Bill
  PROVE  LET r == completePaidOrder(row, b) IN
         /\ RowOK(r) /\ Extends(r, row) /\ SamePlace(r, row)
         /\ r.status = "COMPLETED" /\ r.bill = b
<1> DEFINE p == Advance(row, "PAID")
           q == [p EXCEPT !.bill = b]
           r == Advance(q, "COMPLETED")
<1>1. KeepsStage(row, "PAID")
  BY DEF KeepsStage, Status
<1>2. /\ RowOK(p) /\ Extends(p, row) /\ SamePlace(p, row)
  BY <1>1, AdvanceOK
<1> HIDE DEF p
<1>3. /\ RowOK(q) /\ q.bill = b
      /\ q.version = p.version /\ q.history = p.history
      /\ q.channel = p.channel /\ q.session = p.session /\ q.total = p.total
  BY <1>2, BillRowOK
<1> HIDE DEF q
<1>4. KeepsStage(q, "COMPLETED")
  BY DEF KeepsStage, Status
<1>5. /\ RowOK(r) /\ Extends(r, q) /\ SamePlace(r, q)
      /\ r.status = "COMPLETED" /\ r.bill = q.bill
  BY <1>3, <1>4, AdvanceOK
<1>6. r = completePaidOrder(row, b)
  BY DEF completePaidOrder, p, q
<1> HIDE DEF r
<1>7. Extends(q, row)
  BY <1>2, <1>3 DEF Extends
<1>8. Extends(r, row)
  BY <1>2, <1>3, <1>5, <1>7, ExtendsTransitive DEF RowOK
<1>9. SamePlace(r, row)
  BY <1>2, <1>3, <1>5 DEF SamePlace
<1> QED BY <1>3, <1>5, <1>6, <1>8, <1>9

LEMMA Authorized ==
  ASSUME NEW u \in Staff, NEW from, NEW to, authorizeTransition(u, from, to)
  PROVE  <<from, to>> \in
           {<<"SUBMITTED", "CONFIRMED">>, <<"SUBMITTED", "REJECTED">>,
            <<"SUBMITTED", "CANCELLED">>, <<"CONFIRMED", "PREPARING">>,
            <<"CONFIRMED", "CANCELLED">>, <<"PREPARING", "READY">>,
            <<"READY", "SERVED">>}
<1>1. Level[u] \in {"kitchen", "waiter", "kassa", "admin"}
  BY ConstantsAssumption DEF StaffLevel
<1>2. CapabilitiesByLevel[Level[u]] \subseteq
        {"ORDER_CONFIRM", "ORDER_REJECT", "ORDER_PREPARE", "ORDER_READY",
         "ORDER_SERVE", "ORDER_CANCEL"}
  <2>1. CASE Level[u] = "kitchen"
    BY <2>1 DEF CapabilitiesByLevel
  <2>2. CASE Level[u] = "waiter"
    BY <2>2 DEF CapabilitiesByLevel
  <2>3. CASE Level[u] = "kassa"
    BY <2>3 DEF CapabilitiesByLevel
  <2>4. CASE Level[u] = "admin"
    BY <2>4 DEF CapabilitiesByLevel
  <2> QED BY <1>1, <2>1, <2>2, <2>3, <2>4
<1>3. PICK capability \in CapabilitiesByLevel[Level[u]] :
        <<from, to, capability>> \in TRANSITION_CAPABILITY
  BY DEF authorizeTransition
<1>4. capability # "SYSTEM_COMPLETE"
  BY <1>2, <1>3
<1> QED BY <1>3, <1>4 DEF TRANSITION_CAPABILITY

-----------------------------------------------------------------------------
(* Each handler that writes one order is an OrderStep.                     *)

\* What a submission leaves, before and after its optional payment.
LEMMA SubmittedStep ==
  ASSUME IInv, NEW o \in Order, ~Exists(o),
         NEW channel \in {"COUNTER", "QR", "STAFF"},
         NEW s \in Session \cup {NoSession}, NEW u \in Staff \cup {NoUser},
         NEW total \in Price, NEW k \in BOOLEAN,
         s # NoSession => SessionActive(s),
         channel # "COUNTER" => s # NoSession,
         orders' = [orders EXCEPT ![o] =
                      submissionState(NewOrder(channel, s, u, total), k)],
         UNCHANGED <<bills, refunds, sessions>>
  PROVE  \E r : OrderStep(o, r)
<1> DEFINE n == NewOrder(channel, s, u, total)
           r == submissionState(n, k)
<1>1. total \in Cents
  BY ConstantsAssumption DEF Cents
<1>2. /\ RowOK(n) /\ n.bill = NoBill /\ n.preparingAt = "null"
      /\ n.channel = channel /\ n.session = s /\ n.total = total
  BY <1>1, NewOrderOK
<1>3. n.version = 0
  BY DEF NewOrder
<1> HIDE DEF n
<1>4. /\ RowOK(r) /\ Extends(r, n) /\ SamePlace(r, n)
      /\ r.status \in {"CONFIRMED", "SUBMITTED"} /\ r.bill = NoBill
  BY <1>2, SubmissionOK
<1>5. orders' = [orders EXCEPT ![o] = r]
  BY DEF n
<1> HIDE DEF r
<1>6. orders[o].status = "NONE" /\ orders[o].version = 0 /\ orders[o].bill = NoBill
      /\ orders[o].session = NoSession
  BY DEF Exists, IInv, Placed
<1>7. Extends(r, orders[o])
  BY <1>3, <1>4, <1>6 DEF Extends
<1>8. OrderStep(o, r)
  BY <1>2, <1>4, <1>5, <1>6, <1>7
     DEF OrderStep, IInv, SamePlace, SessionActive, TERMINAL_ORDER_STATUSES
<1> QED BY <1>8

\* Issuing a bill leaves every issued bill alone.
LEMMA IssueBill ==
  ASSUME IInv, NEW b \in Bill, bills[b].status = "NONE",
         NEW amount \in Cents, NEW s \in Session \cup {NoSession},
         bills' = [bills EXCEPT ![b] =
                     [status |-> "use", amount |-> amount, session |-> s]]
  PROVE  /\ bills' \in [Bill -> BillRow]
         /\ \A c \in Bill : bills[c].status = "use" => bills'[c] = bills[c]
         /\ bills'[b].status = "use"
<1> DEFINE row == [status |-> "use", amount |-> amount, session |-> s]
<1>1. row \in BillRow
  BY DEF BillRow
<1>2. row.status = "use"
  OBVIOUS
<1> HIDE DEF row
<1>3. bills \in [Bill -> BillRow] /\ bills' = [bills EXCEPT ![b] = row]
  BY DEF IInv, row
<1> QED BY <1>1, <1>2, <1>3

LEMMA CheckoutStep ==
  ASSUME IInv, NEW o \in Order, NEW u \in Staff, NEW total \in Price,
         NEW b \in Bill, CheckoutCounterOrder(o, u, total, b)
  PROVE  \E r : OrderStep(o, r)
<1> USE DEF CheckoutCounterOrder
<1> DEFINE n == NewOrder("COUNTER", NoSession, u, total)
           c == submissionState(n, TRUE)
           r == recordEarlyCounterPayment(c, b)
<1>1. total \in Cents
  BY ConstantsAssumption DEF Cents
<1>2. /\ RowOK(n) /\ n.bill = NoBill /\ n.preparingAt = "null"
      /\ n.channel = "COUNTER" /\ n.session = NoSession
  BY <1>1, NewOrderOK
<1>3. n.version = 0
  BY DEF NewOrder
<1>4. orders' = [orders EXCEPT ![o] = r]
  OBVIOUS
<1> HIDE DEF n
<1>5. /\ RowOK(c) /\ Extends(c, n) /\ SamePlace(c, n) /\ c.status = "CONFIRMED"
  BY <1>2, SubmissionOK
<1> HIDE DEF c
<1>6. /\ RowOK(r) /\ Extends(r, c) /\ SamePlace(r, c)
      /\ r.status = "CONFIRMED" /\ r.bill = b
  BY <1>5, EarlyPaymentOK
<1> HIDE DEF r
<1>7. orders[o].status = "NONE" /\ orders[o].version = 0
      /\ orders[o].bill = NoBill /\ orders[o].session = NoSession
  BY DEF Exists, IInv, Placed
<1>8. Extends(r, n)
  BY <1>2, <1>5, <1>6, ExtendsTransitive DEF RowOK
<1>9. Extends(r, orders[o])
  BY <1>3, <1>7, <1>8 DEF Extends
<1>10. /\ bills' \in [Bill -> BillRow]
       /\ \A x \in Bill : bills[x].status = "use" => bills'[x] = bills[x]
       /\ bills'[b].status = "use"
  BY <1>1, IssueBill
<1>11. r.session = NoSession /\ r.channel = "COUNTER" /\ r.total = total
  BY <1>2, <1>5, <1>6 DEF SamePlace, NewOrder, n
<1>12. bills' = [bills EXCEPT ![b] = OwnBill(r)] /\ bills[b].status = "NONE"
  BY <1>11 DEF OwnBill
<1>13. OrderStep(o, r)
  BY <1>4, <1>6, <1>7, <1>9, <1>10, <1>11, <1>12 DEF OrderStep, TERMINAL_ORDER_STATUSES
<1> QED BY <1>13

LEMMA SettleCounterStep ==
  ASSUME IInv, NEW u \in Staff, NEW o \in Order, NEW v \in Version,
         NEW b \in Bill, SettleCounterOrder(u, o, v, b)
  PROVE  \E r : OrderStep(o, r)
<1> USE DEF SettleCounterOrder
<1> DEFINE row == orders[o]
           r == IF row.status = "SERVED" THEN completePaidOrder(row, b)
                                         ELSE recordEarlyCounterPayment(row, b)
<1>1. RowOK(row) /\ row \in OrderRow
  BY DEF IInv, OrdersOK, RowOK
<1>2. row.total \in Cents
  BY <1>1 DEF OrderRow
<1>3. /\ row.bill = NoBill /\ row.session = NoSession /\ row.channel = "COUNTER"
      /\ row.status \in {"SUBMITTED", "CONFIRMED", "PREPARING", "READY", "SERVED"}
  BY DEF NotPaidYet
<1>4. orders' = [orders EXCEPT ![o] = r]
  OBVIOUS
<1> HIDE DEF row
<1>5. /\ RowOK(r) /\ Extends(r, row) /\ SamePlace(r, row) /\ r.bill = b
      /\ r.status \in {"SUBMITTED", "CONFIRMED", "PREPARING", "READY", "COMPLETED"}
  <2>1. CASE row.status = "SERVED"
    BY <1>1, <2>1, CompletePaidOK
  <2>2. CASE row.status # "SERVED"
    BY <1>1, <1>3, <2>2, EarlyPaymentOK
  <2> QED BY <2>1, <2>2
<1> HIDE DEF r
<1>6. /\ bills' \in [Bill -> BillRow]
      /\ \A x \in Bill : bills[x].status = "use" => bills'[x] = bills[x]
      /\ bills'[b].status = "use"
  BY <1>2, IssueBill DEF row
<1>7. r.session = NoSession /\ r.channel = "COUNTER"
  BY <1>3, <1>5 DEF SamePlace
<1>8. bills' = [bills EXCEPT ![b] = OwnBill(r)] /\ bills[b].status = "NONE"
  BY <1>5 DEF SamePlace, OwnBill, row
<1>9. OrderStep(o, r)
  BY <1>3, <1>4, <1>5, <1>6, <1>7, <1>8, ConstantsAssumption
     DEF OrderStep, TERMINAL_ORDER_STATUSES, row
<1> QED BY <1>9

LEMMA TransitionOK ==
  ASSUME NEW row, RowOK(row), NEW u \in Staff, NEW to,
         authorizeTransition(u, row.status, to),
         to = "CANCELLED" => row.preparingAt = "null"
  PROVE  /\ KeepsStage(row, to)
         /\ to \in {"CONFIRMED", "REJECTED", "CANCELLED", "PREPARING", "READY", "SERVED"}
         /\ row.status \in {"SUBMITTED", "CONFIRMED", "PREPARING", "READY"}
<1>1. <<row.status, to>> \in
           {<<"SUBMITTED", "CONFIRMED">>, <<"SUBMITTED", "REJECTED">>,
            <<"SUBMITTED", "CANCELLED">>, <<"CONFIRMED", "PREPARING">>,
            <<"CONFIRMED", "CANCELLED">>, <<"PREPARING", "READY">>,
            <<"READY", "SERVED">>}
  BY Authorized
<1>2. StagedRow(row) /\ row.preparingAt \in {"null", "set"}
  BY DEF RowOK, OrderRow
<1> QED BY <1>1, <1>2 DEF KeepsStage, StagedRow, Status

LEMMA TransitionStep ==
  ASSUME IInv, NEW u \in Staff, NEW o \in Order, NEW v \in Version, NEW to,
         TransitionOrder(u, o, v, to)
  PROVE  \E r : OrderStep(o, r)
<1> USE DEF TransitionOrder
<1> DEFINE row == orders[o]
           a == Advance(row, to)
           c == Advance(a, "COMPLETED")
<1>1. RowOK(row)
  BY DEF IInv, OrdersOK
<1>2. /\ KeepsStage(row, to)
      /\ to \in {"CONFIRMED", "REJECTED", "CANCELLED", "PREPARING", "READY", "SERVED"}
      /\ row.status \in {"SUBMITTED", "CONFIRMED", "PREPARING", "READY"}
  BY <1>1, TransitionOK
<1>3. /\ row.session # NoSession => row.bill = NoBill
      /\ row.channel # "COUNTER" => row.session # NoSession
      /\ to \in {"REJECTED", "CANCELLED"} => row.bill = NoBill
  BY <1>2 DEF IInv, Placed, PaymentMatchesStatus
<1>4. orders' = [orders EXCEPT ![o] = transitionRow(row, to)]
  OBVIOUS
<1>5. /\ bills' = bills /\ refunds' = refunds /\ sessions' = sessions
      /\ bills \in [Bill -> BillRow]
  BY DEF IInv
<1> HIDE DEF row
<1>6. /\ RowOK(a) /\ Extends(a, row) /\ SamePlace(a, row)
      /\ a.status = to /\ a.bill = row.bill
  BY <1>1, <1>2, AdvanceOK
<1> HIDE DEF a
<1>7. CASE /\ to = "SERVED" /\ row.channel = "COUNTER"
           /\ row.session = NoSession /\ row.bill # NoBill
  <2>1. transitionRow(row, to) = c
    BY <1>7 DEF transitionRow, a
  <2>2. KeepsStage(a, "COMPLETED")
    BY DEF KeepsStage, Status
  <2>3. /\ RowOK(c) /\ Extends(c, a) /\ SamePlace(c, a)
        /\ c.status = "COMPLETED" /\ c.bill = a.bill
    BY <1>6, <2>2, AdvanceOK
  <2> HIDE DEF c
  <2>4. Extends(c, row)
    BY <1>1, <1>6, <2>3, ExtendsTransitive DEF RowOK
  <2>5. OrderStep(o, c)
    BY <1>2, <1>4, <1>5, <1>6, <1>7, <2>1, <2>3, <2>4
       DEF OrderStep, SamePlace, TERMINAL_ORDER_STATUSES, row
  <2> QED BY <2>5
<1>8. CASE ~ (/\ to = "SERVED" /\ row.channel = "COUNTER"
              /\ row.session = NoSession /\ row.bill # NoBill)
  <2>1. transitionRow(row, to) = a
    BY <1>8 DEF transitionRow, a
  <2>2. to = "SERVED" => row.bill = NoBill
    BY <1>3, <1>8
  <2>3. OrderStep(o, a)
    BY <1>2, <1>3, <1>4, <1>5, <1>6, <2>1, <2>2
       DEF OrderStep, SamePlace, TERMINAL_ORDER_STATUSES, row
  <2> QED BY <2>3
<1> QED BY <1>7, <1>8

-----------------------------------------------------------------------------
(* The handlers that write more than one order and its bill.               *)

LEMMA ReserveRefundInv ==
  ASSUME IInv, NEW u \in Staff, NEW o \in Order, NEW v \in Version,
         ReserveRefund(u, o, v)
  PROVE  /\ IInv'
         /\ Extends(orders'[o], orders[o])
         /\ orders[o].status \notin TERMINAL_ORDER_STATUSES
         /\ SamePlace(orders'[o], orders[o])
         /\ orders'[o].bill = orders[o].bill
         /\ \A p \in Order : p # o => orders'[p] = orders[p]
<1> USE DEF ReserveRefund
<1> DEFINE row == orders[o]
           r == Advance(row, "CANCELLED")
           f == [status |-> "PENDING", amount |-> bills[row.bill].amount,
                 bill |-> row.bill]
<1>1. /\ orders \in [Order -> OrderRow]
      /\ \A p \in Order : RowOK(orders[p])
      /\ row \in OrderRow /\ RowOK(row)
      /\ row.bill \in Bill
      /\ refunds \in [Order -> RefundRow] /\ bills \in [Bill -> BillRow]
  BY DEF IInv, OrdersOK, RowOK, OrderRow
<1>2. /\ row.status \in {"SUBMITTED", "CONFIRMED"} /\ row.preparingAt = "null"
      /\ row.bill # NoBill
      /\ refunds[o].status = "NONE"
      /\ bills[row.bill].status = "use" /\ OrdersOn(row.bill) = {o}
      /\ bills[row.bill].amount = row.total
  BY DEF NotStarted
<1>3. KeepsStage(row, "CANCELLED")
  BY <1>2 DEF KeepsStage, Status
<1>4. f \in RefundRow
  BY <1>1 DEF RefundRow, BillRow
<1>5. f.status = "PENDING" /\ f.amount = bills[row.bill].amount /\ f.bill = row.bill
  OBVIOUS
<1>6. orders' = [orders EXCEPT ![o] = r] /\ refunds' = [refunds EXCEPT ![o] = f]
      /\ bills' = bills /\ sessions' = sessions
  OBVIOUS
<1>7. row.session # NoSession => FALSE
  BY <1>2 DEF IInv, PaymentMatchesStatus
<1> HIDE DEF f
<1>8. /\ RowOK(r) /\ Extends(r, row) /\ SamePlace(r, row)
      /\ r.status = "CANCELLED" /\ r.bill = row.bill
  BY <1>1, <1>3, AdvanceOK
<1> HIDE DEF r
<1>9. r \in OrderRow
  BY <1>8 DEF RowOK
<1>10. /\ \A p \in Order : orders'[p] = IF p = o THEN r ELSE orders[p]
       /\ \A p \in Order : refunds'[p] = IF p = o THEN f ELSE refunds[p]
       /\ orders' \in [Order -> OrderRow] /\ refunds' \in [Order -> RefundRow]
  BY <1>1, <1>4, <1>6, <1>9
<1>11. OrdersOK'
  BY <1>1, <1>8, <1>10 DEF OrdersOK
<1>12. Placed'
  BY <1>6, <1>8, <1>10 DEF IInv, Placed, SamePlace
<1>13. PaymentMatchesStatus'
  BY <1>2, <1>5, <1>7, <1>8, <1>10 DEF IInv, PaymentMatchesStatus, SamePlace
<1>14. RefundOfOwnBill'
  BY <1>5, <1>8, <1>10 DEF IInv, RefundOfOwnBill
<1>15. RefundIsWholePayment'
  <2>1. \A b : {q \in Order : orders'[q].bill = b} = OrdersOn(b)
    BY <1>8, <1>10 DEF OrdersOn
  <2>2. ASSUME NEW p \in Order, refunds'[p].status # "NONE"
        PROVE  /\ refunds'[p].bill \in Bill
               /\ bills[refunds'[p].bill].status = "use"
               /\ OrdersOn(refunds'[p].bill) = {p}
               /\ refunds'[p].amount = bills[refunds'[p].bill].amount
               /\ refunds'[p].amount = orders'[p].total
    <3>1. CASE p = o
      BY <1>1, <1>2, <1>5, <1>8, <1>10, <3>1 DEF SamePlace
    <3>2. CASE p # o
      BY <1>10, <2>2, <3>2 DEF IInv, RefundIsWholePayment
    <3> QED BY <3>1, <3>2
  <2>3. ASSUME NEW p \in Order, refunds'[p].status # "NONE"
        PROVE  {q \in Order : orders'[q].bill = refunds'[p].bill} = {p}
    BY <2>1, <2>2, <2>3
  <2> QED BY <1>6, <2>2, <2>3 DEF RefundIsWholePayment, OrdersOn
<1>16. ClosedSessionSettled'
  BY <1>6, <1>8, <1>10
     DEF IInv, ClosedSessionSettled, OrdersOf, ActiveCall, SamePlace,
         TERMINAL_ORDER_STATUSES
<1>17. IInv'
  BY <1>6, <1>10, <1>11, <1>12, <1>13, <1>14, <1>15, <1>16 DEF IInv
<1> QED BY <1>2, <1>8, <1>10, <1>17 DEF TERMINAL_ORDER_STATUSES

LEMMA FinishRefundInv ==
  ASSUME IInv, NEW u \in Staff, NEW o \in Order, NEW failed \in BOOLEAN,
         FinishRefund(u, o, failed)
  PROVE  /\ IInv'
         /\ UNCHANGED <<orders, bills, sessions>>
         /\ \A p \in Order :
              /\ refunds'[p].bill = refunds[p].bill
              /\ refunds'[p].amount = refunds[p].amount
              /\ refunds[p].status = "COMPLETED" => refunds'[p] = refunds[p]
<1> USE DEF FinishRefund
<1> DEFINE f == [refunds[o] EXCEPT !.status = IF failed THEN "FAILED" ELSE "COMPLETED"]
<1>1. refunds \in [Order -> RefundRow] /\ refunds[o] \in RefundRow
  BY DEF IInv
<1>2. f \in RefundRow
  BY <1>1 DEF RefundRow
<1>3. f.bill = refunds[o].bill /\ f.amount = refunds[o].amount /\ f.status # "NONE"
  BY <1>1 DEF RefundRow
<1>4. refunds' = [refunds EXCEPT ![o] = f] /\ refunds[o].status \in {"PENDING", "FAILED"}
  BY <1>1
<1> HIDE DEF f
<1>5. /\ \A p \in Order : refunds'[p] = IF p = o THEN f ELSE refunds[p]
      /\ refunds' \in [Order -> RefundRow]
  BY <1>1, <1>2, <1>4
<1>6. /\ OrdersOK' /\ Placed' /\ ClosedSessionSettled'
  BY DEF IInv, OrdersOK, Placed, ClosedSessionSettled, OrdersOf, ActiveCall
<1>7. PaymentMatchesStatus'
  BY <1>3, <1>4, <1>5 DEF IInv, PaymentMatchesStatus
<1>8. RefundOfOwnBill'
  BY <1>3, <1>4, <1>5 DEF IInv, RefundOfOwnBill
<1>9. RefundIsWholePayment'
  BY <1>3, <1>4, <1>5 DEF IInv, RefundIsWholePayment, OrdersOn
<1>10. IInv'
  BY <1>5, <1>6, <1>7, <1>8, <1>9 DEF IInv
<1> QED BY <1>3, <1>4, <1>5, <1>10

LEMMA CloseSessionRowOK ==
  ASSUME NEW row \in SessionRow
  PROVE  /\ CloseSessionRow(row) \in SessionRow
         /\ CloseSessionRow(row).status = "CLOSED"
         /\ CloseSessionRow(row).call \notin {"REQUESTED", "ACKNOWLEDGED"}
<1> DEFINE active == row.call \in {"REQUESTED", "ACKNOWLEDGED"}
           c == IF active THEN "RESOLVED" ELSE row.call
           v == IF active THEN row.callVersion + 1 ELSE row.callVersion
           t == row.tokenVersion + 1
<1>1. /\ c \in CallStatus /\ c \notin {"REQUESTED", "ACKNOWLEDGED"}
      /\ v \in Nat /\ t \in Nat
  BY DEF SessionRow, CallStatus
<1>2. CloseSessionRow(row) =
        [status |-> "CLOSED", tokenVersion |-> t, call |-> c, callVersion |-> v]
  BY DEF CloseSessionRow
<1> HIDE DEF c, v, t
<1> QED BY <1>1, <1>2 DEF SessionRow

LEMMA SettleTableInv ==
  ASSUME IInv, NEW u \in Staff, NEW s \in Session, NEW b \in Bill,
         NEW S \in SUBSET Order, NEW claim \in [S -> Version],
         SettleTableSession(u, s, claim, b)
  PROVE  /\ IInv'
         /\ refunds' = refunds
         /\ \A c \in Bill : bills[c].status = "use" => bills'[c] = bills[c]
         /\ \A t \in Session : sessions[t].status = "CLOSED" => sessions'[t] = sessions[t]
         /\ \A o \in Order :
              \/ orders'[o] = orders[o]
              \/ /\ Extends(orders'[o], orders[o])
                 /\ orders[o].status = "SERVED" /\ orders[o].bill = NoBill
                 /\ SamePlace(orders'[o], orders[o])
<1> USE DEF SettleTableSession
<1> DEFINE r(o) == completePaidOrder(orders[o], b)
           c == CloseSessionRow(sessions[s])
<1>1. /\ orders \in [Order -> OrderRow]
      /\ \A o \in Order : RowOK(orders[o]) /\ orders[o] \in OrderRow
      /\ refunds \in [Order -> RefundRow] /\ bills \in [Bill -> BillRow]
      /\ sessions \in [Session -> SessionRow]
  BY DEF IInv, OrdersOK, RowOK
<1>2. /\ DOMAIN claim = S
      /\ \A o \in S : orders[o].status = "SERVED" /\ orders[o].bill = NoBill
                      /\ orders[o].session = s
      /\ \A o \in OrdersOf(s) \ S : orders[o].status \in TERMINAL_ORDER_STATUSES
      /\ s # NoSession /\ sessions[s].status = "OPEN"
  <2>1. DOMAIN claim = S /\ S = Unsettled(s) /\ s # NoSession
        /\ sessions[s].status = "OPEN"
    BY ConstantsAssumption
  <2>2. \A o \in S : orders[o].status = "SERVED"
    BY <2>1
  <2>3. ASSUME NEW o \in OrdersOf(s) \ S
        PROVE  orders[o].status \in TERMINAL_ORDER_STATUSES
    <3>1. o \in Order /\ orders[o].session = s
      BY DEF OrdersOf
    <3>2. orders[o].bill # NoBill \/ orders[o].status \in {"REJECTED", "CANCELLED"}
      BY <2>1, <2>3 DEF Unsettled
    <3> QED BY <2>1, <3>1, <3>2
            DEF IInv, PaymentMatchesStatus, TERMINAL_ORDER_STATUSES
  <2> QED BY <2>1, <2>2, <2>3 DEF Unsettled, OrdersOf
<1>3. /\ bills' \in [Bill -> BillRow]
      /\ \A x \in Bill : bills[x].status = "use" => bills'[x] = bills[x]
      /\ bills'[b].status = "use"
  <2>1. BillAmount(S) \in Cents /\ bills[b].status = "NONE"
    BY <1>2 DEF RepresentableAmount
  <2> QED BY <1>2, <2>1, IssueBill
<1>4. ASSUME NEW o \in S
      PROVE  /\ RowOK(r(o)) /\ Extends(r(o), orders[o]) /\ SamePlace(r(o), orders[o])
             /\ r(o).status = "COMPLETED" /\ r(o).bill = b
  BY <1>1, <1>2, CompletePaidOK
<1>5. c \in SessionRow /\ c.status = "CLOSED" /\ c.call \notin {"REQUESTED", "ACKNOWLEDGED"}
  BY <1>1, CloseSessionRowOK
<1>6. /\ orders' = [o \in Order |-> IF o \in S THEN r(o) ELSE orders[o]]
      /\ sessions' = [sessions EXCEPT ![s] = c]
      /\ refunds' = refunds
      /\ bills[b].status = "NONE"
  BY <1>2
<1> HIDE DEF r, c, SettleTableSession
<1>7. /\ \A o \in Order : orders'[o] = IF o \in S THEN r(o) ELSE orders[o]
      /\ \A t \in Session : sessions'[t] = IF t = s THEN c ELSE sessions[t]
      /\ sessions' \in [Session -> SessionRow]
      /\ orders' \in [Order -> OrderRow]
  BY <1>1, <1>4, <1>5, <1>6 DEF RowOK
<1>8. OrdersOK'
  BY <1>1, <1>4, <1>7 DEF OrdersOK
<1>9. Placed'
  <2>1. ASSUME NEW o \in S
        PROVE  /\ orders'[o].status = "COMPLETED" /\ orders'[o].bill = b
               /\ orders'[o].session = s
    BY <1>2, <1>4, <1>7 DEF SamePlace
  <2>2. ASSUME NEW o \in Order, orders[o].bill # NoBill
        PROVE  bills'[orders[o].bill].status = "use"
    BY <1>1, <1>3, <2>2 DEF IInv, Placed, OrderRow
  <2> QED BY <1>2, <1>3, <1>7, <2>1, <2>2 DEF IInv, Placed
<1>10. \A o \in S : refunds[o].status = "NONE"
  BY <1>2 DEF IInv, PaymentMatchesStatus
<1>11. PaymentMatchesStatus'
  BY <1>4, <1>6, <1>7, <1>10, ConstantsAssumption DEF IInv, PaymentMatchesStatus
<1>12. RefundOfOwnBill'
  BY <1>6, <1>7, <1>10 DEF IInv, RefundOfOwnBill
<1>13. RefundIsWholePayment'
  <2>1. ASSUME NEW p \in Order, refunds[p].status # "NONE"
        PROVE  /\ refunds[p].bill \in Bill
               /\ bills'[refunds[p].bill] = bills[refunds[p].bill]
               /\ bills[refunds[p].bill].status = "use"
               /\ {q \in Order : orders'[q].bill = refunds[p].bill} = {p}
               /\ orders'[p] = orders[p]
    <3>1. /\ refunds[p].bill \in Bill /\ bills[refunds[p].bill].status = "use"
          /\ {q \in Order : orders[q].bill = refunds[p].bill} = {p}
      BY <2>1 DEF IInv, RefundIsWholePayment, OrdersOn
    <3>2. bills'[refunds[p].bill] = bills[refunds[p].bill] /\ refunds[p].bill # b
      BY <1>3, <1>6, <3>1
    <3>3. orders'[p] = orders[p]
      BY <1>7, <1>10, <2>1
    <3>4. refunds[p].bill # NoBill
      BY <3>1, ConstantsAssumption
    <3>5. \A q \in Order : orders'[q].bill = refunds[p].bill
                           <=> orders[q].bill = refunds[p].bill
      BY <1>2, <1>4, <1>7, <3>2, <3>4
    <3> QED BY <3>1, <3>2, <3>3, <3>5
  <2>2. ASSUME NEW p \in Order, refunds[p].status # "NONE"
        PROVE  /\ refunds[p].amount = bills'[refunds[p].bill].amount
               /\ refunds[p].amount = orders'[p].total
               /\ bills'[refunds[p].bill].status = "use"
    BY <2>1, <2>2 DEF IInv, RefundIsWholePayment
  <2> QED BY <1>6, <2>1, <2>2 DEF RefundIsWholePayment, OrdersOn
<1>14. ClosedSessionSettled'
  <2>1. ASSUME NEW t \in Session, NEW o \in Order,
               sessions'[t].status = "CLOSED", orders'[o].session = t
        PROVE  orders'[o].status \in TERMINAL_ORDER_STATUSES
    <3>1. orders[o].session = t
      BY <1>4, <1>7, <2>1 DEF SamePlace
    <3>2. CASE o \in S
      BY <1>4, <1>7, <3>2 DEF TERMINAL_ORDER_STATUSES
    <3>3. CASE o \notin S /\ t = s
      BY <1>2, <1>7, <3>1, <3>3 DEF OrdersOf
    <3>4. CASE o \notin S /\ t # s
      BY <1>7, <2>1, <3>1, <3>4 DEF IInv, ClosedSessionSettled, OrdersOf
    <3> QED BY <3>2, <3>3, <3>4
  <2>2. ASSUME NEW t \in Session, sessions'[t].status = "CLOSED"
        PROVE  sessions'[t].call \notin {"REQUESTED", "ACKNOWLEDGED"}
    BY <1>5, <1>7, <2>2 DEF IInv, ClosedSessionSettled, ActiveCall
  <2> QED BY <2>1, <2>2 DEF ClosedSessionSettled, OrdersOf, ActiveCall
<1>15. IInv'
  BY <1>1, <1>3, <1>6, <1>7, <1>8, <1>9, <1>11, <1>12, <1>13, <1>14 DEF IInv
<1> QED BY <1>2, <1>3, <1>4, <1>6, <1>7, <1>15

-----------------------------------------------------------------------------
(* The handlers that write one TableSession row and its service call.      *)

SessionStep(s, r) ==
  /\ sessions[s].status # "CLOSED"
  /\ r \in SessionRow
  /\ r.status = "CLOSED" =>
       /\ r.call \notin {"REQUESTED", "ACKNOWLEDGED"}
       /\ \A o \in OrdersOf(s) : orders[o].status \in TERMINAL_ORDER_STATUSES
  /\ sessions' = [sessions EXCEPT ![s] = r]
  /\ UNCHANGED <<orders, bills, refunds>>

LEMMA SessionStepInv ==
  ASSUME IInv, NEW s \in Session, NEW r, SessionStep(s, r)
  PROVE  IInv'
<1>1. /\ sessions' \in [Session -> SessionRow]
      /\ \A t \in Session : sessions'[t] = IF t = s THEN r ELSE sessions[t]
  BY DEF IInv, SessionStep
<1>2. OrdersOK' /\ Placed' /\ PaymentMatchesStatus' /\ RefundOfOwnBill'
  BY DEF IInv, OrdersOK, Placed, PaymentMatchesStatus, RefundOfOwnBill, SessionStep
<1>3. RefundIsWholePayment'
  BY DEF IInv, RefundIsWholePayment, OrdersOn, SessionStep
<1>4. ClosedSessionSettled'
  BY <1>1 DEF IInv, ClosedSessionSettled, OrdersOf, ActiveCall, SessionStep
<1> QED BY <1>1, <1>2, <1>3, <1>4 DEF IInv, SessionStep

LEMMA SessionNextStep ==
  ASSUME IInv, SessionNext
  PROVE  \E s \in Session : \E r : SessionStep(s, r)
<1>1. sessions \in [Session -> SessionRow]
  BY DEF IInv
<1>2. ASSUME NEW s \in Session, OpenSession(s)
      PROVE  \E r : SessionStep(s, r)
  <2> DEFINE r == [sessions[s] EXCEPT !.status = "OPEN", !.tokenVersion = 1]
  <2>1. r \in SessionRow /\ r.status = "OPEN"
    BY <1>1 DEF SessionRow
  <2>2. sessions' = [sessions EXCEPT ![s] = r]
    BY <1>1, <1>2 DEF OpenSession
  <2> HIDE DEF r
  <2>3. SessionStep(s, r)
    BY <1>2, <2>1, <2>2 DEF SessionStep, OpenSession
  <2> QED BY <2>3
<1>3. ASSUME NEW s \in Session, NEW v \in 1..MaxToken, RotateToken(s, v)
      PROVE  \E r : SessionStep(s, r)
  <2> DEFINE r == [sessions[s] EXCEPT !.tokenVersion = sessions[s].tokenVersion + 1]
  <2>1. r \in SessionRow /\ r.status = sessions[s].status
    BY <1>1 DEF SessionRow
  <2>2. sessions' = [sessions EXCEPT ![s] = r]
    BY <1>1, <1>3 DEF RotateToken
  <2> HIDE DEF r
  <2>3. SessionStep(s, r)
    BY <1>3, <2>1, <2>2 DEF SessionStep, RotateToken
  <2> QED BY <2>3
<1>4. ASSUME NEW s \in Session, NEW v \in 1..MaxToken, CloseSession(s, v)
      PROVE  \E r : SessionStep(s, r)
  <2>1. /\ CloseSessionRow(sessions[s]) \in SessionRow
        /\ CloseSessionRow(sessions[s]).call \notin {"REQUESTED", "ACKNOWLEDGED"}
    BY <1>1, CloseSessionRowOK
  <2>2. SessionStep(s, CloseSessionRow(sessions[s]))
    BY <1>4, <2>1 DEF SessionStep, CloseSession
  <2> QED BY <2>2
<1>5. ASSUME NEW s \in Session, NEW token \in 1..MaxToken, CreateCall(s, token)
      PROVE  \E r : SessionStep(s, r)
  <2> DEFINE r == [sessions[s] EXCEPT !.call = "REQUESTED", !.callVersion = 1]
  <2>1. r \in SessionRow /\ r.status = sessions[s].status
    BY <1>1 DEF SessionRow, CallStatus
  <2>2. sessions' = [sessions EXCEPT ![s] = r]
    BY <1>1, <1>5 DEF CreateCall
  <2> HIDE DEF r
  <2>3. SessionStep(s, r)
    BY <1>5, <2>1, <2>2 DEF SessionStep, CreateCall, SessionActive
  <2> QED BY <2>3
<1>6. ASSUME NEW s \in Session, NEW v \in 1..2, NEW to \in CallStatus,
             ChangeCallStatus(s, v, to)
      PROVE  \E r : SessionStep(s, r)
  <2> DEFINE n == sessions[s].callVersion + 1
             r == [sessions[s] EXCEPT !.call = to, !.callVersion = n]
  <2>1. r \in SessionRow /\ r.status = sessions[s].status
    <3>1. n \in Nat /\ sessions[s] \in SessionRow
      BY <1>1 DEF SessionRow
    <3> HIDE DEF n
    <3> QED BY <3>1 DEF SessionRow
  <2>2. sessions' = [sessions EXCEPT ![s] = r]
    BY <1>1, <1>6 DEF ChangeCallStatus
  <2> HIDE DEF r
  <2>3. SessionStep(s, r)
    BY <1>6, <2>1, <2>2 DEF SessionStep, ChangeCallStatus
  <2> QED BY <2>3
<1> QED BY <1>2, <1>3, <1>4, <1>5, <1>6 DEF SessionNext

-----------------------------------------------------------------------------
(* Every step is of one of five kinds.                                     *)

LEMMA StepKinds ==
  ASSUME IInv, Next
  PROVE  \/ \E o \in Order : \E r : OrderStep(o, r)
         \/ \E u \in Staff, s \in Session, b \in Bill, S \in SUBSET Order :
              \E claim \in [S -> Version] : SettleTableSession(u, s, claim, b)
         \/ \E o \in Order, u \in Staff, v \in Version : ReserveRefund(u, o, v)
         \/ \E o \in Order, u \in Staff, failed \in BOOLEAN : FinishRefund(u, o, failed)
         \/ \E s \in Session : \E r : SessionStep(s, r)
<1>1. ASSUME NEW o \in Order, NEW s \in Session, NEW token \in 0..(MaxToken + 1),
             NEW total \in Price, SubmitQrOrder(o, s, token, total)
      PROVE  \E r : OrderStep(o, r)
  <2>1. s # NoSession
    BY ConstantsAssumption
  <2>2. (token # NoToken) \in BOOLEAN
    OBVIOUS
  <2> QED BY <1>1, <2>1, <2>2, SubmittedStep DEF SubmitQrOrder
<1>2. ASSUME NEW o \in Order, NEW s \in Session, NEW u \in Staff,
             NEW total \in Price, NEW k \in BOOLEAN,
             SubmitStaffOrder(o, s, u, total, k)
      PROVE  \E r : OrderStep(o, r)
  <2>1. s # NoSession
    BY ConstantsAssumption
  <2> QED BY <1>2, <2>1, SubmittedStep DEF SubmitStaffOrder
<1>3. ASSUME NEW o \in Order, NEW u \in Staff, NEW total \in Price, NEW k \in BOOLEAN,
             SubmitCounterOrder(o, u, total, k)
      PROVE  \E r : OrderStep(o, r)
  BY <1>3, SubmittedStep DEF SubmitCounterOrder
<1>4. CASE OrderNext
  BY <1>1, <1>2, <1>3, <1>4, TransitionStep DEF OrderNext
<1>5. CASE MoneyNext
  BY <1>5, CheckoutStep, SettleCounterStep DEF MoneyNext
<1>6. CASE SessionNext
  BY <1>6, SessionNextStep
<1> QED BY <1>4, <1>5, <1>6 DEF Next

LEMMA InitInv == Init => IInv
<1> SUFFICES ASSUME Init PROVE IInv
  OBVIOUS
<1>1. /\ NoOrder.status = "NONE" /\ NoOrder.bill = NoBill
      /\ NoOrder.session = NoSession /\ NoOrder.version = 0
  BY DEF NoOrder, NewOrder
<1>2. RowOK(NoOrder)
  BY ConstantsAssumption, NewOrderOK DEF NoOrder, Cents
<1> HIDE DEF NoOrder
<1>3. \A o \in Order : orders[o] = NoOrder
  BY DEF Init
<1>4. OrdersOK /\ Placed
  BY <1>1, <1>2, <1>3, ConstantsAssumption DEF Init, OrdersOK, Placed, RowOK
<1>5. \A o \in Order : refunds[o].status = "NONE"
  BY DEF Init
<1>6. PaymentMatchesStatus /\ RefundOfOwnBill /\ RefundIsWholePayment
  BY <1>1, <1>3, <1>5 DEF PaymentMatchesStatus, RefundOfOwnBill, RefundIsWholePayment
<1>7. ClosedSessionSettled
  BY DEF Init, ClosedSessionSettled
<1>8. refunds \in [Order -> RefundRow] /\ bills \in [Bill -> BillRow]
  BY ConstantsAssumption DEF Init, RefundRow, BillRow, Cents
<1>9. sessions \in [Session -> SessionRow]
  BY DEF Init, SessionRow, CallStatus
<1> QED BY <1>4, <1>6, <1>7, <1>8, <1>9 DEF IInv

LEMMA NextInv == IInv /\ [Next]_vars => IInv'
<1> SUFFICES ASSUME IInv, [Next]_vars PROVE IInv'
  OBVIOUS
<1>1. CASE Next
  BY <1>1, StepKinds, OrderStepInv, SettleTableInv, ReserveRefundInv,
     FinishRefundInv, SessionStepInv
<1>2. CASE UNCHANGED vars
  BY <1>2 DEF vars, IInv, OrdersOK, Placed, PaymentMatchesStatus, RefundOfOwnBill,
     RefundIsWholePayment, ClosedSessionSettled, OrdersOn, OrdersOf, ActiveCall
<1> QED BY <1>1, <1>2

\* The strengthening holds throughout: what the theorems below rest on.
THEOREM Invariance == Spec => []IInv
BY InitInv, NextInv, PTL DEF Spec

-----------------------------------------------------------------------------
(* The properties the runs check, for every value of the constants.        *)

\* Every row keeps its columns' types and every amount stays in the range
\* checkedCents accepts.
THEOREM TypeCorrect == Spec => []TypeOK
<1>1. IInv => TypeOK
  BY DEF IInv, OrdersOK, TypeOK
<1> QED BY <1>1, Invariance, PTL

\* The history of every order is one gap-free chain that ends in its current
\* status and version, whichever services wrote it.
THEOREM HistoryIsAudited == Spec => []AuditTrail
<1>1. IInv => AuditTrail
  BY DEF IInv, OrdersOK, RowOK, AuditTrail
<1> QED BY <1>1, Invariance, PTL

\* Status and payment of an order agree at every commit.
THEOREM PaymentAgrees == Spec => []PaymentMatchesStatus
<1>1. IInv => PaymentMatchesStatus
  BY DEF IInv
<1> QED BY <1>1, Invariance, PTL

\* An order the kitchen began is never cancelled, rejected or refunded.
THEOREM KitchenStartCloses == Spec => []KitchenStartIsFinal
<1>1. ASSUME IInv, NEW o \in Order, KitchenBegan(orders[o])
      PROVE  /\ orders[o].status \notin {"CANCELLED", "REJECTED"}
             /\ refunds[o].status = "NONE"
  <2>1. StagedRow(orders[o])
    BY <1>1 DEF IInv, OrdersOK, RowOK
  <2>2. orders[o].status \notin {"CANCELLED", "REJECTED"}
    BY <1>1, <2>1 DEF StagedRow
  <2> QED BY <1>1, <2>2 DEF IInv, PaymentMatchesStatus
<1>2. IInv => KitchenStartIsFinal
  BY <1>1 DEF KitchenStartIsFinal
<1> QED BY <1>2, Invariance, PTL

\* A refund returns the whole of exactly one payment.
THEOREM RefundsAreWhole == Spec => []RefundIsWholePayment
<1>1. IInv => RefundIsWholePayment
  BY DEF IInv
<1> QED BY <1>1, Invariance, PTL

\* Closing a table leaves no unfinished order and no waiting service call.
THEOREM ClosedIsSettled == Spec => []ClosedSessionSettled
<1>1. IInv => ClosedSessionSettled
  BY DEF IInv
<1> QED BY <1>1, Invariance, PTL

\* No step rewrites a bill, the bill of an order or the amount of a refund.
THEOREM MoneyStays == Spec => MoneyIsFinal
<1>1. ASSUME IInv, Next
      PROVE  MoneyKept
  <2>1. ASSUME NEW o \in Order, NEW r, OrderStep(o, r)
        PROVE  MoneyKept
    <3>1. \A p \in Order : orders'[p] = IF p = o THEN r ELSE orders[p]
      BY <1>1, <2>1 DEF IInv, OrdersOK, OrderStep
    <3> QED BY <2>1, <3>1 DEF MoneyKept, OrderStep
  <2>2. ASSUME NEW u \in Staff, NEW s \in Session, NEW b \in Bill,
               NEW S \in SUBSET Order, NEW claim \in [S -> Version],
               SettleTableSession(u, s, claim, b)
        PROVE  MoneyKept
    BY <1>1, <2>2, SettleTableInv DEF MoneyKept
  <2>3. ASSUME NEW u \in Staff, NEW o \in Order, NEW v \in Version,
               ReserveRefund(u, o, v)
        PROVE  MoneyKept
    <3>1. /\ bills' = bills /\ refunds[o].status = "NONE"
          /\ \A p \in Order : p # o => refunds'[p] = refunds[p]
      BY <1>1, <2>3 DEF ReserveRefund, IInv
    <3>2. \A p \in Order : /\ orders'[p].bill = orders[p].bill
                           /\ orders'[p].total = orders[p].total
      BY <1>1, <2>3, ReserveRefundInv DEF SamePlace
    <3> QED BY <3>1, <3>2 DEF MoneyKept
  <2>4. ASSUME NEW u \in Staff, NEW o \in Order, NEW failed \in BOOLEAN,
               FinishRefund(u, o, failed)
        PROVE  MoneyKept
    BY <1>1, <2>4, FinishRefundInv DEF MoneyKept
  <2>5. ASSUME NEW s \in Session, NEW r, SessionStep(s, r)
        PROVE  MoneyKept
    BY <2>5 DEF SessionStep, MoneyKept
  <2> QED BY <1>1, <2>1, <2>2, <2>3, <2>4, <2>5, StepKinds
<1>2. IInv /\ [Next]_vars => [MoneyKept]_vars
  BY <1>1
<1> QED BY <1>2, Invariance, PTL DEF Spec, MoneyIsFinal

\* Every handler that touches an order raises its version, extends its history
\* and leaves terminal orders alone.
THEOREM WritesAreVersioned == Spec => EveryWriteIsVersioned
<1>1. ASSUME IInv, Next
      PROVE  WritesVersioned
  <2>1. ASSUME NEW o \in Order, NEW r, OrderStep(o, r)
        PROVE  WritesVersioned
    <3>1. \A p \in Order : orders'[p] = IF p = o THEN r ELSE orders[p]
      BY <1>1, <2>1 DEF IInv, OrdersOK, OrderStep
    <3> QED BY <2>1, <3>1 DEF WritesVersioned, OrderStep, Extends
  <2>2. ASSUME NEW u \in Staff, NEW s \in Session, NEW b \in Bill,
               NEW S \in SUBSET Order, NEW claim \in [S -> Version],
               SettleTableSession(u, s, claim, b)
        PROVE  WritesVersioned
    BY <1>1, <2>2, SettleTableInv
       DEF WritesVersioned, Extends, TERMINAL_ORDER_STATUSES
  <2>3. ASSUME NEW u \in Staff, NEW o \in Order, NEW v \in Version,
               ReserveRefund(u, o, v)
        PROVE  WritesVersioned
    BY <1>1, <2>3, ReserveRefundInv DEF WritesVersioned, Extends
  <2>4. ASSUME NEW u \in Staff, NEW o \in Order, NEW failed \in BOOLEAN,
               FinishRefund(u, o, failed)
        PROVE  WritesVersioned
    BY <2>4 DEF FinishRefund, WritesVersioned
  <2>5. ASSUME NEW s \in Session, NEW r, SessionStep(s, r)
        PROVE  WritesVersioned
    BY <2>5 DEF SessionStep, WritesVersioned
  <2> QED BY <1>1, <2>1, <2>2, <2>3, <2>4, <2>5, StepKinds
<1>2. IInv /\ [Next]_vars => [WritesVersioned]_vars
  BY <1>1
<1> QED BY <1>2, Invariance, PTL DEF Spec, EveryWriteIsVersioned

\* A closed session never reopens, takes no order and wakes no service call.
THEOREM ClosedStaysClosed == Spec => ClosedSessionFrozen
<1>1. ASSUME IInv, Next
      PROVE  ClosedKept
  <2>1. ASSUME NEW o \in Order, NEW r, OrderStep(o, r)
        PROVE  ClosedKept
    <3>1. \A p \in Order : orders'[p] = IF p = o THEN r ELSE orders[p]
      BY <1>1, <2>1 DEF IInv, OrdersOK, OrderStep
    <3>2. ASSUME NEW s \in Session, sessions[s].status = "CLOSED", NEW p \in Order
          PROVE  (orders'[p].session = s) <=> (orders[p].session = s)
      <4>1. orders[o].status = "NONE" => orders[o].session # s
        BY <1>1, ConstantsAssumption DEF IInv, Placed
      <4> QED BY <2>1, <3>1, <3>2, <4>1 DEF OrderStep
    <3> QED BY <2>1, <3>2 DEF ClosedKept, OrdersOf, OrderStep
  <2>2. ASSUME NEW u \in Staff, NEW s \in Session, NEW b \in Bill,
               NEW S \in SUBSET Order, NEW claim \in [S -> Version],
               SettleTableSession(u, s, claim, b)
        PROVE  ClosedKept
    <3>1. \A p \in Order : orders'[p].session = orders[p].session
      BY <1>1, <2>2, SettleTableInv DEF SamePlace
    <3> QED BY <1>1, <2>2, <3>1, SettleTableInv DEF ClosedKept, OrdersOf
  <2>3. ASSUME NEW u \in Staff, NEW o \in Order, NEW v \in Version,
               ReserveRefund(u, o, v)
        PROVE  ClosedKept
    <3>1. \A p \in Order : orders'[p].session = orders[p].session
      BY <1>1, <2>3, ReserveRefundInv DEF SamePlace
    <3> QED BY <2>3, <3>1 DEF ClosedKept, OrdersOf, ReserveRefund
  <2>4. ASSUME NEW u \in Staff, NEW o \in Order, NEW failed \in BOOLEAN,
               FinishRefund(u, o, failed)
        PROVE  ClosedKept
    BY <2>4 DEF FinishRefund, ClosedKept, OrdersOf
  <2>5. ASSUME NEW s \in Session, NEW r, SessionStep(s, r)
        PROVE  ClosedKept
    BY <1>1, <2>5 DEF SessionStep, ClosedKept, OrdersOf, IInv
  <2> QED BY <1>1, <2>1, <2>2, <2>3, <2>4, <2>5, StepKinds
<1>2. IInv /\ [Next]_vars => [ClosedKept]_vars
  BY <1>1
<1> QED BY <1>2, Invariance, PTL DEF Spec, ClosedSessionFrozen

-----------------------------------------------------------------------------
(***************************************************************************)
(* A bill is the sum of its orders.  The sum is computed                   *)
(* once, when the bill is issued; what has to be shown is that neither the *)
(* orders on the bill nor their totals change later, and that no order of  *)
(* an open session is on a bill, so that the bill of a table is complete.  *)
(* What the sum over several orders is need not be known for that.         *)
(***************************************************************************)
\* An order is on a bill of its own session, which is closed by then.
BillOfSession ==
  \A o \in Order : orders[o].bill # NoBill =>
     /\ bills[orders[o].bill].session = orders[o].session
     /\ orders[o].session # NoSession => sessions[orders[o].session].status = "CLOSED"

Completed(s) == {o \in Order : orders[o].session = s /\ orders[o].status = "COMPLETED"}

BillOK(b) ==
  /\ bills[b].amount = TotalOf(OrdersOn(b))
  /\ bills[b].session = NoSession => \E o \in Order : OrdersOn(b) = {o}
  /\ bills[b].session # NoSession => /\ sessions[bills[b].session].status = "CLOSED"
                                     /\ OrdersOn(b) = Completed(bills[b].session)

BInv == BillOfSession /\ \A b \in Bill : bills[b].status = "use" => BillOK(b)

LEMMA BillsFollow ==
  ASSUME IInv, BInv
  PROVE  BillsAddUp
<1>1. ASSUME NEW b \in Bill, bills[b].status # "use" PROVE OrdersOn(b) = {}
  BY <1>1, ConstantsAssumption DEF IInv, Placed, OrdersOn
<1>2. ASSUME NEW b \in Bill, bills[b].status = "use"
      PROVE  /\ bills[b].amount = TotalOf(OrdersOn(b))
             /\ bills[b].session = NoSession => Cardinality(OrdersOn(b)) = 1
             /\ bills[b].session # NoSession =>
                  /\ sessions[bills[b].session].status = "CLOSED"
                  /\ OrdersOn(b) = {o \in OrdersOf(bills[b].session) :
                                      orders[o].status = "COMPLETED"}
  <2>1. BillOK(b)
    BY <1>2 DEF BInv
  <2>2. bills[b].session = NoSession => Cardinality(OrdersOn(b)) = 1
    BY <2>1, FS_Singleton DEF BillOK
  <2>3. Completed(bills[b].session) = {o \in OrdersOf(bills[b].session) :
                                         orders[o].status = "COMPLETED"}
    BY DEF Completed, OrdersOf
  <2> QED BY <2>1, <2>2, <2>3 DEF BillOK
<1> QED BY <1>1, <1>2 DEF BillsAddUp

-----------------------------------------------------------------------------
(* A bill that was issued stays right.                                     *)

\* What a step does to an issued bill, to the orders on it and to closed sessions.
Keeps(b) ==
  /\ bills'[b] = bills[b]
  /\ OrdersOn(b)' = OrdersOn(b)
  /\ \A o \in OrdersOn(b) : orders'[o].total = orders[o].total
  /\ \A s \in Session : sessions[s].status = "CLOSED" =>
       /\ sessions'[s].status = "CLOSED"
       /\ \A o \in Order : o \in Completed(s)' <=> o \in Completed(s)

LEMMA BillKept ==
  ASSUME IInv, NEW b \in Bill, bills[b].status = "use", BillOK(b), Keeps(b)
  PROVE  BillOK(b)'
<1>1. bills[b].session \in Session \cup {NoSession}
  BY DEF IInv, BillRow
<1>2. TotalOf(OrdersOn(b))' = TotalOf(OrdersOn(b))
  <2>1. [o \in OrdersOn(b)' |-> orders'[o].total] = [o \in OrdersOn(b) |-> orders[o].total]
    BY DEF Keeps
  <2> QED BY <2>1 DEF TotalOf
<1>3. bills[b].session # NoSession =>
        /\ sessions'[bills[b].session].status = "CLOSED"
        /\ OrdersOn(b)' = Completed(bills[b].session)'
  <2>1. ASSUME bills[b].session # NoSession
        PROVE  /\ sessions'[bills[b].session].status = "CLOSED"
               /\ OrdersOn(b)' = Completed(bills[b].session)'
    <3>1. PICK s \in Session : s = bills[b].session
      BY <1>1, <2>1
    <3>2. /\ sessions'[s].status = "CLOSED" /\ OrdersOn(b) = Completed(s)
          /\ \A o \in Order : o \in Completed(s)' <=> o \in Completed(s)
      BY <2>1, <3>1 DEF BillOK, Keeps
    <3>3. Completed(s)' \subseteq Order /\ Completed(s) \subseteq Order
      BY DEF Completed
    <3>4. OrdersOn(b)' = Completed(s)'
      BY <3>2, <3>3 DEF Keeps
    <3>5. bills'[b].session = s
      BY <3>1 DEF Keeps
    <3> QED BY <3>1, <3>2, <3>4, <3>5 DEF Completed
  <2> QED BY <2>1
<1> QED BY <1>2, <1>3 DEF BillOK, Keeps

LEMMA OrderStepBills ==
  ASSUME IInv, BInv, NEW o \in Order, NEW r, OrderStep(o, r)
  PROVE  BInv'
<1>1. /\ orders \in [Order -> OrderRow] /\ bills \in [Bill -> BillRow]
      /\ r \in OrderRow /\ sessions' = sessions
      /\ \A p \in Order : orders'[p] = IF p = o THEN r ELSE orders[p]
  BY DEF IInv, OrdersOK, OrderStep, RowOK
<1>2. /\ orders[o].bill \in Bill \cup {NoBill} /\ r.bill \in Bill \cup {NoBill}
      /\ r.total \in Nat
  BY <1>1, ConstantsAssumption DEF OrderRow, Cents
<1>3. \/ r.bill = orders[o].bill /\ bills' = bills
      \/ /\ orders[o].bill = NoBill /\ r.bill \in Bill /\ bills[r.bill].status = "NONE"
         /\ bills' = [bills EXCEPT ![r.bill] = OwnBill(r)]
  BY DEF OrderStep
<1>4. \A p \in Order : orders[p].bill # NoBill => bills[orders[p].bill].status = "use"
  BY DEF IInv, Placed
<1>5. ASSUME NEW b \in Bill, bills[b].status = "use"
      PROVE  Keeps(b)
  <2>1. bills'[b] = bills[b] /\ b # NoBill
    BY <1>5, ConstantsAssumption DEF OrderStep
  <2>2. r.bill = b <=> orders[o].bill = b
    BY <1>3, <1>5, <2>1
  <2>3. OrdersOn(b)' = OrdersOn(b)
    BY <1>1, <2>2 DEF OrdersOn
  <2>4. \A p \in OrdersOn(b) : orders'[p].total = orders[p].total
    BY <1>1, <2>1 DEF OrdersOn, OrderStep
  <2>5. ASSUME NEW s \in Session, sessions[s].status = "CLOSED", NEW p \in Order
        PROVE  p \in Completed(s)' <=> p \in Completed(s)
    <3>1. o \notin Completed(s)
      BY DEF Completed, OrderStep, TERMINAL_ORDER_STATUSES
    <3>2. ~(r.status = "COMPLETED" /\ r.session = s)
      BY ConstantsAssumption DEF OrderStep
    <3> QED BY <1>1, <3>1, <3>2 DEF Completed
  <2> QED BY <1>1, <2>1, <2>3, <2>4, <2>5 DEF Keeps
<1>6. ASSUME NEW b \in Bill, bills[b].status # "use", bills'[b].status = "use"
      PROVE  BillOK(b)'
  <2>1. b = r.bill /\ bills'[b] = OwnBill(r)
    BY <1>1, <1>3, <1>6
  <2>2. OrdersOn(b)' = {o}
    BY <1>1, <1>4, <1>6, <2>1, ConstantsAssumption DEF OrdersOn
  <2>3. TotalOf(OrdersOn(b))' = r.total
    <3> DEFINE f == [p \in {o} |-> orders'[p].total]
    <3>1. DOMAIN f = {o} /\ f[o] = r.total
      BY <1>1
    <3>2. [p \in OrdersOn(b)' |-> orders'[p].total] = f
      BY <2>2
    <3> HIDE DEF f
    <3>3. SumFunction(f) = r.total
      BY <1>2, <3>1, SumOfOne
    <3> QED BY <3>2, <3>3 DEF TotalOf
  <2> QED BY <2>1, <2>2, <2>3 DEF BillOK, OwnBill
<1>7. BillOfSession'
  <2>1. ASSUME NEW p \in Order, orders'[p].bill # NoBill
        PROVE  /\ bills'[orders'[p].bill].session = orders'[p].session
               /\ orders'[p].session # NoSession =>
                     sessions[orders'[p].session].status = "CLOSED"
    <3>1. CASE p # o
      <4>1. orders'[p] = orders[p] /\ bills'[orders[p].bill] = bills[orders[p].bill]
        BY <1>1, <1>4, <2>1, <3>1 DEF OrderRow, OrderStep
      <4> QED BY <2>1, <4>1 DEF BInv, BillOfSession
    <3>2. CASE p = o
      <4>1. orders'[p] = r /\ r.session = NoSession
        BY <1>1, <2>1, <3>2 DEF OrderStep
      <4>2. CASE r.bill = orders[o].bill /\ bills' = bills
        BY <2>1, <4>1, <4>2 DEF BInv, BillOfSession, IInv, Placed, OrderStep
      <4>3. CASE r.bill \in Bill /\ bills' = [bills EXCEPT ![r.bill] = OwnBill(r)]
        BY <1>1, <4>1, <4>3 DEF OwnBill
      <4> QED BY <1>3, <4>1, <4>2, <4>3
    <3> QED BY <3>1, <3>2
  <2> QED BY <1>1, <2>1 DEF BillOfSession
<1>8. ASSUME NEW b \in Bill, bills'[b].status = "use" PROVE BillOK(b)'
  BY <1>5, <1>6, <1>8, BillKept DEF BInv
<1> QED BY <1>7, <1>8 DEF BInv

LEMMA SettleTableBills ==
  ASSUME IInv, BInv, NEW u \in Staff, NEW s \in Session, NEW b \in Bill,
         NEW S \in SUBSET Order, NEW claim \in [S -> Version],
         SettleTableSession(u, s, claim, b)
  PROVE  BInv'
<1>1. /\ orders \in [Order -> OrderRow] /\ bills \in [Bill -> BillRow]
      /\ sessions \in [Session -> SessionRow]
      /\ \A o \in Order : RowOK(orders[o]) /\ orders[o] \in OrderRow
      /\ s # NoSession /\ b # NoBill
  BY ConstantsAssumption DEF IInv, OrdersOK, RowOK
<1>2. /\ S = Unsettled(s) /\ bills[b].status = "NONE" /\ sessions[s].status = "OPEN"
      /\ \A o \in S : orders[o].status = "SERVED"
      /\ bills' = [bills EXCEPT ![b] =
                     [status |-> "use", amount |-> TotalOf(S), session |-> s]]
      /\ orders' = [o \in Order |->
                      IF o \in S THEN completePaidOrder(orders[o], b) ELSE orders[o]]
      /\ sessions' = [sessions EXCEPT ![s] = CloseSessionRow(sessions[s])]
  BY DEF SettleTableSession, BillAmount
<1>3. \A o \in S : orders[o].bill = NoBill /\ orders[o].session = s
  BY <1>2 DEF Unsettled, OrdersOf
<1>4. ASSUME NEW o \in S
      PROVE  /\ orders'[o].status = "COMPLETED" /\ orders'[o].bill = b
             /\ orders'[o].session = s /\ orders'[o].total = orders[o].total
  <2>1. orders'[o] = completePaidOrder(orders[o], b)
    BY <1>2
  <2>2. /\ completePaidOrder(orders[o], b).status = "COMPLETED"
        /\ completePaidOrder(orders[o], b).bill = b
        /\ SamePlace(completePaidOrder(orders[o], b), orders[o])
    BY <1>1, <1>2, <1>3, CompletePaidOK
  <2> QED BY <1>3, <2>1, <2>2 DEF SamePlace
<1>5. \A o \in Order \ S : orders'[o] = orders[o]
  BY <1>2
<1>6. /\ \A c \in Bill \ {b} : bills'[c] = bills[c]
      /\ bills'[b] = [status |-> "use", amount |-> TotalOf(S), session |-> s]
      /\ \A t \in Session \ {s} : sessions'[t] = sessions[t]
      /\ sessions'[s].status = "CLOSED"
  BY <1>1, <1>2, CloseSessionRowOK
<1>7. \A o \in Order : orders[o].bill # b
  BY <1>1, <1>2 DEF IInv, Placed
<1>8. \A o \in Order : orders[o].session = s => orders[o].bill = NoBill
  BY <1>1, <1>2 DEF BInv, BillOfSession
<1>9. ASSUME NEW c \in Bill, bills[c].status = "use" PROVE Keeps(c)
  <2>1. c # b /\ bills'[c] = bills[c] /\ c # NoBill
    BY <1>2, <1>6, <1>9, ConstantsAssumption
  <2>2. OrdersOn(c)' = OrdersOn(c) /\ \A o \in OrdersOn(c) : o \notin S
    BY <1>3, <1>4, <1>5, <2>1 DEF OrdersOn
  <2>3. \A o \in OrdersOn(c) : orders'[o].total = orders[o].total
    BY <1>5, <2>2 DEF OrdersOn
  <2>4. ASSUME NEW t \in Session, sessions[t].status = "CLOSED"
        PROVE  /\ sessions'[t].status = "CLOSED"
               /\ \A o \in Order : o \in Completed(t)' <=> o \in Completed(t)
    <3>1. t # s
      BY <1>2, <2>4
    <3> QED BY <1>3, <1>4, <1>5, <1>6, <2>4, <3>1 DEF Completed
  <2> QED BY <2>1, <2>2, <2>3, <2>4 DEF Keeps
<1>10. BillOK(b)'
  <2>1. OrdersOn(b)' = S
    BY <1>4, <1>5, <1>7 DEF OrdersOn
  <2>2. TotalOf(OrdersOn(b))' = TotalOf(S)
    <3>1. [o \in OrdersOn(b)' |-> orders'[o].total] = [o \in S |-> orders[o].total]
      BY <1>4, <2>1
    <3> QED BY <3>1 DEF TotalOf
  <2>3. Completed(s)' = S
    <3>1. \A o \in Order \ S : orders[o].session = s => orders[o].status # "COMPLETED"
      BY <1>8 DEF IInv, PaymentMatchesStatus
    <3> QED BY <1>4, <1>5, <3>1 DEF Completed
  <2> QED BY <1>1, <1>6, <2>1, <2>2, <2>3 DEF BillOK, Completed
<1>11. BillOfSession'
  <2>1. ASSUME NEW o \in Order, orders'[o].bill # NoBill
        PROVE  /\ bills'[orders'[o].bill].session = orders'[o].session
               /\ orders'[o].session # NoSession =>
                     sessions'[orders'[o].session].status = "CLOSED"
    <3>1. CASE o \in S
      BY <1>4, <1>6, <3>1
    <3>2. CASE o \notin S
      <4>1. /\ orders'[o] = orders[o] /\ orders[o].bill \in Bill /\ orders[o].bill # b
            /\ orders[o].session \in Session \cup {NoSession} /\ orders[o].session # s
        BY <1>1, <1>5, <1>7, <1>8, <2>1, <3>2 DEF OrderRow
      <4> QED BY <1>6, <2>1, <4>1 DEF BInv, BillOfSession
    <3> QED BY <3>1, <3>2
  <2> QED BY <2>1 DEF BillOfSession
<1>12. ASSUME NEW c \in Bill, bills'[c].status = "use" PROVE BillOK(c)'
  <2>1. CASE c = b
    BY <1>10, <2>1
  <2>2. CASE c # b
    <3>1. bills[c].status = "use" /\ Keeps(c)
      BY <1>6, <1>9, <1>12, <2>2
    <3> QED BY <3>1, BillKept DEF BInv
  <2> QED BY <2>1, <2>2
<1> QED BY <1>11, <1>12 DEF BInv

-----------------------------------------------------------------------------
(* Steps that issue no bill.                                               *)

LEMMA ReserveRefundBills ==
  ASSUME IInv, BInv, NEW u \in Staff, NEW o \in Order, NEW v \in Version,
         ReserveRefund(u, o, v)
  PROVE  BInv'
<1>1. /\ bills' = bills /\ sessions' = sessions
      /\ orders[o].status \notin TERMINAL_ORDER_STATUSES
      /\ \A p \in Order : SamePlace(orders'[p], orders[p]) /\ orders'[p].bill = orders[p].bill
      /\ \A p \in Order : p # o => orders'[p] = orders[p]
  BY ReserveRefundInv DEF ReserveRefund, SamePlace
<1>2. orders'[o].status = "CANCELLED"
  <2>1. orders \in [Order -> OrderRow] /\ orders[o] \in OrderRow
    BY DEF IInv, OrdersOK
  <2>2. orders' = [orders EXCEPT ![o] = Advance(orders[o], "CANCELLED")]
    BY DEF ReserveRefund
  <2>3. Advance(orders[o], "CANCELLED").status = "CANCELLED"
    BY <2>1, AdvanceFields DEF Status
  <2> QED BY <2>1, <2>2, <2>3
<1>3. ASSUME NEW b \in Bill, bills[b].status = "use" PROVE Keeps(b)
  <2>1. OrdersOn(b)' = OrdersOn(b)
    BY <1>1 DEF OrdersOn
  <2>2. \A s \in Session, p \in Order : p \in Completed(s)' <=> p \in Completed(s)
    BY <1>1, <1>2 DEF Completed, SamePlace, TERMINAL_ORDER_STATUSES
  <2> QED BY <1>1, <2>1, <2>2 DEF Keeps, SamePlace, OrdersOn
<1>4. BillOfSession'
  BY <1>1 DEF BInv, BillOfSession, SamePlace
<1> QED BY <1>1, <1>3, <1>4, BillKept DEF BInv

LEMMA SessionStepBills ==
  ASSUME IInv, BInv, NEW s \in Session, NEW r, SessionStep(s, r)
  PROVE  BInv'
<1>1. /\ orders' = orders /\ bills' = bills /\ sessions[s].status # "CLOSED"
      /\ \A t \in Session : t # s => sessions'[t] = sessions[t]
  BY DEF SessionStep, IInv
<1>2. ASSUME NEW b \in Bill, bills[b].status = "use" PROVE Keeps(b)
  BY <1>1 DEF Keeps, OrdersOn, Completed
<1>3. BillOfSession'
  <2>1. \A o \in Order : orders[o].session \in Session \cup {NoSession}
    BY DEF IInv, OrdersOK, OrderRow
  <2> QED BY <1>1, <2>1 DEF BInv, BillOfSession
<1> QED BY <1>1, <1>2, <1>3, BillKept DEF BInv

LEMMA SameBills ==
  ASSUME BInv, UNCHANGED <<orders, bills, sessions>>
  PROVE  BInv'
BY DEF BInv, BillOfSession, BillOK, TotalOf, OrdersOn, Completed

LEMMA InitBills == Init => BInv
<1> SUFFICES ASSUME Init PROVE BInv
  OBVIOUS
<1>1. /\ \A o \in Order : orders[o] = NoOrder
      /\ \A b \in Bill : bills[b].status = "NONE"
  BY DEF Init
<1>2. NoOrder.bill = NoBill
  BY DEF NoOrder, NewOrder
<1> QED BY <1>1, <1>2 DEF BInv, BillOfSession

LEMMA NextBills == IInv /\ BInv /\ [Next]_vars => BInv'
<1> SUFFICES ASSUME IInv, BInv, [Next]_vars PROVE BInv'
  OBVIOUS
<1>1. CASE Next
  <2>1. ASSUME NEW o \in Order, NEW u \in Staff, NEW failed \in BOOLEAN,
               FinishRefund(u, o, failed)
        PROVE  BInv'
    BY <2>1, SameBills DEF FinishRefund
  <2> QED BY <1>1, <2>1, StepKinds, OrderStepBills, SettleTableBills, ReserveRefundBills,
             SessionStepBills
<1>2. CASE UNCHANGED vars
  BY <1>2, SameBills DEF vars
<1> QED BY <1>1, <1>2

\* settleOrders charges each order once: at every commit the amount of a bill is the sum
\* of the totals of the orders that name it, and the bill of a table has every order of
\* the closed session that was not rejected or cancelled, whatever happens to them later.
THEOREM BillsAreSums == Spec => []BillsAddUp
BY BillsFollow, InitBills, NextBills, Invariance, PTL DEF Spec
=============================================================================
