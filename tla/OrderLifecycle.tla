--------------------------- MODULE OrderLifecycle ---------------------------
(***************************************************************************)
(* Orders, bills, refunds and table sessions of the restaurant, as the     *)
(* services in src/lib keep them in PostgreSQL.                            *)
(*                                                                         *)
(* Every write in this module happens in one Serializable transaction, so  *)
(* each handler is one atomic step.  A step stands for the commit of the   *)
(* handler: a handler that refuses its request, or whose transaction is    *)
(* aborted with P2034 or P2002, changes no row and is a stuttering step.   *)
(* A row that does not exist yet has status "NONE".                        *)
(***************************************************************************)
EXTENDS Naturals, Sequences, FiniteSetsExt

CONSTANTS
  Order,       \* Order rows that may ever be created
  Bill,        \* BillSale rows that may ever be created
  Session,     \* TableSession rows that may ever be created
  Table,       \* restaurant tables in use
  TableOf,     \* the table each session row belongs to
  Staff,       \* active users
  Level,       \* User.level of each of them
  Price,       \* order totals the catalog can produce, in cents
  MaxCents,    \* largest amount checkedCents accepts
  MaxVersion,  \* bound: the largest version a client can name
  MaxToken,    \* bound: the largest tokenVersion a rotation reaches
  NoBill, NoSession, NoUser

CapabilitiesByLevel ==
  [kitchen |-> {"ORDER_PREPARE", "ORDER_READY"},
   waiter  |-> {"ORDER_CONFIRM", "ORDER_REJECT", "ORDER_SERVE", "ORDER_CANCEL"},
   kassa   |-> {"ORDER_CONFIRM", "ORDER_REJECT", "ORDER_SERVE", "ORDER_CANCEL"},
   admin   |-> {"ORDER_CONFIRM", "ORDER_REJECT", "ORDER_PREPARE", "ORDER_READY",
                "ORDER_SERVE", "ORDER_CANCEL"}]

StaffLevel == {"kitchen", "waiter", "kassa", "admin"}

ASSUME ConstantsAssumption ==
  /\ TableOf \in [Session -> Table]
  /\ Level \in [Staff -> StaffLevel]
  /\ MaxCents \in Nat /\ MaxVersion \in Nat /\ MaxToken \in Nat
  /\ Price \subseteq 0..MaxCents
  /\ NoBill \notin Bill /\ NoSession \notin Session /\ NoUser \notin Staff

VARIABLES
  orders,    \* Order -> its row, its history rows included
  bills,     \* Bill -> its row
  refunds,   \* Order -> its OrderRefund row
  sessions   \* Session -> its row and its latest ServiceCall row

vars == <<orders, bills, refunds, sessions>>

-----------------------------------------------------------------------------
(* Rows.  A definition marked "Variation" is not part of the model: it is   *)
(* the definition below it with one plausible mistake, kept to show which   *)
(* property would notice.                                                  *)

Status == {"NONE", "SUBMITTED", "CONFIRMED", "PREPARING", "READY", "SERVED",
           "PAID", "COMPLETED", "REJECTED", "CANCELLED"}

Cents   == 0..MaxCents
Version == 1..MaxVersion
NoToken == 0

HistoryRow == [from : Status, to : Status, version : Nat]

OrderRow ==
  [status : Status, version : Nat, channel : {"COUNTER", "QR", "STAFF"},
   session : Session \cup {NoSession}, creator : Staff \cup {NoUser},
   total : Cents, bill : Bill \cup {NoBill}, preparingAt : {"null", "set"},
   history : Seq(HistoryRow)]

BillRow == [status : {"NONE", "use"}, amount : Cents, session : Session \cup {NoSession}]

RefundRow == [status : {"NONE", "PENDING", "FAILED", "COMPLETED"},
              amount : Cents, bill : Bill \cup {NoBill}]

CallStatus == {"NONE", "REQUESTED", "ACKNOWLEDGED", "RESOLVED"}

SessionRow == [status : {"NONE", "OPEN", "CLOSED"}, tokenVersion : Nat,
               call : CallStatus, callVersion : Nat]

\* The row the first update of a submission starts from.
NewOrder(channel, s, u, total) ==
  [status |-> "NONE", version |-> 0, channel |-> channel, session |-> s,
   creator |-> u, total |-> total, bill |-> NoBill, preparingAt |-> "null",
   history |-> <<>>]

NoOrder == NewOrder("COUNTER", NoSession, NoUser, 0)

TERMINAL_ORDER_STATUSES == {"COMPLETED", "CANCELLED", "REJECTED"}

Exists(o) == orders[o].status # "NONE"
OrdersOf(s) == {o \in Order : orders[o].session = s}
OrdersOn(b) == {o \in Order : orders[o].bill = b}

\* buildSnapshot and createCall accept an OPEN session only.
EverOpened(s) == sessions[s].status # "NONE"                    \* Variation
SessionActive(s) == sessions[s].status = "OPEN"
ActiveCall(s) == sessions[s].call \in {"REQUESTED", "ACKNOWLEDGED"}
TotalOf(S) == SumFunction([o \in S |-> orders[o].total])

-----------------------------------------------------------------------------
(* What one versioned update does to an Order row.                         *)

\* The status, the version, the timestamp that later code tests and the
\* OrderStatusHistory row are written together.
Advance(row, to) ==
  [row EXCEPT !.status = to,
              !.version = @ + 1,
              !.preparingAt = IF to = "PREPARING" THEN "set" ELSE @,
              !.history = Append(@, [from |-> row.status, to |-> to,
                                     version |-> row.version + 1])]

submissionState(row, confirmForKitchen) ==
  IF confirmForKitchen THEN Advance(Advance(row, "SUBMITTED"), "CONFIRMED")
                       ELSE Advance(row, "SUBMITTED")

PaymentWithoutVersion(row, b) == [row EXCEPT !.bill = b]        \* Variation
recordEarlyCounterPayment(row, b) ==
  [Advance(row, row.status) EXCEPT !.bill = b]

completePaidOrder(row, b) ==
  Advance([Advance(row, "PAID") EXCEPT !.bill = b], "COMPLETED")

ServedStaysServed(row, nextStatus) == Advance(row, nextStatus)  \* Variation
CompletedOffTheRecord(row, nextStatus) ==                      \* Variation
  IF nextStatus = "SERVED" /\ row.bill # NoBill
  THEN [Advance(row, "SERVED") EXCEPT !.status = "COMPLETED", !.version = @ + 1]
  ELSE Advance(row, nextStatus)

\* Serving a prepaid standalone Counter order completes it.
transitionRow(row, nextStatus) ==
  IF /\ nextStatus = "SERVED"
     /\ row.channel = "COUNTER" /\ row.session = NoSession
     /\ row.bill # NoBill
  THEN Advance(Advance(row, "SERVED"), "COMPLETED")
  ELSE Advance(row, nextStatus)

\* Closing a session, by hand or by settlement, revokes its QR token and
\* resolves its active service call.
CloseSessionRow(row) ==
  LET active == row.call \in {"REQUESTED", "ACKNOWLEDGED"} IN
  [status |-> "CLOSED",
   tokenVersion |-> row.tokenVersion + 1,
   call |-> IF active THEN "RESOLVED" ELSE row.call,
   callVersion |-> IF active THEN row.callVersion + 1 ELSE row.callVersion]

-----------------------------------------------------------------------------
(* Authority.                                                              *)

TRANSITION_CAPABILITY ==
  {<<"SUBMITTED", "CONFIRMED", "ORDER_CONFIRM">>,
   <<"SUBMITTED", "REJECTED", "ORDER_REJECT">>,
   <<"SUBMITTED", "CANCELLED", "ORDER_CANCEL">>,
   <<"CONFIRMED", "PREPARING", "ORDER_PREPARE">>,
   <<"CONFIRMED", "CANCELLED", "ORDER_CANCEL">>,
   <<"PREPARING", "READY", "ORDER_READY">>,
   <<"READY", "SERVED", "ORDER_SERVE">>,
   <<"PAID", "COMPLETED", "SYSTEM_COMPLETE">>}

authorizeTransition(u, from, to) ==
  \E capability \in CapabilitiesByLevel[Level[u]] :
     <<from, to, capability>> \in TRANSITION_CAPABILITY

\* verifyStaffActor without, and with, allowWaiter.
IsCashier(u) == Level[u] \in {"admin", "kassa"}
MayTakeTableOrders(u) == IsCashier(u) \/ Level[u] = "waiter"

-----------------------------------------------------------------------------
(* Orders enter the system.                                                *)

\* A public submission presents the session's current token and goes straight
\* to the kitchen; the service also accepts a customer order without a token,
\* which waits for confirmation.
SubmitQrOrder(o, s, token, total) ==
  /\ ~Exists(o)
  /\ SessionActive(s)
  /\ token \in {NoToken, sessions[s].tokenVersion}
  /\ orders' = [orders EXCEPT ![o] =
                  submissionState(NewOrder("QR", s, NoUser, total),
                                  token # NoToken)]
  /\ UNCHANGED <<bills, refunds, sessions>>

SubmitStaffOrder(o, s, u, total, confirmForKitchen) ==
  /\ ~Exists(o)
  /\ MayTakeTableOrders(u)
  /\ SessionActive(s)
  /\ orders' = [orders EXCEPT ![o] =
                  submissionState(NewOrder("STAFF", s, u, total),
                                  confirmForKitchen)]
  /\ UNCHANGED <<bills, refunds, sessions>>

SubmitCounterOrder(o, u, total, confirmForKitchen) ==
  /\ ~Exists(o)
  /\ IsCashier(u)
  /\ orders' = [orders EXCEPT ![o] =
                  submissionState(NewOrder("COUNTER", NoSession, u, total),
                                  confirmForKitchen)]
  /\ UNCHANGED <<bills, refunds, sessions>>

\* The order, its bill and its payment commit together.
CheckoutCounterOrder(o, u, total, b) ==
  /\ ~Exists(o)
  /\ IsCashier(u)
  /\ bills[b].status = "NONE"
  /\ orders' = [orders EXCEPT ![o] =
                  recordEarlyCounterPayment(
                    submissionState(NewOrder("COUNTER", NoSession, u, total),
                                    TRUE), b)]
  /\ bills' = [bills EXCEPT ![b] =
                 [status |-> "use", amount |-> total, session |-> NoSession]]
  /\ UNCHANGED <<refunds, sessions>>

-----------------------------------------------------------------------------
(* Staff and kitchen move an order.                                        *)

TransitionOrder(u, o, expectedVersion, nextStatus) ==
  LET current == orders[o] IN
  /\ Exists(o)
  /\ current.version = expectedVersion
  /\ authorizeTransition(u, current.status, nextStatus)
  /\ nextStatus = "CANCELLED" => current.preparingAt = "null"
  /\ nextStatus \in {"REJECTED", "CANCELLED"} => current.bill = NoBill
  /\ orders' = [orders EXCEPT ![o] = transitionRow(current, nextStatus)]
  /\ UNCHANGED <<bills, refunds, sessions>>

-----------------------------------------------------------------------------
(* Payment.                                                                *)

AlwaysPayable(row) == row.channel = "COUNTER"                   \* Variation
NotPaidYet(row) == row.bill = NoBill

SettleCounterOrder(u, o, expectedVersion, b) ==
  LET current == orders[o] IN
  /\ IsCashier(u)
  /\ current.channel = "COUNTER"
  /\ current.creator = u
  /\ current.session = NoSession
  /\ current.version = expectedVersion
  /\ current.status \in {"SUBMITTED", "CONFIRMED", "PREPARING", "READY", "SERVED"}
  /\ NotPaidYet(current)
  /\ bills[b].status = "NONE"
  /\ bills' = [bills EXCEPT ![b] = [status |-> "use", amount |-> current.total,
                                    session |-> NoSession]]
  /\ orders' = [orders EXCEPT ![o] =
                  IF current.status = "SERVED"
                  THEN completePaidOrder(current, b)
                  ELSE recordEarlyCounterPayment(current, b)]
  /\ UNCHANGED <<refunds, sessions>>

\* Variation: only what is ready to be charged counts as unsettled.
ServedUnsettled(s) ==
  {o \in OrdersOf(s) : orders[o].bill = NoBill /\ orders[o].status = "SERVED"}
Unsettled(s) ==
  {o \in OrdersOf(s) : /\ orders[o].bill = NoBill
                       /\ orders[o].status \notin {"REJECTED", "CANCELLED"}}

DistinctTotals(S) == SumSet({orders[o].total : o \in S})       \* Variation
BillAmount(S) == TotalOf(S)

UncheckedAmount(S) == BillAmount(S) \in Nat                     \* Variation
RepresentableAmount(S) == BillAmount(S) \in Cents

\* "claim" is what the cashier's screen asserts: the orders of the table and
\* the version each was seen at.
SettleTableSession(u, s, claim, b) ==
  LET S == DOMAIN claim IN
  /\ IsCashier(u)
  /\ S # {}
  /\ S = Unsettled(s)
  /\ \A o \in S : /\ orders[o].version = claim[o]
                  /\ orders[o].status = "SERVED"
  /\ RepresentableAmount(S)
  /\ bills[b].status = "NONE"
  /\ sessions[s].status = "OPEN"
  /\ bills' = [bills EXCEPT ![b] =
                 [status |-> "use", amount |-> BillAmount(S), session |-> s]]
  /\ orders' = [o \in Order |->
                  IF o \in S THEN completePaidOrder(orders[o], b) ELSE orders[o]]
  /\ sessions' = [sessions EXCEPT ![s] = CloseSessionRow(@)]
  /\ UNCHANGED refunds

-----------------------------------------------------------------------------
(* Refunds.                                                                *)

StillUnderway(row) == row.status \in {"SUBMITTED", "CONFIRMED", "PREPARING"} \* Variation
NotStarted(row) == row.status \in {"SUBMITTED", "CONFIRMED"} /\ row.preparingAt = "null"

ReserveRefund(u, o, expectedVersion) ==
  LET current == orders[o]
      paidBy == current.bill
  IN
  /\ IsCashier(u)
  /\ refunds[o].status = "NONE"
  /\ current.version = expectedVersion
  /\ NotStarted(current)
  /\ paidBy # NoBill
  /\ bills[paidBy].status = "use"
  /\ OrdersOn(paidBy) = {o}
  /\ bills[paidBy].amount = current.total
  /\ orders' = [orders EXCEPT ![o] = Advance(@, "CANCELLED")]
  /\ refunds' = [refunds EXCEPT ![o] =
                   [status |-> "PENDING", amount |-> bills[paidBy].amount,
                    bill |-> paidBy]]
  /\ UNCHANGED <<bills, sessions>>

\* Variation: completion takes the money off the bill it returns.
FinishRefundOnBill(u, o, failed) ==
  /\ IsCashier(u)
  /\ refunds[o].status \in {"PENDING", "FAILED"}
  /\ refunds' = [refunds EXCEPT ![o].status =
                   IF failed THEN "FAILED" ELSE "COMPLETED"]
  /\ bills' = [bills EXCEPT ![refunds[o].bill].amount = IF failed THEN @ ELSE 0]
  /\ UNCHANGED <<orders, sessions>>

\* A failed return can be retried, a completed one is never reopened.
FinishRefund(u, o, failed) ==
  /\ IsCashier(u)
  /\ refunds[o].status \in {"PENDING", "FAILED"}
  /\ refunds' = [refunds EXCEPT ![o].status =
                   IF failed THEN "FAILED" ELSE "COMPLETED"]
  /\ UNCHANGED <<orders, bills, sessions>>

-----------------------------------------------------------------------------
(* Table sessions and their service calls.                                 *)

\* The partial unique index admits one OPEN session per table.
OpenSession(s) ==
  /\ sessions[s].status = "NONE"
  /\ \A t \in Session : TableOf[t] = TableOf[s] => sessions[t].status # "OPEN"
  /\ sessions' = [sessions EXCEPT ![s].status = "OPEN", ![s].tokenVersion = 1]
  /\ UNCHANGED <<orders, bills, refunds>>

RotateToken(s, expectedVersion) ==
  /\ sessions[s].status = "OPEN"
  /\ sessions[s].tokenVersion = expectedVersion
  /\ expectedVersion < MaxToken
  /\ sessions' = [sessions EXCEPT ![s].tokenVersion = @ + 1]
  /\ UNCHANGED <<orders, bills, refunds>>

CloseSession(s, expectedVersion) ==
  /\ sessions[s].status = "OPEN"
  /\ \A o \in OrdersOf(s) : orders[o].status \in TERMINAL_ORDER_STATUSES
  /\ sessions[s].tokenVersion = expectedVersion
  /\ sessions' = [sessions EXCEPT ![s] = CloseSessionRow(@)]
  /\ UNCHANGED <<orders, bills, refunds>>

\* A session with an active call answers with that call and creates none.
CreateCall(s, token) ==
  /\ SessionActive(s)
  /\ sessions[s].tokenVersion = token
  /\ ~ActiveCall(s)
  /\ sessions' = [sessions EXCEPT ![s].call = "REQUESTED", ![s].callVersion = 1]
  /\ UNCHANGED <<orders, bills, refunds>>

ChangeCallStatus(s, expectedVersion, nextStatus) ==
  /\ sessions[s].status = "OPEN"
  /\ <<sessions[s].call, nextStatus>> \in
       {<<"REQUESTED", "ACKNOWLEDGED">>, <<"ACKNOWLEDGED", "RESOLVED">>}
  /\ sessions[s].callVersion = expectedVersion
  /\ sessions' = [sessions EXCEPT ![s].call = nextStatus, ![s].callVersion = @ + 1]
  /\ UNCHANGED <<orders, bills, refunds>>

-----------------------------------------------------------------------------
Init ==
  /\ orders = [o \in Order |-> NoOrder]
  /\ bills = [b \in Bill |-> [status |-> "NONE", amount |-> 0, session |-> NoSession]]
  /\ refunds = [o \in Order |-> [status |-> "NONE", amount |-> 0, bill |-> NoBill]]
  /\ sessions = [s \in Session |-> [status |-> "NONE", tokenVersion |-> 0,
                                    call |-> "NONE", callVersion |-> 0]]

OrderNext ==
  \/ \E o \in Order, s \in Session, token \in 0..(MaxToken + 1), total \in Price :
        SubmitQrOrder(o, s, token, total)
  \/ \E o \in Order, s \in Session, u \in Staff, total \in Price, k \in BOOLEAN :
        SubmitStaffOrder(o, s, u, total, k)
  \/ \E o \in Order, u \in Staff, total \in Price, k \in BOOLEAN :
        SubmitCounterOrder(o, u, total, k)
  \/ \E o \in Order, u \in Staff, v \in Version, to \in Status :
        TransitionOrder(u, o, v, to)

MoneyNext ==
  \/ \E o \in Order, u \in Staff, total \in Price, b \in Bill :
        CheckoutCounterOrder(o, u, total, b)
  \/ \E o \in Order, u \in Staff, v \in Version, b \in Bill :
        SettleCounterOrder(u, o, v, b)
  \/ \E u \in Staff, s \in Session, b \in Bill, S \in SUBSET Order :
        \E claim \in [S -> Version] : SettleTableSession(u, s, claim, b)
  \/ \E o \in Order, u \in Staff, v \in Version : ReserveRefund(u, o, v)
  \/ \E o \in Order, u \in Staff, failed \in BOOLEAN : FinishRefund(u, o, failed)

SessionNext ==
  \/ \E s \in Session : OpenSession(s)
  \/ \E s \in Session, v \in 1..MaxToken : RotateToken(s, v)
  \/ \E s \in Session, v \in 1..MaxToken : CloseSession(s, v)
  \/ \E s \in Session, token \in 1..MaxToken : CreateCall(s, token)
  \/ \E s \in Session, v \in 1..2, to \in CallStatus : ChangeCallStatus(s, v, to)

Next == OrderNext \/ MoneyNext \/ SessionNext

Spec == Init /\ [][Next]_vars

-----------------------------------------------------------------------------
(* Invariants.                                                             *)

\* Every row keeps its columns' types; amounts stay in the checkedCents range.
TypeOK ==
  /\ orders \in [Order -> OrderRow]
  /\ bills \in [Bill -> BillRow]
  /\ refunds \in [Order -> RefundRow]
  /\ sessions \in [Session -> SessionRow]

\* The history of an order, over transitions, early payments, settlement and
\* refunds alike, is one gap-free chain of versions that starts at submission
\* and ends in the order's current status and version: row v is version v and
\* leaves the status that version v - 1 reached.
AuditedRow(row) ==
  LET h == row.history
      StatusAt(v) == IF v = 0 THEN "NONE" ELSE h[v].to
  IN
  /\ row.version = Len(h)
  /\ row.status = StatusAt(row.version)
  /\ \A v \in 1..Len(h) : h[v].version = v /\ h[v].from = StatusAt(v - 1)

AuditTrail == \A o \in Order : AuditedRow(orders[o])

\* Status and payment agree at every commit: nothing served, or rejected, sits
\* on a bill; nothing completes unpaid; PAID is never left behind; a table order
\* is on a bill only once completed; and a paid order is cancelled exactly when
\* a refund was reserved for it.
PaymentMatchesStatus ==
  \A o \in Order :
     LET row == orders[o]
         paid == row.bill # NoBill
     IN
     /\ row.status # "PAID"
     /\ row.status \in {"NONE", "SERVED", "REJECTED"} => ~paid
     /\ row.status = "COMPLETED" => paid
     /\ row.session # NoSession /\ paid => row.status = "COMPLETED"
     /\ (row.status = "CANCELLED" /\ paid) <=> refunds[o].status # "NONE"

\* "Kitchen start permanently closes cancellation for every role and channel":
\* an order the kitchen began is never cancelled or rejected, and no money for
\* it is given back, whichever handler is used.
KitchenBegan(row) ==
  \E v \in 1..Len(row.history) :
     row.history[v].to \in {"PREPARING", "READY", "SERVED"}

KitchenStartIsFinal ==
  \A o \in Order :
     KitchenBegan(orders[o])
     => /\ orders[o].status \notin {"CANCELLED", "REJECTED"}
        /\ refunds[o].status = "NONE"

\* A refund returns exactly one payment: the whole amount of the one bill of
\* that order, so refunds can never exceed what was taken.
RefundIsWholePayment ==
  \A o \in Order :
     refunds[o].status # "NONE" =>
       LET b == refunds[o].bill IN
       /\ b \in Bill
       /\ bills[b].status = "use"
       /\ OrdersOn(b) = {o}
       /\ refunds[o].amount = bills[b].amount
       /\ refunds[o].amount = orders[o].total

\* A bill charges its orders once: its amount is the sum of their totals, a
\* standalone bill has one order, and a table's bill has every order of the
\* session that was not rejected or cancelled.
BillsAddUp ==
  \A b \in Bill :
     IF bills[b].status = "use"
     THEN /\ bills[b].amount = TotalOf(OrdersOn(b))
          /\ IF bills[b].session = NoSession
             THEN Cardinality(OrdersOn(b)) = 1
             ELSE /\ sessions[bills[b].session].status = "CLOSED"
                  /\ OrdersOn(b) = {o \in OrdersOf(bills[b].session) :
                                      orders[o].status = "COMPLETED"}
     ELSE OrdersOn(b) = {}

\* Closing a table, by hand or by payment, leaves nothing behind: no order that
\* is still cooking or unpaid and no service call in the staff queue.
ClosedSessionSettled ==
  \A s \in Session :
     sessions[s].status = "CLOSED" =>
       /\ ~ActiveCall(s)
       /\ \A o \in OrdersOf(s) : orders[o].status \in TERMINAL_ORDER_STATUSES

-----------------------------------------------------------------------------
(* What no step may do.                                                    *)

\* Money records are never rewritten: an issued bill, the bill of an order, the
\* amount of a refund and a completed refund stay as they are.
MoneyKept ==
  /\ \A b \in Bill : bills[b].status = "use" => bills'[b] = bills[b]
  /\ \A o \in Order :
       /\ orders[o].bill # NoBill => /\ orders'[o].bill = orders[o].bill
                                     /\ orders'[o].total = orders[o].total
       /\ refunds[o].status = "COMPLETED" => refunds'[o] = refunds[o]
       /\ refunds[o].status # "NONE" => /\ refunds'[o].amount = refunds[o].amount
                                        /\ refunds'[o].bill = refunds[o].bill

MoneyIsFinal == [][MoneyKept]_vars

\* The optimistic lock covers every writer: any handler that touches an order
\* raises its version and extends its history, so a client that still holds the
\* old version is refused, and no terminal order is touched again.
WritesVersioned ==
  \A o \in Order :
     orders'[o] # orders[o] =>
       /\ orders'[o].version > orders[o].version
       /\ \A v \in 1..orders[o].version :
            orders'[o].history[v] = orders[o].history[v]
       /\ orders[o].status \notin TERMINAL_ORDER_STATUSES

EveryWriteIsVersioned == [][WritesVersioned]_vars

\* A closed session stays closed: it never reopens, takes no new order and
\* wakes no service call, however late a request for it commits.
ClosedKept ==
  \A s \in Session :
     sessions[s].status = "CLOSED" =>
       /\ sessions'[s] = sessions[s]
       /\ {o \in Order : orders'[o].session = s} = OrdersOf(s)

ClosedSessionFrozen == [][ClosedKept]_vars
=============================================================================
