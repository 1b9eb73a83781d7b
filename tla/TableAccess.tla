----------------------------- MODULE TableAccess ------------------------------
(***************************************************************************)
(* Access to one restaurant table: staff open, rotate and close its        *)
(* sessions, renumber and delete it and set the QR mode while guests and   *)
(* waiters submit orders and guests call for service.  OrderLifecycle      *)
(* takes each of these as one step; here a handler reads before its        *)
(* transaction, its transaction reads a snapshot, and what other           *)
(* transactions commit before it does is judged as PostgreSQL does it.     *)
(*                                                                         *)
(* A Serializable transaction fails (P2034) if a row that it writes or     *)
(* locks was changed since its snapshot, or if a transaction committed     *)
(* meanwhile wrote what it read and read what it writes.  (Longer cycles,  *)
(* which PostgreSQL detects as well, are let through here.)  A row lock    *)
(* is only held until the commit, so lock and commit are one step.  A      *)
(* handler that is aborted for other reasons, crashes or loses its         *)
(* connection before the commit is one that takes no further step.         *)
(***************************************************************************)
EXTENDS Naturals

CONSTANTS
  Request,      \* requests, retries included
  Key,          \* idempotency keys
  Session,      \* TableSession ids of the table
  Number,       \* table numbers
  MaxToken,     \* bound: the largest tokenVersion a rotation reaches
  MaxRetry,     \* retries after a conflict: 2 in the code
  None

ASSUME AccessAssumption ==
  /\ MaxToken \in Nat \ {0} /\ MaxRetry \in Nat
  /\ Session \cap {"table", "policy", "orders", "calls"} = {}

VARIABLES
  table,     \* the RestaurantTable row
  others,    \* the numbers of the other tables, deleted ones included
  sessions,  \* Session -> its row, its service call included
  mode,      \* the QrPolicy mode
  orders,    \* the orders of the table's sessions
  req,       \* Request -> the state of its handler
  doomed     \* transactions that can no longer commit on their snapshot

vars == <<table, others, sessions, mode, orders, req, doomed>>

-----------------------------------------------------------------------------
Mode == {"DISABLED", "MENU_ONLY", "ORDERING"}
Submission == {"guest", "waiter"}
Admin == {"open", "rotate", "close", "renumber", "delete"}

RestaurantTable == [status : {"use", "delete"}, tableNo : Number]
SessionRow == [status : {"NONE", "OPEN", "CLOSED"}, token : 0..(MaxToken + 1),
               call : {"NONE", "ACTIVE", "RESOLVED"}]
\* A key belongs to its caller, and a caller uses it for one session.
OrderRow == [by : Submission, key : Key, session : Session, tableNo : Number,
             live : BOOLEAN]
Snapshot == [table : RestaurantTable, sessions : [Session -> SessionRow],
             mode : Mode, orders : SUBSET OrderRow]

HandlerState ==
  [pc : {"idle", "check", "begin", "body", "P2034", "done"},
   op : Submission \cup Admin \cup {"call", None},
   session : Session \cup {None}, token : Nat, key : Key \cup {None},
   tableNo : Number \cup {None}, attempt : 0..MaxRetry,
   snap : Snapshot \cup {None},
   answer : {None, "success", "refused", "conflict"}]

Idle == [pc |-> "idle", op |-> None, session |-> None, token |-> 0, key |-> None,
         tableNo |-> None, attempt |-> 0, snap |-> None, answer |-> None]

Db == [table |-> table, sessions |-> sessions, mode |-> mode, orders |-> orders]

Done(a) == [Idle EXCEPT !.pc = "done", !.answer = a]
Answer(r, a) == req' = [req EXCEPT ![r] = Done(a)] /\ doomed' = doomed \ {r}
Unwritten == UNCHANGED <<table, others, sessions, mode, orders>>

-----------------------------------------------------------------------------
(* What the handlers decide on, read from the database or a snapshot db.   *)

SessionUsable(db, s) == db.sessions[s].status = "OPEN" /\ db.table.status = "use"

\* The derived token names a session and its current version.
resolveQrAccess(db, s, token) == SessionUsable(db, s) /\ db.sessions[s].token = token

getExistingOrder(r, db) ==
  \E o \in db.orders : /\ o.by = req[r].op /\ o.key = req[r].key
                       /\ o.session = req[r].session

-----------------------------------------------------------------------------
(* Requests, and what their handlers read before the transaction.          *)

Arrive(r, state) ==
  /\ req[r].pc = "idle"
  /\ req' = [req EXCEPT ![r] = state]
  /\ UNCHANGED doomed /\ Unwritten

\* A guest holds a token that was issued; a waiter picks a session from a list.
PublicSubmit(r, s, token, k) ==
  /\ sessions[s].status # "NONE" /\ token <= sessions[s].token
  /\ Arrive(r, [Idle EXCEPT !.pc = "check", !.op = "guest", !.session = s,
                            !.token = token, !.key = k])
WaiterSubmit(r, s, k) ==
  /\ sessions[s].status # "NONE"
  /\ Arrive(r, [Idle EXCEPT !.pc = "check", !.op = "waiter", !.session = s, !.key = k])
CallService(r, s, token) ==
  /\ sessions[s].status # "NONE" /\ token <= sessions[s].token
  /\ Arrive(r, [Idle EXCEPT !.pc = "check", !.op = "call", !.session = s,
                            !.token = token])
Manage(r, op, s, version, n) ==
  /\ op \in {"open", "rotate", "close"} => s # None /\ n = None
  /\ op = "open" => sessions[s].status = "NONE"
  /\ op = "renumber" => s = None /\ n # None
  /\ op = "delete" => s = None /\ n = None
  /\ op \in {"rotate", "close"} =>
        sessions[s].status # "NONE" /\ version \in 1..sessions[s].token
  /\ op \notin {"rotate", "close"} => version = 0
  /\ Arrive(r, [Idle EXCEPT !.pc = "begin", !.op = op, !.session = s,
                            !.token = version, !.tableNo = n])

\* validAccess and the replay read of submitOrder, for waiters the session check.
Check(r) ==
  LET s == req[r].session
      allowed == CASE req[r].op = "guest" -> resolveQrAccess(Db, s, req[r].token)
                   [] req[r].op = "waiter" -> SessionUsable(Db, s)
                   [] req[r].op = "call" -> /\ resolveQrAccess(Db, s, req[r].token)
                                            /\ mode # "DISABLED"
  IN
  /\ req[r].pc = "check"
  /\ \/ ~allowed /\ Answer(r, "refused")
     \/ /\ allowed
        /\ IF req[r].op \in Submission /\ getExistingOrder(r, Db)
           THEN Answer(r, "success")
           ELSE /\ req' = [req EXCEPT ![r].pc = "begin", ![r].tableNo = table.tableNo]
                /\ UNCHANGED doomed
  /\ Unwritten

Begin(r) ==
  /\ req[r].pc = "begin"
  /\ req' = [req EXCEPT ![r].pc = "body", ![r].snap = Db]
  /\ UNCHANGED doomed /\ Unwritten

-----------------------------------------------------------------------------
(* The transactions: what each reads, locks and writes, and its checks on  *)
(* its snapshot.                                                           *)

Reads(r) ==
  CASE req[r].op = "guest" -> {req[r].session, "table", "policy", "orders"}
    [] req[r].op = "waiter" -> {req[r].session, "table"}
    [] req[r].op = "call" -> {req[r].session, "table", "policy", "calls"}
    [] req[r].op = "open" -> {"table"}
    [] req[r].op = "rotate" -> {req[r].session, "table"}
    [] req[r].op = "close" -> {req[r].session, "orders", "calls"}
    [] req[r].op = "renumber" -> Session \cup {"table"}
    [] req[r].op = "delete" -> Session \cup {"table", "orders"}

\* FOR UPDATE of the session in every submission and call, FOR SHARE of the
\* policy in a guest's.  Variation: the policy is read without a lock.
SessionLockOnly(r) ==
  IF req[r].op \in Submission \cup {"call"} THEN {req[r].session} ELSE {}
Locks(r) ==
  CASE req[r].op = "guest" -> {req[r].session, "policy"}
    [] req[r].op \in {"waiter", "call"} -> {req[r].session}
    [] OTHER -> {}

Inserts(r) ==
  CASE req[r].op \in Submission -> {"orders"}
    [] req[r].op = "call" -> {"calls"}
    [] OTHER -> {}
Updates(r) ==
  CASE req[r].op \in {"open", "rotate", "close"} -> {req[r].session}
    [] req[r].op \in {"renumber", "delete"} -> {"table"}
    [] OTHER -> {}
Writes(r) == Inserts(r) \cup Updates(r) \cup IF req[r].op = "close" THEN {"calls"} ELSE {}

\* The checks of each transaction body, on its snapshot db.
MaySubmitQr(r, db) == /\ resolveQrAccess(db, req[r].session, req[r].token)
                      /\ db.table.tableNo = req[r].tableNo
                      /\ db.mode = "ORDERING"
MaySubmitStaff(r, db) == /\ SessionUsable(db, req[r].session)
                         /\ db.table.tableNo = req[r].tableNo
MayCall(r, db) == /\ resolveQrAccess(db, req[r].session, req[r].token)
                  /\ db.mode # "DISABLED"
MayOpen(db) == db.table.status = "use"
MayRotate(r, db) == resolveQrAccess(db, req[r].session, req[r].token)
MayClose(r, db) == /\ db.sessions[req[r].session].status = "OPEN"
                   /\ ~\E o \in db.orders : o.session = req[r].session /\ o.live
                   /\ db.sessions[req[r].session].token = req[r].token
NoneOpen(db) == \A s \in Session : db.sessions[s].status # "OPEN"
MayRenumber(r, db) == /\ db.table.status = "use"
                      /\ db.table.tableNo # req[r].tableNo => NoneOpen(db)
MayDelete(db) == /\ db.table.status = "use" /\ NoneOpen(db)
                 /\ ~\E o \in db.orders : o.tableNo = db.table.tableNo /\ o.live

Permitted(r) ==
  LET db == req[r].snap IN
  \/ req[r].op = "guest" /\ MaySubmitQr(r, db)
  \/ req[r].op = "waiter" /\ MaySubmitStaff(r, db)
  \/ req[r].op = "call" /\ MayCall(r, db)
  \/ req[r].op = "open" /\ MayOpen(db)
  \/ req[r].op = "rotate" /\ MayRotate(r, db)
  \/ req[r].op = "close" /\ MayClose(r, db)
  \/ req[r].op = "renumber" /\ MayRenumber(r, db)
  \/ req[r].op = "delete" /\ MayDelete(db)

\* The order exists already, or the session has an active call: nothing is written.
Replayed(r) ==
  \/ req[r].op \in Submission /\ getExistingOrder(r, req[r].snap)
  \/ /\ req[r].op = "call" /\ MayCall(r, req[r].snap)
     /\ req[r].snap.sessions[req[r].session].call = "ACTIVE"

Reply(r) ==
  /\ req[r].pc = "body"
  /\ \/ Replayed(r) /\ Answer(r, "success")
     \/ ~Replayed(r) /\ ~Permitted(r) /\ Answer(r, "refused")
  /\ Unwritten

Accepted(r) == req[r].pc = "body" /\ ~Replayed(r) /\ Permitted(r)

RepeatableRead == "RepeatableRead"            \* Variation: snapshots alone
isolationLevel == "Serializable"

RowChanged(r, wrote) == wrote \cap (Locks(r) \cup Updates(r)) # {}
WriteSkew(r, read, wrote) == /\ isolationLevel = "Serializable"
                             /\ wrote \cap Reads(r) # {} /\ read \cap Writes(r) # {}

\* The transactions under way that cannot follow one that reads and writes this.
Clash(read, wrote) ==
  {q \in Request : /\ req[q].pc = "body"
                   /\ RowChanged(q, wrote) \/ WriteSkew(q, read, wrote)}

\* Unique indexes: one table per number, deleted tables included, one OPEN session
\* per table, one order per scope and key, one active call per session.
NumberTaken(r) == req[r].op = "renumber" /\ req[r].tableNo \in others
OpenTaken(r) == req[r].op = "open" /\ \E s \in Session : sessions[s].status = "OPEN"
KeyTaken(r) == req[r].op \in Submission /\ getExistingOrder(r, Db)
CallTaken(r) == req[r].op = "call" /\ sessions[req[r].session].call = "ACTIVE"

Conflict(r) ==
  /\ Accepted(r) /\ r \in doomed
  /\ req' = [req EXCEPT ![r].pc = "P2034", ![r].snap = None]
  /\ doomed' = doomed \ {r} /\ Unwritten

Duplicate(r) ==
  /\ Accepted(r)
  /\ \/ (OpenTaken(r) \/ NumberTaken(r)) /\ Answer(r, "conflict")
     \/ (KeyTaken(r) \/ CallTaken(r)) /\ Answer(r, "success")
  /\ Unwritten

CallKept(call) == call             \* Variation: the session alone is closed
CallAfterClose(call) == IF call = "ACTIVE" THEN "RESOLVED" ELSE call

\* What each transaction writes.
createOrder(r) ==
  /\ orders' = orders \cup
       {[by |-> req[r].op, key |-> req[r].key, session |-> req[r].session,
         tableNo |-> req[r].tableNo, live |-> TRUE]}
  /\ UNCHANGED <<table, sessions>>
WriteSession(s, row) == sessions' = [sessions EXCEPT ![s] = row] /\ UNCHANGED <<table, orders>>
WriteTable(row) == table' = row /\ UNCHANGED <<sessions, orders>>

createCall(s) == WriteSession(s, [sessions[s] EXCEPT !.call = "ACTIVE"])
openSession(s) ==
  /\ sessions[s].status = "NONE"
  /\ WriteSession(s, [status |-> "OPEN", token |-> 1, call |-> "NONE"])
rotateToken(s) == WriteSession(s, [sessions[s] EXCEPT !.token = @ + 1])
closeSession(s) ==
  WriteSession(s, [status |-> "CLOSED", token |-> sessions[s].token + 1,
                   call |-> CallAfterClose(sessions[s].call)])
updateTable(n) == WriteTable([table EXCEPT !.tableNo = n])
deleteTable == WriteTable([table EXCEPT !.status = "delete"])

Effect(r) ==
  \/ req[r].op \in Submission /\ createOrder(r)
  \/ req[r].op = "call" /\ createCall(req[r].session)
  \/ req[r].op = "open" /\ openSession(req[r].session)
  \/ req[r].op = "rotate" /\ rotateToken(req[r].session)
  \/ req[r].op = "close" /\ closeSession(req[r].session)
  \/ req[r].op = "renumber" /\ updateTable(req[r].tableNo)
  \/ req[r].op = "delete" /\ deleteTable

Commit(r) ==
  /\ Accepted(r)
  /\ r \notin doomed
  /\ ~(NumberTaken(r) \/ OpenTaken(r) \/ KeyTaken(r) \/ CallTaken(r))
  /\ Effect(r)
  /\ req' = [req EXCEPT ![r] = Done("success")]
  /\ doomed' = (doomed \cup Clash(Reads(r), Writes(r))) \ {r}
  /\ UNCHANGED <<mode, others>>

\* Submissions and calls are tried again, the table service answers 409.
OnceMore(r) == req[r].op \notin Admin /\ req[r].attempt <= MaxRetry   \* Variation
MayRetry(r) == req[r].op \notin Admin /\ req[r].attempt < MaxRetry

OnConflict(r) ==
  /\ req[r].pc = "P2034"
  /\ \/ /\ MayRetry(r)
        /\ req' = [req EXCEPT ![r].pc = "begin", ![r].attempt = @ + 1]
        /\ UNCHANGED doomed
     \/ ~MayRetry(r) /\ Answer(r, "conflict")
  /\ Unwritten

-----------------------------------------------------------------------------
(* Writes of a single statement or row.                                    *)

\* An upsert of its own, outside every Serializable transaction.
setQrMode(m) ==
  /\ mode' = m
  /\ doomed' = doomed \cup Clash({}, {"policy"})
  /\ UNCHANGED <<table, others, sessions, orders, req>>

\* A number that belongs to any table, deleted or not, is refused by the index.
createTable(n) ==
  /\ n \notin others \cup {table.tableNo}
  /\ others' = others \cup {n}
  /\ UNCHANGED <<table, sessions, mode, orders, req, doomed>>

\* Staff complete, cancel or reject an order.
FinishOrder(o) ==
  /\ o \in orders /\ o.live
  /\ orders' = (orders \ {o}) \cup {[o EXCEPT !.live = FALSE]}
  /\ doomed' = doomed \cup Clash({}, {"orders"})
  /\ UNCHANGED <<table, others, sessions, mode, req>>

ResolveCall(s) ==
  /\ sessions[s].status = "OPEN" /\ sessions[s].call = "ACTIVE"
  /\ sessions' = [sessions EXCEPT ![s].call = "RESOLVED"]
  /\ doomed' = doomed \cup Clash({s}, {"calls"})
  /\ UNCHANGED <<table, others, mode, orders, req>>

Init ==
  /\ table \in [status : {"use"}, tableNo : Number]
  /\ others = {}
  /\ \E open \in SUBSET Session :
        /\ \A s, t \in open : s = t
        /\ sessions = [s \in Session |->
                         [status |-> IF s \in open THEN "OPEN" ELSE "NONE",
                          token |-> IF s \in open THEN 1 ELSE 0, call |-> "NONE"]]
  /\ mode \in Mode
  /\ orders = {}
  /\ req = [r \in Request |-> Idle]
  /\ doomed = {}

Call(r) ==
  \/ \E s \in Session, token \in 1..MaxToken, k \in Key : PublicSubmit(r, s, token, k)
  \/ \E s \in Session, k \in Key : WaiterSubmit(r, s, k)
  \/ \E s \in Session, token \in 1..MaxToken : CallService(r, s, token)
  \/ \E op \in Admin, s \in Session \cup {None}, v \in 0..MaxToken,
         n \in Number \cup {None} : Manage(r, op, s, v, n)

Handle(r) ==
  \/ Check(r) \/ Begin(r) \/ Reply(r) \/ Duplicate(r) \/ Conflict(r) \/ Commit(r)
  \/ OnConflict(r)

Next ==
  \/ \E r \in Request : Call(r) \/ Handle(r)
  \/ \E m \in Mode : setQrMode(m)
  \/ \E n \in Number : createTable(n)
  \/ \E o \in orders : FinishOrder(o)
  \/ \E s \in Session : ResolveCall(s)

Spec == Init /\ [][Next]_vars

-----------------------------------------------------------------------------
\* Rows, snapshots and handler states keep their types; retries are bounded.
TypeOK ==
  /\ table \in RestaurantTable /\ others \subseteq Number
  /\ sessions \in [Session -> SessionRow]
  /\ mode \in Mode
  /\ orders \subseteq OrderRow
  /\ req \in [Request -> HandlerState]
  /\ doomed \subseteq Request

\* Access is judged as of the commit: an order enters only while its session is
\* open at a table in use, and a guest's only with the token that is current at
\* that moment and while ordering is on.  What an admin has revoked, rotated or
\* switched off cannot be used by a request that was checked before.
OrdersEnterWithAccess ==
  [][\A o \in orders' : (\A p \in orders : <<p.by, p.key, p.session>> # <<o.by, o.key, o.session>>) =>
        /\ SessionUsable(Db, o.session) /\ o.tableNo = table.tableNo
        /\ o.by = "guest" =>
              /\ mode = "ORDERING"
              /\ \E r \in Request : /\ req[r].op = "guest" /\ req[r].pc = "body"
                                    /\ req'[r].answer = "success"
                                    /\ resolveQrAccess(Db, o.session, req[r].token)]_vars

\* A table has at most one open session and only while it is in use and its number
\* is its own, and the orders of that session carry that number: nobody deletes or
\* renumbers a table under guests who are just being seated.
OpenSessionHasTable ==
  \A s \in Session : sessions[s].status = "OPEN" =>
     /\ table.status = "use" /\ table.tableNo \notin others
     /\ \A t \in Session : sessions[t].status = "OPEN" => t = s
     /\ \A o \in orders : o.session = s => o.tableNo = table.tableNo

\* However a submission or a call overlaps with the closing of its session, no live
\* order and no active call stays behind in a closed one.
NothingLeftBehind ==
  \A s \in Session : sessions[s].status = "CLOSED" =>
     /\ sessions[s].call # "ACTIVE"
     /\ ~\E o \in orders : o.session = s /\ o.live
=============================================================================
