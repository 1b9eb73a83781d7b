--------------------------- MODULE TableAccessProofs ---------------------------
(***************************************************************************)
(* Proofs about TableAccess, for any number of requests, keys and sessions.*)
(* Every handler decides on the snapshot of its transaction, and what it   *)
(* decided may be out of date when it commits.  The argument is what its   *)
(* locks and the serialization check leave true of a snapshot until then   *)
(* (SnapshotHolds): nobody else has touched the session that it locks or   *)
(* writes, no session was opened under a renumbering or a deletion, and no *)
(* order entered a session that is being closed.  The table itself is not  *)
(* locked by a submission: it cannot change while a session is open, and   *)
(* that is part of the invariant.                                          *)
(***************************************************************************)
EXTENDS TableAccess, TLAPS

InSession == Submission \cup {"call", "rotate", "close"}

WellFormed(r) ==
  req[r].pc \in {"check", "begin", "body", "P2034"} =>
    /\ req[r].op \in Submission \cup Admin \cup {"call"}
    /\ req[r].op \in InSession \cup {"open"} => req[r].session \in Session
    /\ req[r].op \in {"rotate", "close"} => req[r].token \in 0..MaxToken
    /\ req[r].op = "renumber" => req[r].tableNo \in Number
    /\ req[r].op \in Submission => req[r].key \in Key
    /\ req[r].op \in Submission /\ req[r].pc # "check" => req[r].tableNo \in Number
    /\ req[r].pc = "check" => req[r].op \in Submission \cup {"call"}
    /\ req[r].pc = "body" => req[r].snap \in Snapshot

SameSession(s, row) == sessions[s].status = row.status /\ sessions[s].token = row.token
LiveIn(O, s) == {o \in O : o.session = s /\ o.live}

\* What is still so of the snapshot db of handler r.
Holds(r, db) ==
  /\ req[r].op \in InSession => SameSession(req[r].session, db.sessions[req[r].session])
  /\ req[r].op = "guest" => db.mode = mode
  /\ /\ req[r].op \in Submission \cup {"call", "rotate"}
     /\ db.sessions[req[r].session].status = "OPEN"
     => db.table = table
  /\ req[r].op \in {"open", "renumber", "delete"} => db.table = table
  /\ req[r].op \in {"renumber", "delete"} /\ NoneOpen(db) => NoneOpen(Db)
  /\ req[r].op = "close" /\ LiveIn(db.orders, req[r].session) = {}
     => LiveIn(orders, req[r].session) = {}

SnapshotHolds(r) == req[r].pc = "body" /\ r \notin doomed => Holds(r, req[r].snap)

HandlerOK(r) == WellFormed(r) /\ SnapshotHolds(r)

NumberIsOwn == table.tableNo \notin others
OrdersWereSeated == \A o \in orders : sessions[o.session].status # "NONE"

Seated == OpenSessionHasTable /\ NothingLeftBehind /\ NumberIsOwn /\ OrdersWereSeated
IInv == TypeOK /\ Seated /\ \A r \in Request : HandlerOK(r)

-----------------------------------------------------------------------------
(* The initial state.                                                      *)

LEMMA DoneIsState ==
  ASSUME NEW a \in {"success", "refused", "conflict"}
  PROVE  /\ Done(a) \in HandlerState /\ Done(a).pc = "done" /\ Idle \in HandlerState
         /\ Done(a).answer = a /\ Idle.pc = "idle"
<1>1. 0 \in 0..MaxRetry
  BY AccessAssumption
<1> QED
  BY <1>1 DEF Done, Idle, HandlerState

LEMMA InitInv == Init => IInv
<1> SUFFICES ASSUME Init PROVE IInv
  OBVIOUS
<1>1. PICK open \in SUBSET Session :
         /\ \A s, t \in open : s = t
         /\ sessions = [s \in Session |->
                          [status |-> IF s \in open THEN "OPEN" ELSE "NONE",
                           token |-> IF s \in open THEN 1 ELSE 0, call |-> "NONE"]]
  BY DEF Init
<1>2. sessions \in [Session -> SessionRow]
  BY <1>1, AccessAssumption DEF SessionRow
<1>3. \A s \in Session : sessions[s].status \in {"OPEN", "NONE"} /\ sessions[s].call = "NONE"
                        /\ (sessions[s].status = "OPEN" => s \in open)
  BY <1>1
<1>4. table \in RestaurantTable /\ table.status = "use"
  BY DEF Init, RestaurantTable
<1>5. others = {} /\ orders = {} /\ mode \in Mode /\ doomed = {} /\ req = [r \in Request |-> Idle]
  BY DEF Init
<1>6. TypeOK
  BY <1>2, <1>4, <1>5, DoneIsState DEF TypeOK
<1>7. Seated
  BY <1>1, <1>3, <1>4, <1>5 DEF Seated, OpenSessionHasTable, NothingLeftBehind, NumberIsOwn,
                                OrdersWereSeated
<1>8. \A r \in Request : HandlerOK(r)
  BY <1>5, DoneIsState DEF HandlerOK, WellFormed, SnapshotHolds
<1> QED
  BY <1>6, <1>7, <1>8 DEF IInv

-----------------------------------------------------------------------------
(* Steps that leave the database alone.                                    *)

LEMMA UnwrittenSeated ==
  ASSUME Seated, Unwritten
  PROVE  Seated'
BY DEF Seated, Unwritten, OpenSessionHasTable, NothingLeftBehind, NumberIsOwn, OrdersWereSeated

LEMMA QuietStep ==
  ASSUME IInv, Unwritten, NEW r \in Request, NEW h \in HandlerState,
         req' = [req EXCEPT ![r] = h], doomed' = doomed \/ doomed' = doomed \ {r},
         WellFormed(r)', SnapshotHolds(r)'
  PROVE  IInv'
<1>1. TypeOK' /\ Seated'
  BY UnwrittenSeated DEF IInv, TypeOK, Unwritten
<1>2. ASSUME NEW q \in Request PROVE HandlerOK(q)'
  <2>1. CASE q = r
    BY <2>1 DEF HandlerOK
  <2>2. CASE q # r
    <3>1. req'[q] = req[q] /\ (q \in doomed' <=> q \in doomed) /\ HandlerOK(q)
      BY <2>2 DEF IInv, TypeOK
    <3>2. WellFormed(q)'
      BY <3>1 DEF HandlerOK, WellFormed
    <3>3. SnapshotHolds(q)'
      BY <3>1, SMTT(20) DEF HandlerOK, SnapshotHolds, Holds, Unwritten, SameSession, LiveIn, NoneOpen, Db
    <3> QED
      BY <3>2, <3>3 DEF HandlerOK
  <2> QED
    BY <2>1, <2>2
<1> QED
  BY <1>1, <1>2 DEF IInv

LEMMA AnswerStep ==
  ASSUME IInv, Unwritten, NEW r \in Request, NEW a \in {"success", "refused", "conflict"},
         Answer(r, a)
  PROVE  IInv'
<1>1. req' = [req EXCEPT ![r] = Done(a)] /\ doomed' = doomed \ {r}
  BY DEF Answer
<1>2. req'[r].pc = "done"
  BY <1>1, DoneIsState DEF IInv, TypeOK
<1>3. WellFormed(r)' /\ SnapshotHolds(r)'
  BY <1>2 DEF WellFormed, SnapshotHolds
<1> QED
  BY <1>1, <1>3, QuietStep, DoneIsState

\* A handler outside its transaction moves to a place outside it.
LEMMA MoveStep ==
  ASSUME IInv, Unwritten, NEW r \in Request, NEW h \in HandlerState,
         req' = [req EXCEPT ![r] = h], doomed' = doomed \/ doomed' = doomed \ {r},
         h.pc # "body", WellFormed(r)'
  PROVE  IInv'
<1>1. req'[r] = h
  BY DEF IInv, TypeOK
<1>2. SnapshotHolds(r)'
  BY <1>1 DEF SnapshotHolds
<1> QED
  BY <1>2, QuietStep

LEMMA CallInv ==
  ASSUME IInv, NEW r \in Request, Call(r)
  PROVE  IInv'
<1>1. Idle \in HandlerState /\ req \in [Request -> HandlerState]
  BY DoneIsState DEF IInv, TypeOK
<1>2. \A v \in 0..MaxToken : v \in Nat
  BY AccessAssumption
<1>2a. \A v \in 1..MaxToken : v \in Nat
  BY AccessAssumption
<1>3. ASSUME NEW s \in Session, NEW token \in 1..MaxToken, NEW k \in Key, PublicSubmit(r, s, token, k)
      PROVE  IInv'
  <2> DEFINE h == [Idle EXCEPT !.pc = "check", !.op = "guest", !.session = s,
                               !.token = token, !.key = k]
  <2>1. h \in HandlerState
    BY <1>1, <1>2a, <1>3 DEF HandlerState, Submission
  <2>2. /\ req' = [req EXCEPT ![r] = h] /\ doomed' = doomed /\ Unwritten
    BY <1>3 DEF PublicSubmit, Arrive
  <2>3. h.pc = "check" /\ h.op = "guest" /\ h.session = s /\ h.key = k
    BY DEF Idle
  <2> HIDE DEF h
  <2>4. WellFormed(r)'
    BY <1>1, <1>3, <2>2, <2>3 DEF WellFormed, Submission, InSession
  <2> QED
    BY <2>1, <2>2, <2>3, <2>4, MoveStep
<1>4. ASSUME NEW s \in Session, NEW k \in Key, WaiterSubmit(r, s, k)
      PROVE  IInv'
  <2> DEFINE h == [Idle EXCEPT !.pc = "check", !.op = "waiter", !.session = s, !.key = k]
  <2>1. h \in HandlerState
    BY <1>1, <1>4 DEF HandlerState, Submission
  <2>2. /\ req' = [req EXCEPT ![r] = h] /\ doomed' = doomed /\ Unwritten
    BY <1>4 DEF WaiterSubmit, Arrive
  <2>3. h.pc = "check" /\ h.op = "waiter" /\ h.session = s /\ h.key = k
    BY DEF Idle
  <2> HIDE DEF h
  <2>4. WellFormed(r)'
    BY <1>1, <1>4, <2>2, <2>3 DEF WellFormed, Submission, InSession
  <2> QED
    BY <2>1, <2>2, <2>3, <2>4, MoveStep
<1>5. ASSUME NEW s \in Session, NEW token \in 1..MaxToken, CallService(r, s, token)
      PROVE  IInv'
  <2> DEFINE h == [Idle EXCEPT !.pc = "check", !.op = "call", !.session = s, !.token = token]
  <2>1. h \in HandlerState
    BY <1>1, <1>2a, <1>5 DEF HandlerState
  <2>2. /\ req' = [req EXCEPT ![r] = h] /\ doomed' = doomed /\ Unwritten
    BY <1>5 DEF CallService, Arrive
  <2>3. h.pc = "check" /\ h.op = "call" /\ h.session = s
    BY DEF Idle
  <2> HIDE DEF h
  <2>4. WellFormed(r)'
    BY <1>1, <1>5, <2>2, <2>3 DEF WellFormed, Submission, InSession
  <2> QED
    BY <2>1, <2>2, <2>3, <2>4, MoveStep
<1>6. ASSUME NEW op \in Admin, NEW s \in Session \cup {None}, NEW v \in 0..MaxToken,
             NEW n \in Number \cup {None}, Manage(r, op, s, v, n)
      PROVE  IInv'
  <2> DEFINE h == [Idle EXCEPT !.pc = "begin", !.op = op, !.session = s, !.token = v,
                               !.tableNo = n]
  <2>1. h \in HandlerState
    BY <1>1, <1>2, <1>6 DEF HandlerState
  <2>2. /\ req' = [req EXCEPT ![r] = h] /\ doomed' = doomed /\ Unwritten
        /\ op \in {"open", "rotate", "close"} => s # None
        /\ op = "renumber" => n # None
    BY <1>6 DEF Manage, Arrive
  <2>3. h.pc = "begin" /\ h.op = op /\ h.session = s /\ h.token = v /\ h.tableNo = n
    BY DEF Idle
  <2> HIDE DEF h
  <2>4. WellFormed(r)'
    BY <1>1, <1>6, <2>2, <2>3 DEF WellFormed, Submission, InSession, Admin
  <2> QED
    BY <2>1, <2>2, <2>3, <2>4, MoveStep
<1> QED
  BY <1>3, <1>4, <1>5, <1>6 DEF Call

LEMMA CheckInv ==
  ASSUME IInv, NEW r \in Request, Check(r)
  PROVE  IInv'
<1>1. /\ req[r].pc = "check" /\ Unwritten /\ req \in [Request -> HandlerState]
      /\ WellFormed(r) /\ table.tableNo \in Number
  BY DEF Check, IInv, TypeOK, HandlerOK, RestaurantTable
<1>2. CASE Answer(r, "refused") \/ Answer(r, "success")
  BY <1>1, <1>2, AnswerStep
<1>3. CASE req' = [req EXCEPT ![r].pc = "begin", ![r].tableNo = table.tableNo] /\ doomed' = doomed
  <2> DEFINE h == [req[r] EXCEPT !.pc = "begin", !.tableNo = table.tableNo]
  <2>1. h \in HandlerState
    BY <1>1, ZenonT(40) DEF HandlerState
  <2>2. req' = [req EXCEPT ![r] = h]
    BY <1>1, <1>3
  <2>3. /\ h.pc = "begin" /\ h.op = req[r].op /\ h.session = req[r].session
        /\ h.token = req[r].token /\ h.key = req[r].key /\ h.tableNo = table.tableNo
    BY <1>1 DEF HandlerState
  <2> HIDE DEF h
  <2>4. WellFormed(r)'
    BY <1>1, <2>2, <2>3 DEF WellFormed
  <2> QED
    BY <1>1, <1>3, <2>1, <2>2, <2>3, <2>4, MoveStep
<1> QED
  BY <1>2, <1>3 DEF Check

LEMMA BeginInv ==
  ASSUME IInv, NEW r \in Request, Begin(r)
  PROVE  IInv'
<1>1. /\ req[r].pc = "begin" /\ Unwritten /\ req \in [Request -> HandlerState]
      /\ WellFormed(r) /\ doomed' = doomed
  BY DEF Begin, IInv, TypeOK, HandlerOK
<1> DEFINE h == [req[r] EXCEPT !.pc = "body", !.snap = Db]
<1>2. Db \in Snapshot
  BY DEF IInv, TypeOK, Db, Snapshot
<1>3. h \in HandlerState
  BY <1>1, <1>2, ZenonT(40) DEF HandlerState
<1>4. req' = [req EXCEPT ![r] = h]
  BY <1>1 DEF Begin
<1>5. /\ h.pc = "body" /\ h.op = req[r].op /\ h.session = req[r].session /\ h.snap = Db
      /\ h.token = req[r].token /\ h.key = req[r].key /\ h.tableNo = req[r].tableNo
  BY <1>1 DEF HandlerState
<1> HIDE DEF h
<1>6. WellFormed(r)'
  BY <1>1, <1>2, <1>4, <1>5 DEF WellFormed
<1>7. SnapshotHolds(r)'
  <2>1. Db' = Db /\ req'[r] = h
    BY <1>1, <1>4 DEF Db, Unwritten
  <2> QED
    BY <1>1, <1>5, <2>1 DEF SnapshotHolds, Holds, Unwritten, SameSession, LiveIn, NoneOpen, Db
<1> QED
  BY <1>1, <1>3, <1>4, <1>6, <1>7, QuietStep

LEMMA ReplyInv ==
  ASSUME IInv, NEW r \in Request, Reply(r) \/ Duplicate(r)
  PROVE  IInv'
BY AnswerStep DEF Reply, Duplicate

LEMMA ConflictInv ==
  ASSUME IInv, NEW r \in Request, Conflict(r) \/ OnConflict(r)
  PROVE  IInv'
<1>1. /\ req[r].pc \in {"body", "P2034"} /\ Unwritten /\ req \in [Request -> HandlerState]
      /\ req[r] \in HandlerState /\ WellFormed(r)
  BY DEF Conflict, OnConflict, Accepted, IInv, TypeOK, HandlerOK
<1>2. CASE Answer(r, "conflict")
  BY <1>1, <1>2, AnswerStep
<1>3. ASSUME NEW h \in HandlerState, req' = [req EXCEPT ![r] = h],
             doomed' = doomed \/ doomed' = doomed \ {r},
             h.pc \in {"begin", "P2034"}, h.op = req[r].op, h.session = req[r].session,
             h.token = req[r].token, h.key = req[r].key, h.tableNo = req[r].tableNo
      PROVE  IInv'
  <2>1. WellFormed(r)'
    BY <1>1, <1>3 DEF WellFormed
  <2> QED
    BY <1>1, <1>3, <2>1, MoveStep
<1>4. CASE Conflict(r)
  <2> DEFINE h == [req[r] EXCEPT !.pc = "P2034", !.snap = None]
  <2>1. h \in HandlerState /\ h.pc = "P2034" /\ h.op = req[r].op /\ h.session = req[r].session
        /\ h.token = req[r].token /\ h.key = req[r].key /\ h.tableNo = req[r].tableNo
    BY <1>1 DEF HandlerState
  <2>2. req' = [req EXCEPT ![r] = h] /\ doomed' = doomed \ {r}
    BY <1>1, <1>4 DEF Conflict
  <2> HIDE DEF h
  <2> QED
    BY <1>3, <2>1, <2>2
<1>5. CASE MayRetry(r) /\ req' = [req EXCEPT ![r].pc = "begin", ![r].attempt = @ + 1]
           /\ doomed' = doomed
  <2> DEFINE h == [req[r] EXCEPT !.pc = "begin", !.attempt = req[r].attempt + 1]
  <2>1. req[r].attempt + 1 \in 0..MaxRetry
    BY <1>1, <1>5, AccessAssumption DEF HandlerState, MayRetry
  <2>2. h \in HandlerState /\ h.pc = "begin" /\ h.op = req[r].op /\ h.session = req[r].session
        /\ h.token = req[r].token /\ h.key = req[r].key /\ h.tableNo = req[r].tableNo
    BY <1>1, <2>1 DEF HandlerState
  <2>3. req' = [req EXCEPT ![r] = h]
    BY <1>1, <1>5
  <2> HIDE DEF h
  <2> QED
    BY <1>3, <1>5, <2>2, <2>3
<1> QED
  BY <1>2, <1>4, <1>5 DEF OnConflict

-----------------------------------------------------------------------------
(* Steps that write: what they leave of what the others have seen.         *)

Spares(q) ==
  /\ req[q].op \in InSession => SameSession(req[q].session, sessions'[req[q].session])
  /\ req[q].op = "guest" => mode' = mode
  /\ req[q].op \in Submission \cup {"call", "rotate"} => table' = table \/ NoneOpen(Db)
  /\ req[q].op \in {"open", "renumber", "delete"} => table' = table
  /\ req[q].op \in {"renumber", "delete"} /\ NoneOpen(Db) => NoneOpen(Db)'
  /\ req[q].op = "close" => LiveIn(orders', req[q].session) \subseteq LiveIn(orders, req[q].session)

LEMMA SparedHolds ==
  ASSUME IInv, NEW q \in Request, req'[q] = req[q], q \in doomed => q \in doomed',
         req[q].pc = "body" /\ q \notin doomed' => Spares(q)
  PROVE  HandlerOK(q)'
<1>1. HandlerOK(q)
  BY DEF IInv
<1>2. WellFormed(q)'
  BY <1>1 DEF HandlerOK, WellFormed
<1>3. ASSUME req[q].pc = "body", q \notin doomed'
      PROVE  Holds(q, req[q].snap)'
  <2> DEFINE db == req[q].snap
  <2>1. Holds(q, db) /\ Spares(q) /\ WellFormed(q)
    BY <1>1, <1>3 DEF HandlerOK, SnapshotHolds
  <2>2. req[q].op \in InSession =>
           db.sessions[req[q].session].status = sessions'[req[q].session].status
           /\ db.sessions[req[q].session].token = sessions'[req[q].session].token
    BY <2>1 DEF Holds, Spares, SameSession
  <2>3. req[q].op = "guest" => db.mode = mode'
    BY <2>1 DEF Holds, Spares
  <2>4. ASSUME req[q].op \in Submission \cup {"call", "rotate"},
               db.sessions[req[q].session].status = "OPEN"
        PROVE  db.table = table'
    <3>1. db.table = table
      BY <2>1, <2>4 DEF Holds
    <3>2. sessions[req[q].session].status = "OPEN" /\ req[q].session \in Session
      BY <1>3, <2>1, <2>4 DEF Holds, SameSession, InSession, WellFormed
    <3>3. ~NoneOpen(Db)
      BY <3>2 DEF NoneOpen, Db
    <3> QED
      BY <2>1, <2>4, <3>1, <3>3 DEF Spares
  <2>5. req[q].op \in {"open", "renumber", "delete"} => db.table = table'
    BY <2>1 DEF Holds, Spares
  <2>6. req[q].op \in {"renumber", "delete"} /\ NoneOpen(db) => NoneOpen(Db)'
    BY <2>1 DEF Holds, Spares
  <2>7. req[q].op = "close" /\ LiveIn(db.orders, req[q].session) = {}
        => LiveIn(orders', req[q].session) = {}
    BY <2>1 DEF Holds, Spares
  <2> HIDE DEF db
  <2>8. NoneOpen(db)' <=> NoneOpen(db)
    BY DEF NoneOpen, db
  <2> QED
    BY <2>2, <2>3, <2>4, <2>5, <2>6, <2>7 DEF Holds, SameSession, LiveIn, NoneOpen, db
<1>4. SnapshotHolds(q)'
  BY <1>3 DEF SnapshotHolds
<1> QED
  BY <1>2, <1>4 DEF HandlerOK

\* The sets of rows that the transactions name.
LEMMA ReadFacts ==
  ASSUME NEW r \in Request
  PROVE  /\ req[r].op \in InSession => req[r].session \in Reads(r)
         /\ req[r].op \in {"open", "renumber", "delete"} => "table" \in Reads(r)
         /\ req[r].op \in {"renumber", "delete"} => Session \subseteq Reads(r)
         /\ req[r].op = "close" => "orders" \in Reads(r)
BY DEF Reads, InSession, Submission

LEMMA LockFacts ==
  ASSUME NEW r \in Request
  PROVE  /\ req[r].op \in Submission \cup {"call"} => req[r].session \in Locks(r)
         /\ req[r].op = "guest" => "policy" \in Locks(r)
BY DEF Locks, Submission

LEMMA WriteFacts ==
  ASSUME NEW r \in Request
  PROVE  /\ req[r].op \in Submission => "orders" \in Writes(r)
         /\ req[r].op \in {"open", "rotate", "close"} =>
               req[r].session \in Updates(r) /\ req[r].session \in Writes(r)
         /\ req[r].op \in {"renumber", "delete"} =>
               "table" \in Updates(r) /\ "table" \in Writes(r)
BY DEF Writes, Inserts, Updates, Submission

\* What a handler may rely on at its commit.
LEMMA CommitSees ==
  ASSUME IInv, NEW r \in Request, Commit(r)
  PROVE  /\ WellFormed(r) /\ req[r].pc = "body" /\ Permitted(r) /\ Holds(r, req[r].snap)
         /\ req[r].op \in Submission \cup Admin \cup {"call"}
         /\ req[r].op \in InSession =>
               sessions[req[r].session].status = "OPEN" /\ req[r].session \in Session
         /\ req[r].op \in {"guest", "call", "rotate", "close"} =>
               sessions[req[r].session].token = req[r].token
         /\ req[r].op \in Submission => table.tableNo = req[r].tableNo
         /\ req[r].op = "guest" => mode = "ORDERING"
         /\ req[r].op = "close" => LiveIn(orders, req[r].session) = {}
         /\ req[r].op = "open" => table.status = "use"
         /\ req[r].op = "renumber" /\ table.tableNo # req[r].tableNo => NoneOpen(Db)
         /\ req[r].op = "delete" => NoneOpen(Db)
<1> DEFINE db == req[r].snap
<1>1. /\ WellFormed(r) /\ req[r].pc = "body" /\ Permitted(r) /\ Holds(r, db)
      /\ req[r].op \in Submission \cup Admin \cup {"call"}
      /\ req[r].op \in InSession => req[r].session \in Session
  BY DEF IInv, HandlerOK, SnapshotHolds, Commit, Accepted, WellFormed
<1>2. CASE req[r].op = "guest"
  BY <1>1, <1>2 DEF Permitted, MaySubmitQr, resolveQrAccess, SessionUsable, Holds, SameSession,
                    InSession, Submission, Admin
<1>3. CASE req[r].op = "waiter"
  BY <1>1, <1>3 DEF Permitted, MaySubmitStaff, SessionUsable, Holds, SameSession,
                    InSession, Submission, Admin
<1>4. CASE req[r].op \in {"call", "rotate"}
  BY <1>1, <1>4 DEF Permitted, MayCall, MayRotate, resolveQrAccess, SessionUsable, Holds,
                    SameSession, InSession, Submission, Admin
<1>5. CASE req[r].op = "close"
  <2>1. MayClose(r, db)
    BY <1>1, <1>5 DEF Permitted, Submission
  <2>2. LiveIn(db.orders, req[r].session) = {}
    BY <2>1 DEF MayClose, LiveIn
  <2> QED
    BY <1>1, <1>5, <2>1, <2>2 DEF MayClose, Holds, SameSession, InSession, Submission, Admin
<1>6. CASE req[r].op \in {"open", "renumber", "delete"}
  BY <1>1, <1>6 DEF Permitted, MayOpen, MayRenumber, MayDelete, Holds, InSession, Submission
<1> QED
  BY <1>1, <1>2, <1>3, <1>4, <1>5, <1>6 DEF Submission, Admin

\* A session row is written: what the others have seen of it and of openings.
LEMMA SessionSpares ==
  ASSUME IInv, NEW r \in Request, NEW q \in Request, WellFormed(q), req[q].pc = "body",
         q \notin Clash(Reads(r), Writes(r)),
         NEW s \in Session, NEW row \in SessionRow, sessions' = [sessions EXCEPT ![s] = row],
         UNCHANGED <<table, mode, orders>>,
         \/ SameSession(s, row)
         \/ s \in Writes(r) /\ row.status # "OPEN"
         \/ s \in Writes(r) /\ row.status = sessions[s].status
         \/ s \in Writes(r) /\ "table" \in Reads(r)
  PROVE  Spares(q)
<1>1. sessions' \in [Session -> SessionRow] /\ sessions'[s] = row
      /\ \A t \in Session \ {s} : sessions'[t] = sessions[t]
  BY DEF IInv, TypeOK
<1>2. ~RowChanged(q, Writes(r)) /\ ~WriteSkew(q, Reads(r), Writes(r))
  BY DEF Clash
<1>3. ASSUME req[q].op \in InSession
      PROVE  SameSession(req[q].session, sessions'[req[q].session])
  <2>1. req[q].session \in Session /\ req[q].session \in Locks(q) \cup Updates(q)
    BY <1>3, LockFacts, WriteFacts DEF WellFormed, InSession
  <2>2. CASE req[q].session = s
    BY <1>1, <1>2, <2>1, <2>2 DEF RowChanged, SameSession
  <2>3. CASE req[q].session # s
    BY <1>1, <2>1, <2>3 DEF SameSession
  <2> QED
    BY <2>2, <2>3
<1>4. ASSUME req[q].op \in {"renumber", "delete"}, NoneOpen(Db)
      PROVE  NoneOpen(Db)'
  <2>1. \A t \in Session : sessions[t].status # "OPEN"
    BY <1>4 DEF NoneOpen, Db
  <2>2. row.status # "OPEN"
    <3>1. ~(s \in Writes(r) /\ "table" \in Reads(r))
      BY <1>2, <1>4, ReadFacts, WriteFacts DEF WriteSkew, isolationLevel
    <3> QED
      BY <2>1, <3>1 DEF SameSession
  <2>3. \A t \in Session : sessions'[t].status # "OPEN"
    BY <1>1, <2>1, <2>2
  <2> QED
    BY <2>3 DEF NoneOpen, Db
<1> QED
  BY <1>3, <1>4 DEF Spares

LEMMA TableSpares ==
  ASSUME IInv, NEW r \in Request, Commit(r), req[r].op \in {"renumber", "delete"},
         NEW q \in Request, WellFormed(q), req[q].pc = "body",
         q \notin Clash(Reads(r), Writes(r)),
         UNCHANGED <<sessions, mode, orders>>,
         table' = table \/ NoneOpen(Db)
  PROVE  Spares(q)
<1>1. ~RowChanged(q, Writes(r)) /\ ~WriteSkew(q, Reads(r), Writes(r))
  BY DEF Clash
<1>2. req[q].op \notin {"renumber", "delete"}
  BY <1>1, WriteFacts DEF RowChanged
<1>3. req[q].op # "open"
  <2> SUFFICES ASSUME req[q].op = "open" PROVE FALSE
    OBVIOUS
  <2>1. "table" \in Writes(r) /\ "table" \in Reads(q)
    BY ReadFacts, WriteFacts
  <2>2. req[q].session \in Session /\ req[q].session \in Writes(q)
    BY WriteFacts DEF WellFormed
  <2>3. req[q].session \in Reads(r)
    BY <2>2, ReadFacts
  <2> QED
    BY <1>1, <2>1, <2>2, <2>3 DEF WriteSkew, isolationLevel
<1>4. SameSession(req[q].session, sessions'[req[q].session])
  BY DEF SameSession
<1> QED
  BY <1>2, <1>3, <1>4 DEF Spares

LEMMA OrderSpares ==
  ASSUME IInv, NEW r \in Request, req[r].op \in Submission,
         NEW q \in Request, WellFormed(q), req[q].pc = "body",
         q \notin Clash(Reads(r), Writes(r)),
         UNCHANGED <<sessions, mode, table>>,
         NEW o, o.session = req[r].session, orders' = orders \cup {o}
  PROVE  Spares(q)
<1>1. ~WriteSkew(q, Reads(r), Writes(r))
  BY DEF Clash
<1>2. ASSUME req[q].op = "close"
      PROVE  LiveIn(orders', req[q].session) \subseteq LiveIn(orders, req[q].session)
  <2>1. "orders" \in Writes(r) /\ "orders" \in Reads(q) /\ req[q].session \in Writes(q)
        /\ req[r].session \in Reads(r)
    BY <1>2, ReadFacts, WriteFacts DEF InSession
  <2>2. req[q].session # req[r].session
    BY <1>1, <2>1 DEF WriteSkew, isolationLevel
  <2> QED
    BY <2>2 DEF LiveIn
<1>3. NoneOpen(Db)' <=> NoneOpen(Db)
  BY DEF NoneOpen, Db
<1> QED
  BY <1>2, <1>3 DEF Spares, SameSession

-----------------------------------------------------------------------------
(* The commits.                                                            *)

\* A commit leaves the tables to the next handler as they should be.
Stored == /\ table' \in RestaurantTable /\ sessions' \in [Session -> SessionRow]
          /\ orders' \subseteq OrderRow /\ Seated'

Fits(r) == Stored /\ \A q \in Request :
             q # r /\ req[q].pc = "body" /\ q \notin Clash(Reads(r), Writes(r)) => Spares(q)

LEMMA SubmissionFits ==
  ASSUME IInv, NEW r \in Request, Commit(r), req[r].op \in Submission
  PROVE  Fits(r)
<1> DEFINE o == [by |-> req[r].op, key |-> req[r].key, session |-> req[r].session,
                 tableNo |-> req[r].tableNo, live |-> TRUE]
<1>1. /\ WellFormed(r) /\ req[r].pc = "body"
      /\ sessions[req[r].session].status = "OPEN" /\ req[r].session \in Session
      /\ table.tableNo = req[r].tableNo
  BY CommitSees DEF InSession
<1>2. o \in OrderRow
  BY <1>1 DEF OrderRow, WellFormed
<1>3. orders' = orders \cup {o} /\ UNCHANGED <<table, sessions, mode, others>>
  BY DEF Commit, Effect, createOrder, Submission
<1>4. o.session = req[r].session /\ o.tableNo = table.tableNo
  BY <1>1
<1> HIDE DEF o
<1>5. Seated'
  <2>1. OpenSessionHasTable'
    BY <1>3, <1>4 DEF IInv, Seated, OpenSessionHasTable
  <2>2. NothingLeftBehind'
    BY <1>1, <1>3, <1>4 DEF IInv, Seated, NothingLeftBehind
  <2>3. NumberIsOwn' /\ OrdersWereSeated'
    BY <1>1, <1>3, <1>4 DEF IInv, Seated, NumberIsOwn, OrdersWereSeated
  <2> QED
    BY <2>1, <2>2, <2>3 DEF Seated
<1>6. \A q \in Request : WellFormed(q)
  BY DEF IInv, HandlerOK
<1> QED
  BY <1>2, <1>3, <1>4, <1>5, <1>6, OrderSpares DEF Fits, Stored, IInv, TypeOK

\* A session row that may be written: it is open or closed in good order.
MayWrite(s, row) ==
  /\ row \in SessionRow /\ row.status # "NONE"
  /\ row.status = "OPEN" =>
        /\ table.status = "use"
        /\ \A t \in Session : sessions[t].status = "OPEN" => t = s
        /\ \A o \in orders : o.session = s => o.tableNo = table.tableNo
  /\ row.status = "CLOSED" => row.call # "ACTIVE" /\ LiveIn(orders, s) = {}

LEMMA SessionStored ==
  ASSUME IInv, NEW s \in Session, NEW row, MayWrite(s, row),
         sessions' = [sessions EXCEPT ![s] = row], UNCHANGED <<table, others, orders>>
  PROVE  Stored
<1>1. sessions' \in [Session -> SessionRow] /\ sessions'[s] = row
      /\ \A t \in Session \ {s} : sessions'[t] = sessions[t]
  BY DEF IInv, TypeOK, MayWrite
<1>2. NumberIsOwn'
  BY DEF IInv, Seated, NumberIsOwn
<1>3. OpenSessionHasTable'
  <2> SUFFICES ASSUME NEW t \in Session, sessions'[t].status = "OPEN"
               PROVE  /\ table.status = "use"
                      /\ \A u \in Session : sessions'[u].status = "OPEN" => u = t
                      /\ \A o \in orders : o.session = t => o.tableNo = table.tableNo
    BY <1>2 DEF OpenSessionHasTable, NumberIsOwn
  <2>1. CASE t = s
    BY <1>1, <2>1 DEF MayWrite
  <2>2. CASE t # s
    <3>1. sessions[t].status = "OPEN"
      BY <1>1, <2>2
    <3>2. sessions'[s].status # "OPEN"
      BY <1>1, <2>2, <3>1 DEF MayWrite
    <3> QED
      BY <1>1, <3>1, <3>2 DEF IInv, Seated, OpenSessionHasTable
  <2> QED
    BY <2>1, <2>2
<1>4. NothingLeftBehind'
  BY <1>1 DEF IInv, Seated, NothingLeftBehind, MayWrite, LiveIn
<1>5. OrdersWereSeated'
  BY <1>1 DEF IInv, Seated, OrdersWereSeated, MayWrite, TypeOK, OrderRow
<1> QED
  BY <1>1, <1>2, <1>3, <1>4, <1>5 DEF Stored, Seated, IInv, TypeOK

LEMMA SessionFits ==
  ASSUME IInv, NEW r \in Request, Commit(r), req[r].op \in {"call", "open", "rotate", "close"}
  PROVE  Fits(r)
<1> DEFINE s == req[r].session
           old == sessions[s]
<1>1. WellFormed(r) /\ req[r].pc = "body" /\ s \in Session /\ old \in SessionRow
  BY CommitSees DEF IInv, TypeOK, WellFormed, InSession
<1>2. \A q \in Request : WellFormed(q)
  BY DEF IInv, HandlerOK
<1>3. UNCHANGED <<table, mode, orders, others>>
  BY DEF Commit, Effect, createCall, openSession, rotateToken, closeSession, WriteSession,
         Submission
<1>4. old.status = "OPEN" =>
        /\ table.status = "use"
        /\ \A t \in Session : sessions[t].status = "OPEN" => t = s
        /\ \A o \in orders : o.session = s => o.tableNo = table.tableNo
  BY <1>1 DEF IInv, Seated, OpenSessionHasTable
<1>5. CASE req[r].op = "call"
  <2> DEFINE row == [old EXCEPT !.call = "ACTIVE"]
  <2>1. row \in SessionRow /\ row.status = old.status /\ row.token = old.token
    BY <1>1 DEF SessionRow
  <2>2. sessions' = [sessions EXCEPT ![s] = row]
    BY <1>5 DEF Commit, Effect, createCall, WriteSession, Submission
  <2>3. old.status = "OPEN"
    BY <1>5, CommitSees DEF InSession
  <2> HIDE DEF row
  <2>4. MayWrite(s, row) /\ SameSession(s, row)
    BY <1>4, <2>1, <2>3 DEF MayWrite, SameSession
  <2> QED
    BY <1>1, <1>2, <1>3, <2>1, <2>2, <2>4, SessionStored, SessionSpares DEF Fits
<1>6. CASE req[r].op = "open"
  <2> DEFINE row == [status |-> "OPEN", token |-> 1, call |-> "NONE"]
  <2>1. row \in SessionRow /\ row.status = "OPEN"
    BY AccessAssumption DEF SessionRow
  <2>2. sessions' = [sessions EXCEPT ![s] = row] /\ old.status = "NONE"
    BY <1>6 DEF Commit, Effect, openSession, WriteSession, Submission
  <2> HIDE DEF row
  <2>3. table.status = "use" /\ \A t \in Session : sessions[t].status # "OPEN"
    BY <1>6, CommitSees DEF Commit, OpenTaken
  <2>4. \A o \in orders : o.session # s
    BY <2>2 DEF IInv, Seated, OrdersWereSeated
  <2>5. MayWrite(s, row)
    BY <2>1, <2>3, <2>4 DEF MayWrite
  <2>6. s \in Writes(r) /\ "table" \in Reads(r)
    BY <1>6, ReadFacts, WriteFacts
  <2> QED
    BY <1>1, <1>2, <1>3, <2>1, <2>2, <2>5, <2>6, SessionStored, SessionSpares DEF Fits
<1>7. CASE req[r].op = "rotate"
  <2> DEFINE row == [old EXCEPT !.token = old.token + 1]
  <2>1. old.status = "OPEN" /\ old.token \in 0..MaxToken
    BY <1>1, <1>7, CommitSees DEF InSession, WellFormed
  <2>2. row \in SessionRow /\ row.status = "OPEN"
    BY <1>1, <2>1, AccessAssumption DEF SessionRow
  <2>3. sessions' = [sessions EXCEPT ![s] = row]
    BY <1>7 DEF Commit, Effect, rotateToken, WriteSession, Submission
  <2> HIDE DEF row
  <2>4. MayWrite(s, row) /\ s \in Writes(r)
    BY <1>4, <1>7, <2>1, <2>2, WriteFacts DEF MayWrite
  <2> QED
    BY <1>1, <1>2, <1>3, <2>1, <2>2, <2>3, <2>4, SessionStored, SessionSpares DEF Fits
<1>8. CASE req[r].op = "close"
  <2> DEFINE row == [status |-> "CLOSED", token |-> old.token + 1,
                     call |-> CallAfterClose(old.call)]
  <2>1. old.token \in 0..MaxToken /\ LiveIn(orders, s) = {}
    BY <1>1, <1>8, CommitSees DEF WellFormed
  <2>2. row \in SessionRow /\ row.status = "CLOSED" /\ row.call # "ACTIVE"
    BY <1>1, <2>1, AccessAssumption DEF SessionRow, CallAfterClose
  <2>3. sessions' = [sessions EXCEPT ![s] = row]
    BY <1>8 DEF Commit, Effect, closeSession, WriteSession, Submission
  <2> HIDE DEF row
  <2>4. MayWrite(s, row) /\ s \in Writes(r)
    BY <1>8, <2>1, <2>2, WriteFacts DEF MayWrite
  <2> QED
    BY <1>1, <1>2, <1>3, <2>2, <2>3, <2>4, SessionStored, SessionSpares DEF Fits
<1> QED
  BY <1>5, <1>6, <1>7, <1>8

LEMMA TableFits ==
  ASSUME IInv, NEW r \in Request, Commit(r), req[r].op \in {"renumber", "delete"}
  PROVE  Fits(r)
<1>1. UNCHANGED <<sessions, mode, orders, others>>
  BY DEF Commit, Effect, updateTable, deleteTable, WriteTable, Submission
<1>2. WellFormed(r) /\ req[r].pc = "body" /\ table \in RestaurantTable
  BY CommitSees DEF IInv, TypeOK
<1>3. CASE req[r].op = "renumber"
  <2>1. req[r].tableNo \in Number /\ req[r].tableNo \notin others
    BY <1>2, <1>3 DEF WellFormed, Commit, NumberTaken
  <2>2. table' = [table EXCEPT !.tableNo = req[r].tableNo]
    BY <1>3 DEF Commit, Effect, updateTable, WriteTable, Submission
  <2>3. table' \in RestaurantTable /\ table'.tableNo = req[r].tableNo /\ table'.status = table.status
    BY <1>2, <2>1, <2>2 DEF RestaurantTable
  <2>4. table' = table \/ NoneOpen(Db)
    BY <1>2, <1>3, <2>2, CommitSees DEF RestaurantTable
  <2>5. Seated'
    <3>1. CASE table' = table
      BY <1>1, <3>1 DEF IInv, Seated, OpenSessionHasTable, NothingLeftBehind, NumberIsOwn,
                        OrdersWereSeated
    <3>2. CASE NoneOpen(Db)
      BY <1>1, <2>1, <2>3, <3>2 DEF IInv, Seated, OpenSessionHasTable, NothingLeftBehind,
                                    NumberIsOwn, OrdersWereSeated, NoneOpen, Db
    <3> QED
      BY <2>4, <3>1, <3>2
  <2>6. \A q \in Request : WellFormed(q)
    BY DEF IInv, HandlerOK
  <2> QED
    BY <1>1, <1>3, <2>3, <2>4, <2>5, <2>6, TableSpares DEF Fits, Stored, IInv, TypeOK
<1>4. CASE req[r].op = "delete"
  <2>1. table' = [table EXCEPT !.status = "delete"]
    BY <1>4 DEF Commit, Effect, deleteTable, WriteTable, Submission
  <2>2. table' \in RestaurantTable /\ table'.tableNo = table.tableNo
    BY <1>2, <2>1 DEF RestaurantTable
  <2>3. NoneOpen(Db)
    BY <1>4, CommitSees
  <2>4. Seated'
    BY <1>1, <2>2, <2>3 DEF IInv, Seated, OpenSessionHasTable, NothingLeftBehind,
                            NumberIsOwn, OrdersWereSeated, NoneOpen, Db
  <2>5. \A q \in Request : WellFormed(q)
    BY DEF IInv, HandlerOK
  <2> QED
    BY <1>1, <1>4, <2>2, <2>3, <2>4, <2>5, TableSpares DEF Fits, Stored, IInv, TypeOK
<1> QED
  BY <1>3, <1>4

LEMMA CommitInv ==
  ASSUME IInv, NEW r \in Request, Commit(r)
  PROVE  IInv'
<1>1. req[r].op \in Submission \cup {"call", "open", "rotate", "close", "renumber", "delete"}
  BY CommitSees DEF Admin
<1>2. Fits(r)
  BY <1>1, SubmissionFits, SessionFits, TableFits
<1>3. /\ req' = [req EXCEPT ![r] = Done("success")]
      /\ doomed' = (doomed \cup Clash(Reads(r), Writes(r))) \ {r}
      /\ mode' = mode /\ others' = others
  BY DEF Commit
<1>4. TypeOK'
  BY <1>2, <1>3, DoneIsState DEF IInv, TypeOK, Fits, Stored, Clash
<1>5. ASSUME NEW q \in Request PROVE HandlerOK(q)'
  <2>1. CASE q = r
    <3>1. req'[q].pc = "done"
      BY <1>3, <2>1, DoneIsState DEF IInv, TypeOK
    <3> QED
      BY <3>1 DEF HandlerOK, WellFormed, SnapshotHolds
  <2>2. CASE q # r
    <3>1. req'[q] = req[q] /\ (q \in doomed => q \in doomed')
      BY <1>3, <2>2 DEF IInv, TypeOK
    <3>2. req[q].pc = "body" /\ q \notin doomed' => Spares(q)
      BY <1>2, <1>3, <2>2 DEF Fits
    <3> QED
      BY <3>1, <3>2, SparedHolds
  <2> QED
    BY <2>1, <2>2
<1> QED
  BY <1>2, <1>4, <1>5 DEF IInv, Fits, Stored

-----------------------------------------------------------------------------
(* Writes of a single statement or row.                                    *)

LEMMA StatementStep ==
  ASSUME IInv, TypeOK', Seated', req' = req, doomed \subseteq doomed',
         \A q \in Request : WellFormed(q) /\ req[q].pc = "body" /\ q \notin doomed' => Spares(q)
  PROVE  IInv'
<1>1. ASSUME NEW q \in Request PROVE HandlerOK(q)'
  BY SparedHolds DEF IInv, HandlerOK
<1> QED
  BY <1>1 DEF IInv

LEMMA ModeInv ==
  ASSUME IInv, NEW m \in Mode, setQrMode(m)
  PROVE  IInv'
<1>1. UNCHANGED <<table, others, sessions, orders, req>> /\ mode' = m
      /\ doomed' = doomed \cup Clash({}, {"policy"})
  BY DEF setQrMode
<1>2. TypeOK'
  BY <1>1 DEF IInv, TypeOK, Clash
<1>3. Seated'
  BY <1>1 DEF IInv, Seated, OpenSessionHasTable, NothingLeftBehind, NumberIsOwn, OrdersWereSeated
<1>4. ASSUME NEW q \in Request, req[q].pc = "body", q \notin doomed' PROVE Spares(q)
  <2>1. req[q].op # "guest"
    BY <1>1, <1>4, LockFacts DEF Clash, RowChanged
  <2>2. NoneOpen(Db)' <=> NoneOpen(Db)
    BY <1>1 DEF NoneOpen, Db
  <2> QED
    BY <1>1, <2>1, <2>2 DEF Spares, SameSession
<1> QED
  BY <1>1, <1>2, <1>3, <1>4, StatementStep

LEMMA CreateTableInv ==
  ASSUME IInv, NEW n \in Number, createTable(n)
  PROVE  IInv'
<1>1. UNCHANGED <<table, sessions, mode, orders, req, doomed>> /\ others' = others \cup {n}
      /\ n # table.tableNo
  BY DEF createTable
<1>2. TypeOK'
  BY <1>1 DEF IInv, TypeOK
<1>3. Seated'
  BY <1>1 DEF IInv, Seated, OpenSessionHasTable, NothingLeftBehind, NumberIsOwn, OrdersWereSeated
<1>4. NoneOpen(Db)' <=> NoneOpen(Db)
  BY <1>1 DEF NoneOpen, Db
<1>5. \A q \in Request : Spares(q)
  BY <1>1, <1>4 DEF Spares, SameSession
<1> QED
  BY <1>1, <1>2, <1>3, <1>5, StatementStep

LEMMA FinishInv ==
  ASSUME IInv, NEW o \in orders, FinishOrder(o)
  PROVE  IInv'
<1> DEFINE done == [o EXCEPT !.live = FALSE]
<1>1. o \in OrderRow
  BY DEF IInv, TypeOK
<1>2. /\ done \in OrderRow /\ done.session = o.session /\ done.tableNo = o.tableNo
      /\ ~done.live
  BY <1>1 DEF OrderRow
<1>3. /\ UNCHANGED <<table, others, sessions, mode, req>>
      /\ orders' = (orders \ {o}) \cup {done}
      /\ doomed' = doomed \cup Clash({}, {"orders"})
  BY DEF FinishOrder
<1> HIDE DEF done
<1>4. TypeOK'
  BY <1>2, <1>3 DEF IInv, TypeOK, Clash
<1>5. Seated'
  BY <1>2, <1>3 DEF IInv, Seated, OpenSessionHasTable, NothingLeftBehind, NumberIsOwn,
                    OrdersWereSeated
<1>6. NoneOpen(Db)' <=> NoneOpen(Db)
  BY <1>3 DEF NoneOpen, Db
<1>7. \A s : LiveIn(orders', s) \subseteq LiveIn(orders, s)
  BY <1>2, <1>3 DEF LiveIn
<1>8. \A q \in Request : Spares(q)
  BY <1>3, <1>6, <1>7 DEF Spares, SameSession
<1> QED
  BY <1>3, <1>4, <1>5, <1>8, StatementStep

LEMMA ResolveInv ==
  ASSUME IInv, NEW s \in Session, ResolveCall(s)
  PROVE  IInv'
<1> DEFINE row == [sessions[s] EXCEPT !.call = "RESOLVED"]
<1>1. sessions \in [Session -> SessionRow] /\ sessions[s] \in SessionRow
  BY DEF IInv, TypeOK
<1>2. row \in SessionRow /\ row.status = sessions[s].status /\ row.token = sessions[s].token
      /\ row.call = "RESOLVED"
  BY <1>1 DEF SessionRow
<1>3. /\ UNCHANGED <<table, others, mode, orders, req>>
      /\ sessions' = [sessions EXCEPT ![s] = row] /\ sessions[s].status = "OPEN"
      /\ doomed' = doomed \cup Clash({s}, {"calls"})
  BY <1>1 DEF ResolveCall
<1> HIDE DEF row
<1>4. MayWrite(s, row)
  BY <1>2, <1>3 DEF MayWrite, IInv, Seated, OpenSessionHasTable
<1>5. Stored
  BY <1>3, <1>4, SessionStored
<1>6. TypeOK'
  BY <1>3, <1>5 DEF IInv, TypeOK, Stored, Clash
<1>7. \A t \in Session : /\ sessions'[t].status = sessions[t].status
                         /\ sessions'[t].token = sessions[t].token
  BY <1>1, <1>2, <1>3
<1>8. ASSUME NEW q \in Request, WellFormed(q), req[q].pc = "body" PROVE Spares(q)
  BY <1>3, <1>7, <1>8 DEF Spares, SameSession, WellFormed, NoneOpen, Db
<1> QED
  BY <1>3, <1>5, <1>6, <1>8, StatementStep DEF Stored

LEMMA NextInv == IInv /\ [Next]_vars => IInv'
<1> SUFFICES ASSUME IInv, [Next]_vars PROVE IInv'
  OBVIOUS
<1>1. ASSUME NEW r \in Request, Call(r) \/ Handle(r) PROVE IInv'
  BY <1>1, CallInv, CheckInv, BeginInv, ReplyInv, ConflictInv, CommitInv DEF Handle
<1>2. CASE \E m \in Mode : setQrMode(m)
  BY <1>2, ModeInv
<1>3. CASE \E n \in Number : createTable(n)
  BY <1>3, CreateTableInv
<1>4. CASE \E o \in orders : FinishOrder(o)
  BY <1>4, FinishInv
<1>5. CASE \E s \in Session : ResolveCall(s)
  BY <1>5, ResolveInv
<1>6. CASE UNCHANGED vars
  <2>1. Unwritten /\ req' = req /\ doomed' = doomed
    BY <1>6 DEF vars, Unwritten
  <2>2. TypeOK' /\ Seated'
    BY <2>1, UnwrittenSeated DEF IInv, TypeOK, Unwritten
  <2>3. NoneOpen(Db)' <=> NoneOpen(Db)
    BY <2>1 DEF NoneOpen, Db, Unwritten
  <2>4. \A q \in Request : Spares(q)
    BY <2>1, <2>3 DEF Spares, SameSession, Unwritten
  <2> QED
    BY <2>1, <2>2, <2>4, StatementStep
<1> QED
  BY <1>1, <1>2, <1>3, <1>4, <1>5, <1>6 DEF Next

\* IInv is an invariant of the handlers, for any number of requests and sessions.
THEOREM Invariance == Spec => []IInv
<1> QED
  BY InitInv, NextInv, PTL DEF Spec

-----------------------------------------------------------------------------
(* What follows.                                                           *)

\* Rows, snapshots and handler states keep their types, and retries are bounded.
THEOREM TypeCorrect == Spec => []TypeOK
<1>1. IInv => TypeOK
  BY DEF IInv
<1> QED
  BY <1>1, Invariance, PTL

\* Nobody deletes or renumbers a table under guests who are being seated: the one
\* open session has a table in use whose number its orders carry.
THEOREM OpenHasTable == Spec => []OpenSessionHasTable
<1>1. IInv => OpenSessionHasTable
  BY DEF IInv, Seated
<1> QED
  BY <1>1, Invariance, PTL

\* A submission or call that overlaps with the closing of its session leaves no live
\* order and no active call in the closed one.
THEOREM NothingStays == Spec => []NothingLeftBehind
<1>1. IInv => NothingLeftBehind
  BY DEF IInv, Seated
<1> QED
  BY <1>1, Invariance, PTL

\* The order that a commit adds was judged by the database as it is at that moment.
LEMMA OrderEnters ==
  ASSUME IInv, NEW r \in Request, Commit(r), req[r].op \in Submission
  PROVE  LET s == req[r].session IN
         /\ \A o \in orders' : o \in orders \/ (/\ o.session = s /\ o.by = req[r].op
                                               /\ o.tableNo = table.tableNo)
         /\ SessionUsable(Db, s)
         /\ req[r].op = "guest" =>
               mode = "ORDERING" /\ resolveQrAccess(Db, s, req[r].token)
         /\ req[r].pc = "body" /\ req'[r].answer = "success"
<1>1. /\ req[r].pc = "body" /\ req[r].session \in Session
      /\ sessions[req[r].session].status = "OPEN" /\ table.tableNo = req[r].tableNo
      /\ req[r].op = "guest" =>
            mode = "ORDERING" /\ sessions[req[r].session].token = req[r].token
  BY CommitSees DEF InSession
<1>2. table.status = "use"
  BY <1>1 DEF IInv, Seated, OpenSessionHasTable
<1>3. orders' = orders \cup
        {[by |-> req[r].op, key |-> req[r].key, session |-> req[r].session,
          tableNo |-> req[r].tableNo, live |-> TRUE]}
  BY DEF Commit, Effect, createOrder, Submission
<1>4. req'[r].answer = "success"
  BY DoneIsState DEF Commit, IInv, TypeOK
<1> QED
  BY <1>1, <1>2, <1>3, <1>4 DEF SessionUsable, resolveQrAccess, Db

LEMMA NoOtherOrders ==
  ASSUME IInv, Next, ~ \E r \in Request : Commit(r) /\ req[r].op \in Submission
  PROVE  \A o \in orders' : \E p \in orders :
            p.by = o.by /\ p.key = o.key /\ p.session = o.session
<1>1. ASSUME NEW o \in orders, FinishOrder(o)
      PROVE  \A q \in orders' : \E p \in orders :
                p.by = q.by /\ p.key = q.key /\ p.session = q.session
  <2>1. o \in OrderRow /\ orders' = (orders \ {o}) \cup {[o EXCEPT !.live = FALSE]}
    BY <1>1 DEF IInv, TypeOK, FinishOrder
  <2>2. /\ [o EXCEPT !.live = FALSE].by = o.by /\ [o EXCEPT !.live = FALSE].key = o.key
        /\ [o EXCEPT !.live = FALSE].session = o.session
    BY <2>1 DEF OrderRow
  <2> QED
    BY <2>1, <2>2
<1>2. ASSUME NEW r \in Request, Commit(r) PROVE orders' = orders
  BY <1>2 DEF Commit, Effect, createCall, openSession, rotateToken, closeSession, updateTable,
              deleteTable, WriteSession, WriteTable
<1>3. ASSUME NEW r \in Request, Call(r) \/ Handle(r) PROVE orders' = orders
  <2>1. CASE Call(r)
    BY <2>1 DEF Call, PublicSubmit, WaiterSubmit, CallService, Manage, Arrive, Unwritten
  <2>2. CASE Handle(r)
    BY <1>2, <2>2 DEF Handle, Check, Begin, Reply, Duplicate, Conflict, OnConflict, Unwritten
  <2> QED
    BY <1>3, <2>1, <2>2
<1> QED
  BY <1>1, <1>3 DEF Next, setQrMode, createTable, ResolveCall

\* An order enters only through an open session of a table in use, a guest's only
\* with the token that is current at the commit and while ordering is on.
THEOREM EntersWithAccess == Spec => OrdersEnterWithAccess
<1> DEFINE Enters(o) ==
        /\ SessionUsable(Db, o.session) /\ o.tableNo = table.tableNo
        /\ o.by = "guest" =>
              /\ mode = "ORDERING"
              /\ \E r \in Request : /\ req[r].op = "guest" /\ req[r].pc = "body"
                                    /\ req'[r].answer = "success"
                                    /\ resolveQrAccess(Db, o.session, req[r].token)
           New(o) == \A p \in orders : <<p.by, p.key, p.session>> # <<o.by, o.key, o.session>>
           Judged == \A o \in orders' : New(o) => Enters(o)
<1>1. ASSUME IInv, NEW r \in Request, Commit(r), req[r].op \in Submission
      PROVE  Judged
  <2> SUFFICES ASSUME NEW o \in orders', New(o) PROVE Enters(o)
    OBVIOUS
  <2>1. /\ o.session = req[r].session /\ o.by = req[r].op /\ o.tableNo = table.tableNo
        /\ SessionUsable(Db, req[r].session) /\ req[r].pc = "body" /\ req'[r].answer = "success"
        /\ req[r].op = "guest" =>
              mode = "ORDERING" /\ resolveQrAccess(Db, req[r].session, req[r].token)
    BY <1>1, OrderEnters
  <2> QED
    BY <2>1
<1>2. ASSUME IInv, Next, ~ \E r \in Request : Commit(r) /\ req[r].op \in Submission
      PROVE  Judged
  BY <1>2, NoOtherOrders
<1>3. IInv /\ [Next]_vars => [Judged]_vars
  <2> HIDE DEF Judged
  <2> QED
    BY <1>1, <1>2
<1> HIDE DEF Enters, New, Judged
<1>4. Spec => [][Judged]_vars
  BY <1>3, Invariance, PTL DEF Spec
<1> QED
  BY <1>4 DEF OrdersEnterWithAccess, Judged, New, Enters
=============================================================================
