--------------------------- MODULE StaffUsersProofs ---------------------------
(***************************************************************************)
(* Proofs about StaffUsers.  What an account request was told when it      *)
(* arrived may be stale; the argument is that a transaction which can      *)
(* still commit sees its target as it is, and, if it takes an admin away,  *)
(* counts no admin who is gone.                                            *)
(***************************************************************************)
EXTENDS StaffUsers, FiniteSetTheorems, TLAPS

\* Only the accounts from before hashing are plain text, and that is their word.
PlainIsOld == \A u \in User : users[u].plain => users[u].word = OldPassword

WellFormed(r) ==
  /\ req[r].pc \in {"check", "insert"} => /\ ~EmptyTable
                                          /\ req[r].username \in Username
                                          /\ req[r].word \in Password
  /\ req[r].pc = "insert" => req[r].level \in Level
  /\ req[r].pc \in {"begin", "body"} =>
        /\ req[r].target \in User /\ users[req[r].target].status # "none"
        /\ \/ /\ req[r].op = "update" /\ req[r].username \in Username
              /\ req[r].level \in Level
           \/ req[r].op = "remove" /\ req[r].level = "delete"
  /\ req[r].pc = "rehash" =>
        /\ req[r].target \in User /\ users[req[r].target].status # "none"
        /\ req[r].word = OldPassword
  /\ req[r].pc = "body" => req[r].snap \in [User -> UserRow]

\* What an undoomed transaction has read is still so, as far as it matters.
SnapshotHolds(r) ==
  req[r].pc = "body" /\ r \notin doomed =>
     /\ req[r].snap[req[r].target] = users[req[r].target]
     /\ CountsAdmins(req[r].snap, req[r].target, req[r].level) =>
           ActiveAdmins(req[r].snap) \subseteq ActiveAdmins(users)

HandlerOK(r) == WellFormed(r) /\ SnapshotHolds(r)

IInv ==
  /\ TypeOK /\ UsernamesDiffer /\ AdminRemains /\ PlainIsOld
  /\ \A r \in Request : HandlerOK(r)

-----------------------------------------------------------------------------
(* Lemmas about sets and rows.                                             *)

\* What ensureAdminRemains counts on: of two there is always another one.
LEMMA AnotherOne ==
  ASSUME NEW S, IsFiniteSet(S), Cardinality(S) > 1, NEW x
  PROVE  \E y \in S : y # x
<1> SUFFICES ASSUME \A y \in S : y = x PROVE FALSE
  OBVIOUS
<1>1. S = {} \/ S = {x}
  OBVIOUS
<1>2. Cardinality(S) \in {0, 1}
  BY <1>1, FS_EmptySet, FS_Singleton
<1> QED BY <1>2

LEMMA DoneIsState ==
  ASSUME NEW a \in {"success", "refused", "conflict"}
  PROVE  /\ Done(a) \in HandlerState /\ Done(a).pc = "done" /\ Idle \in HandlerState
         /\ Done(a).answer = a /\ Done(a).op = None
BY DEF Done, Idle, HandlerState

-----------------------------------------------------------------------------
(* A step that leaves the accounts alone and moves one handler.            *)

LEMMA QuietStep ==
  ASSUME IInv, UNCHANGED users, NEW r \in Request, NEW s \in HandlerState,
         req' = [req EXCEPT ![r] = s], doomed' = doomed \/ doomed' = doomed \ {r},
         WellFormed(r)', SnapshotHolds(r)'
  PROVE  IInv'
<1>1. TypeOK' /\ UsernamesDiffer' /\ AdminRemains' /\ PlainIsOld'
  BY DEF IInv, TypeOK, UsernamesDiffer, AdminRemains, PlainIsOld, Active, ActiveAdmins,
         EmptyTable
<1>2. ASSUME NEW q \in Request PROVE HandlerOK(q)'
  <2>1. CASE q = r
    BY <2>1 DEF HandlerOK
  <2>2. CASE q # r
    <3>1. req'[q] = req[q] /\ (q \in doomed' <=> q \in doomed)
      BY <2>2 DEF IInv, TypeOK
    <3>2. WellFormed(q)'
      BY <3>1 DEF IInv, HandlerOK, WellFormed, EmptyTable
    <3>3. SnapshotHolds(q)'
      BY <3>1 DEF IInv, HandlerOK, SnapshotHolds, CountsAdmins, ActiveAdmins, Active
    <3> QED BY <3>2, <3>3 DEF HandlerOK
  <2> QED BY <2>1, <2>2
<1> QED BY <1>1, <1>2 DEF IInv

\* A handler that ends has nothing left to be right about.
LEMMA AnswerStep ==
  ASSUME IInv, UNCHANGED users, NEW r \in Request,
         NEW a \in {"success", "refused", "conflict"},
         \/ Answer(r, a)
         \/ req' = [req EXCEPT ![r] = Done(a)] /\ UNCHANGED doomed
  PROVE  IInv'
<1>1. req' = [req EXCEPT ![r] = Done(a)] /\ (doomed' = doomed \/ doomed' = doomed \ {r})
  BY DEF Answer
<1>2. req'[r].pc = "done"
  BY <1>1, DoneIsState DEF IInv, TypeOK
<1>3. WellFormed(r)' /\ SnapshotHolds(r)'
  BY <1>2 DEF WellFormed, SnapshotHolds
<1> QED BY <1>1, <1>3, QuietStep, DoneIsState

-----------------------------------------------------------------------------
(* A step that writes the row of one account.                              *)

\* A transaction under way that counts admins, and a write that takes one away.
CountsInBody(q) ==
  req[q].pc = "body" /\ CountsAdmins(req[q].snap, req[q].target, req[q].level)
Losing(u, row) == u \in ActiveAdmins(users) /\ ~(row.status = "use" /\ row.level = "admin")

LEMMA OthersOK ==
  ASSUME IInv, NEW q \in Request, NEW u \in User, NEW row \in UserRow,
         row.status # "none", users' = [users EXCEPT ![u] = row], req'[q] = req[q],
         q \in doomed => q \in doomed',
         req[q].pc = "body" /\ req[q].target = u => q \in doomed',
         Losing(u, row) /\ CountsInBody(q) => q \in doomed'
  PROVE  HandlerOK(q)'
<1>1. users \in [User -> UserRow] /\ users' \in [User -> UserRow] /\ HandlerOK(q)
  BY DEF IInv, TypeOK
<1>2. users'[u] = row /\ \A v \in User \ {u} : users'[v] = users[v]
  BY <1>1
<1>3. ~EmptyTable'
  BY <1>2 DEF EmptyTable, NoAccount
<1>4. \A v \in User : users[v].status # "none" => users'[v].status # "none"
  BY <1>2
<1>5. WellFormed(q)'
  BY <1>1, <1>3, <1>4 DEF HandlerOK, WellFormed
<1>6. ASSUME req[q].pc = "body", q \notin doomed' PROVE SnapshotHolds(q)'
  <2>1. req[q].target \in User \ {u} /\ SnapshotHolds(q) /\ q \notin doomed
    BY <1>1, <1>6 DEF HandlerOK, WellFormed
  <2>2. req[q].snap[req[q].target] = users'[req[q].target]
    BY <1>2, <1>6, <2>1 DEF SnapshotHolds
  <2>3. ASSUME CountsAdmins(req[q].snap, req[q].target, req[q].level)
        PROVE  ActiveAdmins(req[q].snap) \subseteq ActiveAdmins(users')
    <3>1. ActiveAdmins(req[q].snap) \subseteq ActiveAdmins(users) /\ ~Losing(u, row)
      BY <1>6, <2>1, <2>3 DEF SnapshotHolds, CountsInBody
    <3>2. ActiveAdmins(users) \subseteq ActiveAdmins(users')
      BY <1>2, <3>1 DEF Losing, ActiveAdmins, Active
    <3> QED BY <3>1, <3>2
  <2> QED BY <2>2, <2>3 DEF SnapshotHolds, ActiveAdmins, Active, CountsAdmins
<1>7. SnapshotHolds(q)'
  <2>1. CASE req[q].pc = "body" /\ q \notin doomed'
    BY <1>6, <2>1
  <2>2. CASE ~(req[q].pc = "body" /\ q \notin doomed')
    BY <2>2 DEF SnapshotHolds
  <2> QED BY <2>1, <2>2
<1> QED BY <1>5, <1>7 DEF HandlerOK

\* A row that may be written for u: its name is free and an admin remains.
Storable(u, row) ==
  /\ row \in UserRow /\ row.status # "none"
  /\ row.plain => row.word = OldPassword
  /\ row.status = "use" => ~activeUsernameExists(users, row.username, u)
  /\ \/ row.status = "use" /\ row.level = "admin"
     \/ \E v \in ActiveAdmins(users) : v # u

\* The other transactions that the write makes stale are doomed.
Overtakes(r, u, row) ==
  \A q \in Request \ {r} :
     /\ q \in doomed => q \in doomed'
     /\ req[q].pc = "body" /\ req[q].target = u => q \in doomed'
     /\ Losing(u, row) /\ CountsInBody(q) => q \in doomed'

LEMMA WriteStep ==
  ASSUME IInv, NEW r \in Request, NEW u \in User, NEW row, Storable(u, row),
         users' = [users EXCEPT ![u] = row], req' = [req EXCEPT ![r] = Done("success")],
         doomed' \subseteq Request, Overtakes(r, u, row)
  PROVE  IInv'
<1> USE DEF Storable
<1>1. users \in [User -> UserRow] /\ users' \in [User -> UserRow]
  BY DEF IInv, TypeOK
<1>2. users'[u] = row /\ \A v \in User \ {u} : users'[v] = users[v]
  BY <1>1
<1>3. req' \in [Request -> HandlerState] /\ req'[r].pc = "done"
      /\ \A q \in Request \ {r} : req'[q] = req[q]
  BY DoneIsState DEF IInv, TypeOK
<1>4. TypeOK'
  BY <1>1, <1>3 DEF TypeOK
<1>5. UsernamesDiffer'
  BY <1>2 DEF IInv, UsernamesDiffer, Active, activeUsernameExists
<1>6. AdminRemains'
  BY <1>2 DEF AdminRemains, ActiveAdmins, Active
<1>7. PlainIsOld'
  BY <1>2 DEF IInv, PlainIsOld
<1>8. ASSUME NEW q \in Request PROVE HandlerOK(q)'
  <2>1. CASE q = r
    BY <1>3, <2>1 DEF HandlerOK, WellFormed, SnapshotHolds
  <2>2. CASE q # r
    BY <1>3, <2>2, OthersOK DEF Overtakes
  <2> QED BY <2>1, <2>2
<1> QED BY <1>4, <1>5, <1>6, <1>7, <1>8 DEF IInv

-----------------------------------------------------------------------------
(* The actions.                                                            *)

LEMMA InitInv == Init => IInv
<1> SUFFICES ASSUME Init PROVE IInv
  OBVIOUS
<1>1. \A r \in Request : req[r] = Idle /\ HandlerOK(r)
  BY DEF Init, HandlerOK, WellFormed, SnapshotHolds, Idle
<1>2. CASE users = [u \in User |-> NoAccount]
  <2>1. users \in [User -> UserRow]
    BY <1>2 DEF NoAccount, UserRow
  <2> QED
    BY <1>1, <1>2, <2>1, DoneIsState
    DEF Init, IInv, TypeOK, UsernamesDiffer, AdminRemains, PlainIsOld, EmptyTable, Active,
        NoAccount
<1>3. CASE \E old \in User, name \in Username :
             users = [u \in User |-> IF u = old THEN Account(name, "admin", OldPassword, TRUE)
                                     ELSE NoAccount]
  <2>1. PICK old \in User, name \in Username :
          users = [u \in User |-> IF u = old THEN Account(name, "admin", OldPassword, TRUE)
                                  ELSE NoAccount]
    BY <1>3
  <2> DEFINE row == Account(name, "admin", OldPassword, TRUE)
  <2>2. /\ row \in UserRow /\ row.status = "use" /\ row.level = "admin"
        /\ row.word = OldPassword
    BY StaffAssumption DEF Account, UserRow, Level
  <2>3. NoAccount \in UserRow /\ NoAccount.status = "none" /\ ~NoAccount.plain
    BY DEF NoAccount, UserRow
  <2> HIDE DEF row
  <2>4. users = [u \in User |-> IF u = old THEN row ELSE NoAccount]
    BY <2>1 DEF row
  <2>5. TypeOK
    BY <1>1, <2>2, <2>3, <2>4, DoneIsState DEF Init, TypeOK
  <2>6. UsernamesDiffer /\ AdminRemains /\ PlainIsOld
    BY <2>2, <2>3, <2>4 DEF UsernamesDiffer, AdminRemains, PlainIsOld, ActiveAdmins, Active
  <2> QED BY <1>1, <2>5, <2>6 DEF IInv
<1> QED BY <1>2, <1>3 DEF Init

LEMMA CreateInv ==
  ASSUME IInv, NEW r \in Request, NEW caller \in User, NEW name \in Username,
         NEW level \in Submitted, NEW word \in Password, Create(r, caller, name, level, word)
  PROVE  IInv'
<1> DEFINE s == [Idle EXCEPT !.pc = "check", !.op = "create", !.username = name,
                             !.level = level, !.word = word]
<1>1. s \in HandlerState /\ s.pc = "check" /\ s.username = name /\ s.word = word
  BY DEF Idle, HandlerState
<1> HIDE DEF s
<1>2. req' = [req EXCEPT ![r] = s] /\ UNCHANGED <<users, doomed>>
  BY DEF Create, Arrive, s
<1>3. req'[r] = s
  BY <1>2 DEF IInv, TypeOK
<1>4. ~EmptyTable
  BY DEF Create, isAdmin, ActiveAdmins, Active, EmptyTable, NoAccount
<1>5. WellFormed(r)' /\ SnapshotHolds(r)'
  BY <1>1, <1>2, <1>3, <1>4 DEF WellFormed, SnapshotHolds, EmptyTable
<1> QED BY <1>1, <1>2, <1>5, QuietStep

LEMMA UpdateInv ==
  ASSUME IInv, NEW r \in Request, NEW caller \in User, NEW u \in User,
         NEW name \in Username, NEW level \in Submitted, NEW word \in Password \cup {None},
         Update(r, caller, u, name, level, word)
  PROVE  IInv'
<1> DEFINE s == [Idle EXCEPT !.pc = "begin", !.op = "update", !.target = u,
                             !.username = name, !.level = level, !.word = word]
<1>1. /\ s \in HandlerState /\ s.pc = "begin" /\ s.op = "update" /\ s.target = u
      /\ s.username = name /\ s.level = level
  BY DEF Idle, HandlerState
<1> HIDE DEF s
<1>2. CASE level \in Level
  <2>1. req' = [req EXCEPT ![r] = s] /\ UNCHANGED <<users, doomed>> /\ users[u].status # "none"
    BY <1>2 DEF Update, Arrive, s, validateUserFields
  <2>2. req'[r] = s
    BY <2>1 DEF IInv, TypeOK
  <2>3. WellFormed(r)' /\ SnapshotHolds(r)'
    BY <1>1, <1>2, <2>1, <2>2 DEF WellFormed, SnapshotHolds
  <2> QED BY <1>1, <2>1, <2>3, QuietStep
<1>3. CASE level \notin Level
  <2>1. req' = [req EXCEPT ![r] = Done("refused")] /\ UNCHANGED <<users, doomed>>
    BY <1>3 DEF Update, Arrive, validateUserFields
  <2> QED BY <2>1, AnswerStep
<1> QED BY <1>2, <1>3

LEMMA RemoveInv ==
  ASSUME IInv, NEW r \in Request, NEW caller \in User, NEW u \in User, Remove(r, caller, u)
  PROVE  IInv'
<1> DEFINE s == [Idle EXCEPT !.pc = "begin", !.op = "remove", !.target = u,
                             !.level = "delete"]
<1>1. /\ s \in HandlerState /\ s.pc = "begin" /\ s.op = "remove" /\ s.target = u
      /\ s.level = "delete"
  BY DEF Idle, HandlerState
<1> HIDE DEF s
<1>2. req' = [req EXCEPT ![r] = s] /\ UNCHANGED <<users, doomed>> /\ users[u].status # "none"
  BY DEF Remove, Arrive, s
<1>3. req'[r] = s
  BY <1>2 DEF IInv, TypeOK
<1>4. WellFormed(r)' /\ SnapshotHolds(r)'
  BY <1>1, <1>2, <1>3 DEF WellFormed, SnapshotHolds
<1> QED BY <1>1, <1>2, <1>4, QuietStep

LEMMA SignInInv ==
  ASSUME IInv, NEW r \in Request, NEW name \in Username, NEW word \in Password,
         SignIn(r, name, word)
  PROVE  IInv'
<1>1. CASE \A u \in User : ~verifyPassword(u, name, word)
  <2>1. req' = [req EXCEPT ![r] = Done("refused")] /\ UNCHANGED <<users, doomed>>
    BY <1>1 DEF SignIn, Arrive
  <2> QED BY <2>1, AnswerStep
<1>2. ASSUME NEW u \in User, verifyPassword(u, name, word), isPasswordHash(u),
             Arrive(r, Done("success"))
      PROVE  IInv'
  <2>1. req' = [req EXCEPT ![r] = Done("success")] /\ UNCHANGED <<users, doomed>>
    BY <1>2 DEF SignIn, Arrive
  <2> QED BY <2>1, AnswerStep
<1>3. ASSUME NEW u \in User, verifyPassword(u, name, word), ~isPasswordHash(u),
             Arrive(r, [Idle EXCEPT !.pc = "rehash", !.op = "signIn", !.target = u,
                                    !.word = word])
      PROVE  IInv'
  <2> DEFINE s == [Idle EXCEPT !.pc = "rehash", !.op = "signIn", !.target = u,
                               !.word = word]
  <2>1. s \in HandlerState /\ s.pc = "rehash" /\ s.target = u /\ s.word = word
    BY DEF Idle, HandlerState
  <2> HIDE DEF s
  <2>2. req' = [req EXCEPT ![r] = s] /\ UNCHANGED <<users, doomed>>
    BY <1>3 DEF SignIn, Arrive, s
  <2>3. req'[r] = s
    BY <2>2 DEF IInv, TypeOK
  <2>4. users[u].status # "none" /\ word = OldPassword
    BY <1>3 DEF verifyPassword, isPasswordHash, Active, IInv, PlainIsOld
  <2>5. WellFormed(r)' /\ SnapshotHolds(r)'
    BY <2>1, <2>2, <2>3, <2>4 DEF WellFormed, SnapshotHolds
  <2> QED BY <2>1, <2>2, <2>5, QuietStep
<1> QED BY <1>1, <1>2, <1>3 DEF SignIn

LEMMA CheckInv ==
  ASSUME IInv, NEW r \in Request, Check(r)
  PROVE  IInv'
<1>1. CASE req' = [req EXCEPT ![r].pc = "insert"] /\ UNCHANGED doomed
           /\ validateUserFields(req[r].level)
  <2> DEFINE s == [req[r] EXCEPT !.pc = "insert"]
  <2>1. req[r] \in HandlerState /\ WellFormed(r) /\ req[r].pc = "check"
    BY DEF IInv, TypeOK, HandlerOK, Check
  <2>2. /\ s \in HandlerState /\ s.pc = "insert" /\ s.username = req[r].username
        /\ s.word = req[r].word /\ s.level = req[r].level
    BY <2>1 DEF HandlerState
  <2>3. req' = [req EXCEPT ![r] = s]
    BY <1>1
  <2> HIDE DEF s
  <2>4. req'[r] = s /\ UNCHANGED users
    BY <2>3 DEF IInv, TypeOK, Check
  <2>5. WellFormed(r)' /\ SnapshotHolds(r)'
    BY <1>1, <2>1, <2>2, <2>4 DEF WellFormed, SnapshotHolds, EmptyTable, validateUserFields
  <2> QED BY <1>1, <2>2, <2>3, <2>4, <2>5, QuietStep
<1>2. CASE Answer(r, "refused")
  BY <1>2, AnswerStep DEF Check
<1> QED BY <1>1, <1>2 DEF Check

LEMMA BeginInv ==
  ASSUME IInv, NEW r \in Request, Begin(r)
  PROVE  IInv'
<1> DEFINE s == [req[r] EXCEPT !.pc = "body", !.snap = users]
<1>1. /\ req[r] \in HandlerState /\ WellFormed(r) /\ req[r].pc = "begin"
      /\ users \in [User -> UserRow]
  BY DEF IInv, TypeOK, HandlerOK, Begin
<1>2. /\ s \in HandlerState /\ s.pc = "body" /\ s.snap = users /\ s.target = req[r].target
      /\ s.op = req[r].op /\ s.username = req[r].username /\ s.level = req[r].level
  BY <1>1 DEF HandlerState
<1>3. req' = [req EXCEPT ![r] = s]
  BY DEF Begin
<1> HIDE DEF s
<1>4. req'[r] = s /\ UNCHANGED <<users, doomed>>
  BY <1>3 DEF IInv, TypeOK, Begin
<1>5. WellFormed(r)'
  BY <1>1, <1>2, <1>4 DEF WellFormed
<1>6. SnapshotHolds(r)'
  BY <1>1, <1>2, <1>4 DEF SnapshotHolds, ActiveAdmins, Active
<1> QED BY <1>2, <1>3, <1>4, <1>5, <1>6, QuietStep

LEMMA InsertInv ==
  ASSUME IInv, NEW r \in Request, Insert(r)
  PROVE  IInv'
<1>1. CASE Answer(r, "conflict") /\ UNCHANGED users
  BY <1>1, AnswerStep
<1>2. ASSUME NEW u \in User, users[u] = NoAccount,
             users' = [users EXCEPT ![u] =
                         Account(req[r].username, req[r].level, req[r].word, FALSE)],
             ~UsernameTaken(req[r].username, None), Answer(r, "success")
      PROVE  IInv'
  <2> DEFINE row == Account(req[r].username, req[r].level, req[r].word, FALSE)
  <2>1. /\ req[r].username \in Username /\ req[r].level \in Level
        /\ req[r].word \in Password /\ ~EmptyTable
    BY DEF IInv, HandlerOK, WellFormed, Insert
  <2>2. /\ row \in UserRow /\ row.status = "use" /\ row.username = req[r].username
        /\ row.plain => row.word = OldPassword
    BY <2>1 DEF Account, UserRow
  <2>3. users' = [users EXCEPT ![u] = row]
    BY <1>2
  <2> HIDE DEF row
  <2>4. u \notin Active(users) /\ users[u].status = "none"
    BY <1>2 DEF Active, NoAccount
  <2>5. ~activeUsernameExists(users, row.username, u)
    BY <1>2, <2>2, <2>4, StaffAssumption DEF UsernameTaken, activeUsernameExists, Active
  <2>6. \E v \in ActiveAdmins(users) : v # u
    BY <2>1, <2>4 DEF IInv, AdminRemains, ActiveAdmins
  <2>7. req' = [req EXCEPT ![r] = Done("success")] /\ doomed' = doomed \ {r}
    BY <1>2 DEF Answer
  <2>8. doomed' \subseteq Request
    BY <2>7 DEF IInv, TypeOK
  <2>9. Overtakes(r, u, row)
    <3>1. ~Losing(u, row)
      BY <2>4 DEF Losing, ActiveAdmins
    <3>2. \A q \in Request : ~(req[q].pc = "body" /\ req[q].target = u)
      BY <2>4 DEF IInv, HandlerOK, WellFormed
    <3> QED BY <2>7, <3>1, <3>2 DEF Overtakes
  <2>10. Storable(u, row)
    BY <2>2, <2>5, <2>6 DEF Storable
  <2> QED BY <2>3, <2>7, <2>8, <2>9, <2>10, WriteStep
<1> QED BY <1>1, <1>2 DEF Insert

\* The transaction that commits sees the account as it is.
LEMMA CommitSees ==
  ASSUME IInv, NEW r \in Request, Commit(r)
  PROVE  /\ req[r].target \in User /\ req[r].snap \in [User -> UserRow]
         /\ req[r].snap[req[r].target] = users[req[r].target]
         /\ users[req[r].target].status = "use" /\ users[req[r].target] \in UserRow
         /\ \/ /\ req[r].op = "update" /\ req[r].username \in Username
               /\ req[r].level \in Level
            \/ req[r].op = "remove" /\ req[r].level = "delete"
BY DEF IInv, TypeOK, HandlerOK, WellFormed, SnapshotHolds, Commit, Permitted, Active

\* Unless it makes its target an admin, another admin is there.
LEMMA CommitLeavesAdmin ==
  ASSUME IInv, NEW r \in Request, Commit(r), req[r].level # "admin"
  PROVE  \E v \in ActiveAdmins(users) : v # req[r].target
<1> DEFINE u == req[r].target
           db == req[r].snap
<1>1. CASE CountsAdmins(db, u, req[r].level)
  <2>1. Cardinality(ActiveAdmins(db)) > 1
    BY <1>1 DEF Commit, Permitted, ensureAdminRemains
  <2>2. IsFiniteSet(ActiveAdmins(db))
    BY StaffAssumption, FS_Subset DEF ActiveAdmins, Active
  <2>3. \E v \in ActiveAdmins(db) : v # u
    BY <2>1, <2>2, AnotherOne
  <2>4. ActiveAdmins(db) \subseteq ActiveAdmins(users)
    BY <1>1 DEF IInv, HandlerOK, SnapshotHolds, Commit
  <2> QED BY <2>3, <2>4
<1>2. CASE ~CountsAdmins(db, u, req[r].level)
  <2>1. users[u].level # "admin" /\ users[u].status = "use" /\ u \in User
    BY <1>2, CommitSees DEF CountsAdmins
  <2>2. ~EmptyTable
    BY <2>1 DEF EmptyTable, NoAccount
  <2>3. PICK v \in ActiveAdmins(users) : TRUE
    BY <2>2 DEF IInv, AdminRemains
  <2>4. v # u
    BY <2>1 DEF ActiveAdmins
  <2> QED BY <2>4
<1> QED BY <1>1, <1>2

LEMMA CommitInv ==
  ASSUME IInv, NEW r \in Request, Commit(r)
  PROVE  IInv'
<1> DEFINE u == req[r].target
           old == users[u]
           row == CASE req[r].op = "update" /\ req[r].word = None ->
                         [old EXCEPT !.username = req[r].username, !.level = req[r].level]
                    [] req[r].op = "update" /\ req[r].word # None ->
                         Account(req[r].username, req[r].level, req[r].word, FALSE)
                    [] OTHER -> [old EXCEPT !.status = "delete"]
<1>1. /\ u \in User /\ old \in UserRow /\ old.status = "use"
      /\ \/ /\ req[r].op = "update" /\ req[r].username \in Username
            /\ req[r].level \in Level
         \/ req[r].op = "remove" /\ req[r].level = "delete"
  BY CommitSees
<1>2. old.plain => old.word = OldPassword
  BY <1>1 DEF IInv, PlainIsOld
<1>3. /\ row \in UserRow /\ row.status # "none"
      /\ row.plain => row.word = OldPassword
      /\ req[r].op = "update" => /\ row.status = "use" /\ row.level = req[r].level
                                 /\ row.username = req[r].username
      /\ req[r].op = "remove" => row.status = "delete"
  <2>1. req[r].word \in Password \cup {None}
    BY DEF IInv, TypeOK, HandlerState
  <2>2. CASE req[r].op = "update" /\ req[r].word = None
    BY <1>1, <1>2, <2>2 DEF UserRow
  <2>3. CASE req[r].op = "update" /\ req[r].word # None
    BY <1>1, <2>1, <2>3 DEF UserRow, Account
  <2>4. CASE req[r].op = "remove"
    BY <1>1, <1>2, <2>4 DEF UserRow
  <2> QED BY <1>1, <2>2, <2>3, <2>4
<1>4. users' = [users EXCEPT ![u] = row]
  BY <1>1 DEF Commit
<1> HIDE DEF row
<1>5. req' = [req EXCEPT ![r] = Done("success")] /\ doomed' \subseteq Request
  BY DEF Commit, Clash, IInv, TypeOK
<1>6. Storable(u, row)
  <2>1. req[r].op = "update" => ~activeUsernameExists(users, row.username, u)
    BY <1>3 DEF Commit, UsernameTaken
  <2>2. req[r].level = "admin" => row.status = "use" /\ row.level = "admin"
    BY <1>1, <1>3
  <2>3. req[r].level # "admin" => \E v \in ActiveAdmins(users) : v # u
    BY CommitLeavesAdmin
  <2>4. row.status = "use" => req[r].op = "update"
    BY <1>1, <1>3
  <2> QED BY <1>3, <2>1, <2>2, <2>3, <2>4 DEF Storable
<1>7. Overtakes(r, u, row)
  <2>1. doomed' = (doomed \cup Clash(Reads(r), u)) \ {r}
    BY DEF Commit
  <2>2. ASSUME Losing(u, row) PROVE Reads(r) = User
    <3>1. old.level = "admin" /\ req[r].level # "admin"
      BY <1>1, <1>3, <2>2 DEF Losing, ActiveAdmins
    <3> QED BY <3>1, CommitSees DEF Reads, CountsAdmins
  <2>3. ASSUME NEW q \in Request \ {r}, req[q].pc = "body", req[q].target = u
        PROVE  q \in doomed'
    BY <2>1, <2>3 DEF Clash, RowChanged, isolationLevel
  <2>4. ASSUME NEW q \in Request \ {r}, Losing(u, row), CountsInBody(q)
        PROVE  q \in doomed'
    <3>1. Reads(q) = User /\ req[q].target \in Reads(r)
      BY <2>2, <2>4 DEF Reads, CountsInBody, IInv, HandlerOK, WellFormed
    <3> QED BY <1>1, <2>1, <2>4, <3>1 DEF Clash, WriteSkew, isolationLevel, CountsInBody
  <2> QED BY <2>1, <2>3, <2>4 DEF Overtakes
<1> QED BY <1>1, <1>4, <1>5, <1>6, <1>7, WriteStep

LEMMA RehashInv ==
  ASSUME IInv, NEW r \in Request, Rehash(r)
  PROVE  IInv'
<1> DEFINE u == req[r].target
           old == users[u]
           row == [old EXCEPT !.word = req[r].word, !.plain = FALSE]
<1>1. u \in User /\ old \in UserRow /\ old.status # "none" /\ req[r].word = OldPassword
  BY DEF IInv, TypeOK, HandlerOK, WellFormed, Rehash
<1>2. /\ row \in UserRow /\ row.status = old.status /\ row.level = old.level
      /\ row.username = old.username /\ row.word = OldPassword
  BY <1>1, StaffAssumption DEF UserRow
<1>3. users' = [users EXCEPT ![u] = row]
  BY <1>1 DEF Rehash, IInv, TypeOK
<1> HIDE DEF row
<1>4. /\ req' = [req EXCEPT ![r] = Done("success")] /\ doomed' \subseteq Request
      /\ doomed \subseteq doomed'
      /\ \A q \in Request : req[q].pc = "body" /\ req[q].target = u => q \in doomed'
  BY DEF Rehash, RowChanged, isolationLevel, IInv, TypeOK
<1>5. ~Losing(u, row)
  BY <1>2 DEF Losing, ActiveAdmins, Active
<1>6. Overtakes(r, u, row)
  BY <1>4, <1>5 DEF Overtakes
<1>7. row.status = "use" => ~activeUsernameExists(users, row.username, u)
  BY <1>1, <1>2 DEF IInv, UsernamesDiffer, activeUsernameExists, Active
<1>8. \/ row.status = "use" /\ row.level = "admin"
      \/ \E v \in ActiveAdmins(users) : v # u
  <2>1. PICK v \in ActiveAdmins(users) : TRUE
    BY <1>1 DEF IInv, AdminRemains, EmptyTable, NoAccount
  <2> QED BY <1>2, <2>1 DEF ActiveAdmins, Active
<1>9. Storable(u, row)
  BY <1>1, <1>2, <1>7, <1>8 DEF Storable
<1> QED BY <1>1, <1>3, <1>4, <1>6, <1>9, WriteStep

LEMMA FirstAdminInv ==
  ASSUME IInv, NEW name \in Username, NEW word \in Password, createFirstAdmin(name, word)
  PROVE  IInv'
<1>1. PICK u \in User : users' = [users EXCEPT ![u] = Account(name, "admin", word, FALSE)]
  BY DEF createFirstAdmin
<1> DEFINE row == Account(name, "admin", word, FALSE)
<1>2. /\ row \in UserRow /\ row.status = "use" /\ row.level = "admin"
      /\ row.plain => row.word = OldPassword
  BY DEF Account, UserRow, Level
<1>3. users' = [users EXCEPT ![u] = row]
  BY <1>1
<1> HIDE DEF row
<1>4. EmptyTable /\ UNCHANGED <<req, doomed>>
  BY DEF createFirstAdmin
<1>5. /\ users' \in [User -> UserRow] /\ users'[u] = row
      /\ \A v \in User \ {u} : users'[v] = users[v] /\ users'[v].status = "none"
      /\ ~(NoAccount.plain)
  BY <1>2, <1>3, <1>4 DEF IInv, TypeOK, EmptyTable, NoAccount
<1>6. TypeOK' /\ UsernamesDiffer' /\ AdminRemains'
  BY <1>2, <1>4, <1>5 DEF IInv, TypeOK, UsernamesDiffer, AdminRemains, ActiveAdmins, Active
<1>7. PlainIsOld'
  BY <1>2, <1>5 DEF IInv, PlainIsOld
<1>8. ASSUME NEW q \in Request PROVE HandlerOK(q)'
  <2>1. req[q].pc # "body" /\ ~Losing(u, row) /\ row.status # "none"
    BY <1>2, <1>4 DEF IInv, HandlerOK, WellFormed, EmptyTable, NoAccount, Losing
  <2> QED BY <1>2, <1>3, <1>4, <2>1, OthersOK
<1> QED BY <1>6, <1>7, <1>8 DEF IInv

LEMMA NextInv == IInv /\ [Next]_vars => IInv'
<1> SUFFICES ASSUME IInv, [Next]_vars PROVE IInv'
  OBVIOUS
<1>1. ASSUME NEW r \in Request, NEW caller \in User, Call(r, caller) PROVE IInv'
  BY <1>1, CreateInv, UpdateInv, RemoveInv DEF Call
<1>2. ASSUME NEW r \in Request, Handle(r) PROVE IInv'
  <2>1. CASE Refuse(r)
    BY <2>1, AnswerStep DEF Refuse
  <2>2. CASE Conflict(r)
    BY <2>2, AnswerStep DEF Conflict
  <2> QED
    BY <1>2, <2>1, <2>2, CheckInv, InsertInv, BeginInv, CommitInv, RehashInv DEF Handle
<1>3. CASE UNCHANGED vars
  BY <1>3 DEF vars, IInv, TypeOK, UsernamesDiffer, AdminRemains, PlainIsOld, HandlerOK,
              WellFormed, SnapshotHolds, EmptyTable, ActiveAdmins, Active, CountsAdmins
<1> QED BY <1>1, <1>2, <1>3, SignInInv, FirstAdminInv DEF Next

LEMMA AlwaysInv == Spec => []IInv
BY InitInv, NextInv, PTL DEF Spec

-----------------------------------------------------------------------------
(* The theorems.                                                           *)

\* Rows and handler states keep their types, whoever asks for what level.
THEOREM TypeCorrect == Spec => []TypeOK
BY AlwaysInv, PTL DEF IInv

\* Two active accounts never share the name they sign in with.
THEOREM NamesDiffer == Spec => []UsernamesDiffer
BY AlwaysInv, PTL DEF IInv

\* However many admins demote and remove each other at once, one remains.
THEOREM AnAdminRemains == Spec => []AdminRemains
BY AlwaysInv, PTL DEF IInv

\* An edit that read an account before it was removed does not commit after it.
THEOREM RemovedStays == Spec => RemovedStaysRemoved
<1>1. ASSUME IInv, NEW r \in Request, Handle(r) PROVE [RemovedKept]_users
  <2>1. CASE Insert(r)
    <3>1. UNCHANGED users \/ \E u \in User :
            /\ users[u] = NoAccount
            /\ \A v \in User \ {u} : users'[v] = users[v]
      BY <1>1, <2>1 DEF Insert, IInv, TypeOK
    <3> QED BY <3>1 DEF RemovedKept, NoAccount
  <2>2. CASE Commit(r)
    <3>1. \A v \in User \ {req[r].target} : users'[v] = users[v]
      BY <1>1, <2>2 DEF Commit, IInv, TypeOK
    <3>2. users[req[r].target].status = "use"
      BY <1>1, <2>2, CommitSees
    <3> QED BY <3>1, <3>2 DEF RemovedKept
  <2>3. CASE Rehash(r)
    <3> DEFINE u == req[r].target
               row == [users[u] EXCEPT !.word = req[r].word, !.plain = FALSE]
    <3>1. u \in User /\ users[u] \in UserRow /\ users \in [User -> UserRow]
      BY <1>1, <2>3 DEF IInv, TypeOK, HandlerOK, WellFormed, Rehash
    <3>2. users' = [users EXCEPT ![u] = row]
      BY <2>3, <3>1 DEF Rehash
    <3>3. Identity(row) = Identity(users[u])
      BY <3>1 DEF Identity, UserRow
    <3> HIDE DEF row
    <3>4. \A v \in User : Identity(users'[v]) = Identity(users[v])
      BY <3>1, <3>2, <3>3
    <3> QED BY <3>4 DEF RemovedKept
  <2> QED
    BY <1>1, <2>1, <2>2, <2>3 DEF Handle, Check, Begin, Refuse, Conflict
<1>2. ASSUME IInv, NEW name \in Username, NEW word \in Password, createFirstAdmin(name, word)
      PROVE  RemovedKept
  BY <1>2 DEF createFirstAdmin, RemovedKept, EmptyTable, NoAccount
<1>3. IInv /\ [Next]_vars => [RemovedKept]_users
  BY <1>1, <1>2 DEF Next, vars, Call, Create, Update, Remove, SignIn
<1> QED BY <1>3, AlwaysInv, PTL DEF Spec, RemovedStaysRemoved

\* A hashed password stays hashed and changes at an admin's request only, apart from
\* the old plain-text password that a sign-in stores once more.
THEOREM PasswordsKept == Spec => PasswordsAreKept
<1> DEFINE Kept == \A u \in Active(users) : PasswordKept(u)
<1>1. ASSUME IInv, NEW r \in Request, Commit(r) PROVE Kept
  <2> DEFINE u == req[r].target
  <2>1. u \in User /\ users[u] \in UserRow /\ users \in [User -> UserRow]
    BY <1>1, CommitSees DEF IInv, TypeOK
  <2>2. \A v \in User \ {u} : users'[v] = users[v]
    BY <1>1 DEF Commit, IInv, TypeOK
  <2>3. req'[r].answer = "success"
    BY <1>1, DoneIsState DEF Commit, IInv, TypeOK
  <2>4. CASE req[r].op = "update" /\ req[r].word # None
    <3>1. users'[u] = Account(req[r].username, req[r].level, req[r].word, FALSE)
      BY <1>1, <2>1, <2>4 DEF Commit
    <3>2. users'[u].word = req[r].word /\ ~users'[u].plain
      BY <3>1 DEF Account
    <3> QED BY <2>2, <2>3, <2>4, <3>2 DEF PasswordKept, Active
  <2>5. CASE req[r].op = "update" /\ req[r].word = None
    <3>1. users'[u] = [users[u] EXCEPT !.username = req[r].username,
                                       !.level = req[r].level]
      BY <1>1, <2>1, <2>5 DEF Commit
    <3>2. users'[u].word = users[u].word /\ users'[u].plain = users[u].plain
      BY <2>1, <3>1 DEF UserRow
    <3> QED BY <2>2, <3>2 DEF PasswordKept, Active
  <2>6. CASE req[r].op = "remove"
    <3>1. users'[u] = [users[u] EXCEPT !.status = "delete"]
      BY <1>1, <2>1, <2>6 DEF Commit
    <3>2. users'[u].word = users[u].word /\ users'[u].plain = users[u].plain
      BY <2>1, <3>1 DEF UserRow
    <3> QED BY <2>2, <3>2 DEF PasswordKept, Active
  <2> QED BY <1>1, <2>4, <2>5, <2>6 DEF Commit
<1>2. ASSUME IInv, NEW r \in Request, Rehash(r) PROVE Kept
  <2> DEFINE u == req[r].target
  <2>1. u \in User /\ users[u] \in UserRow /\ users \in [User -> UserRow]
        /\ req[r].word = OldPassword
    BY <1>2 DEF IInv, TypeOK, HandlerOK, WellFormed, Rehash
  <2>2. \A v \in User \ {u} : users'[v] = users[v]
    BY <1>2 DEF Rehash, IInv, TypeOK
  <2>3. req'[r].answer = "success"
    BY <1>2, DoneIsState DEF Rehash, IInv, TypeOK
  <2>4. users'[u].word = OldPassword /\ ~users'[u].plain
    BY <1>2, <2>1 DEF Rehash, UserRow
  <2> QED BY <2>1, <2>2, <2>3, <2>4 DEF PasswordKept, Active
<1>3. ASSUME IInv, NEW u \in User, users[u] = NoAccount,
             \A v \in User \ {u} : users'[v] = users[v]
      PROVE  Kept
  BY <1>3 DEF PasswordKept, Active, NoAccount
<1>4. ASSUME IInv, NEW r \in Request, Insert(r) PROVE [Kept]_users
  <2>1. UNCHANGED users \/ \E u \in User :
          /\ users[u] = NoAccount
          /\ \A v \in User \ {u} : users'[v] = users[v]
    BY <1>4 DEF Insert, IInv, TypeOK
  <2> QED BY <1>3, <1>4, <2>1
<1>5. ASSUME IInv, NEW name \in Username, NEW word \in Password, createFirstAdmin(name, word)
      PROVE  Kept
  BY <1>5 DEF createFirstAdmin, EmptyTable, Active, NoAccount
<1>6. ASSUME UNCHANGED users PROVE Kept
  BY <1>6 DEF PasswordKept
<1>7. IInv /\ [Next]_vars => [Kept]_vars
  <2> HIDE DEF Kept
  <2>1. ASSUME IInv, NEW r \in Request, Handle(r) PROVE Kept
    BY <1>1, <1>2, <1>4, <1>6, <2>1 DEF Handle, Check, Begin, Refuse, Conflict
  <2> QED
    BY <1>5, <1>6, <2>1 DEF Next, Call, Create, Update, Remove, SignIn
<1> QED BY <1>7, AlwaysInv, PTL DEF Spec, PasswordsAreKept
=============================================================================
