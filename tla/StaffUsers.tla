------------------------------ MODULE StaffUsers ------------------------------
(***************************************************************************)
(* Staff accounts: admins create, change and remove accounts while other   *)
(* admins do the same to them, and staff sign in.  A request is authorised *)
(* against the User row of its caller when it arrives and not again; its   *)
(* transaction reads a snapshot and is judged at its commit as in          *)
(* TableAccess.  A stored password is a word, hashed or still plain text.  *)
(* Display names and sign-in tokens are left out: no check depends on them.*)
(***************************************************************************)
EXTENDS Naturals, FiniteSets

CONSTANTS
  Request,      \* requests of admins, and sign-ins
  User,         \* account ids
  Username,     \* sign-in names
  Submitted,    \* levels that requests ask for, valid or not
  Password,     \* the words that may be chosen
  OldPassword,  \* the word of an account from before passwords were hashed
  None

ASSUME StaffAssumption ==
  /\ IsFiniteSet(User)
  /\ OldPassword \in Password
  /\ None \notin User \cup Username \cup Password

VARIABLES
  users,    \* User -> its row
  req,      \* Request -> the state of its handler
  doomed    \* transactions that can no longer commit on their snapshot

vars == <<users, req, doomed>>

-----------------------------------------------------------------------------
Level == {"admin", "kassa", "waiter", "kitchen"}

UserRow == [status : {"none", "use", "delete"}, username : Username \cup {None},
            level : Level \cup {None}, word : Password \cup {None}, plain : BOOLEAN]
NoAccount == [status |-> "none", username |-> None, level |-> None, word |-> None,
              plain |-> FALSE]
Account(name, level, word, plain) ==
  [status |-> "use", username |-> name, level |-> level, word |-> word, plain |-> plain]

HandlerState ==
  [pc : {"idle", "check", "insert", "begin", "body", "rehash", "done"},
   op : {"create", "update", "remove", "signIn", None}, target : User \cup {None},
   username : Username \cup {None}, level : Submitted \cup {"delete", None},
   word : Password \cup {None}, snap : [User -> UserRow] \cup {None},
   answer : {None, "success", "refused", "conflict"}]

Idle == [pc |-> "idle", op |-> None, target |-> None, username |-> None,
         level |-> None, word |-> None, snap |-> None, answer |-> None]
Done(a) == [Idle EXCEPT !.pc = "done", !.answer = a]

Answer(r, a) == req' = [req EXCEPT ![r] = Done(a)] /\ doomed' = doomed \ {r}

-----------------------------------------------------------------------------
(* What the handlers decide on, read from the table or a snapshot db.      *)

Active(db) == {u \in User : db[u].status = "use"}
ActiveAdmins(db) == {u \in Active(db) : db[u].level = "admin"}
isAdmin(u) == u \in ActiveAdmins(users)

activeUsernameExists(db, name, excludeId) ==
  \E u \in Active(db) \ {excludeId} : db[u].username = name

CountsAdmins(db, target, nextLevel) == db[target].level = "admin" /\ nextLevel # "admin"

ensureAdminRemains(db, target, nextLevel) ==
  CountsAdmins(db, target, nextLevel) => Cardinality(ActiveAdmins(db)) > 1

AnyLevel(level) == TRUE                               \* Variation: the level is taken as sent
validateUserFields(level) == level \in Level

-----------------------------------------------------------------------------
(* Requests.                                                               *)

Arrive(r, state) == req[r].pc = "idle" /\ req' = [req EXCEPT ![r] = state]

Create(r, caller, name, level, word) ==
  /\ isAdmin(caller)
  /\ Arrive(r, [Idle EXCEPT !.pc = "check", !.op = "create", !.username = name,
                            !.level = level, !.word = word])
  /\ UNCHANGED <<users, doomed>>

\* Without a password the account keeps the one it has.
Update(r, caller, u, name, level, word) ==
  /\ isAdmin(caller) /\ users[u].status # "none"
  /\ Arrive(r, IF validateUserFields(level)
               THEN [Idle EXCEPT !.pc = "begin", !.op = "update", !.target = u,
                                 !.username = name, !.level = level, !.word = word]
               ELSE Done("refused"))
  /\ UNCHANGED <<users, doomed>>

\* You cannot delete your own account.
Remove(r, caller, u) ==
  /\ isAdmin(caller) /\ users[u].status # "none" /\ u # caller
  /\ Arrive(r, [Idle EXCEPT !.pc = "begin", !.op = "remove", !.target = u,
                            !.level = "delete"])
  /\ UNCHANGED <<users, doomed>>

-----------------------------------------------------------------------------
(* Creating an account: a check, a slow password hash and an insert.       *)

Check(r) ==
  /\ req[r].pc = "check"
  /\ IF validateUserFields(req[r].level) /\ ~activeUsernameExists(users, req[r].username, None)
     THEN req' = [req EXCEPT ![r].pc = "insert"] /\ UNCHANGED doomed
     ELSE Answer(r, "refused")
  /\ UNCHANGED users

\* The partial unique index over the user names of active accounts.
NotTaken(name, excludeId) == FALSE                    \* Variation: without the index
UsernameTaken(name, excludeId) == activeUsernameExists(users, name, excludeId)

Insert(r) ==
  /\ req[r].pc = "insert"
  /\ \/ /\ UsernameTaken(req[r].username, None)
        /\ Answer(r, "conflict") /\ UNCHANGED users
     \/ /\ ~UsernameTaken(req[r].username, None)
        /\ \E u \in User :
              /\ users[u] = NoAccount
              /\ users' = [users EXCEPT ![u] =
                    Account(req[r].username, req[r].level, req[r].word, FALSE)]
        /\ Answer(r, "success")

-----------------------------------------------------------------------------
(* Changing and removing an account: one Serializable transaction.         *)

Begin(r) ==
  /\ req[r].pc = "begin"
  /\ req' = [req EXCEPT ![r].pc = "body", ![r].snap = users]
  /\ UNCHANGED <<users, doomed>>

Permitted(r) ==
  LET db == req[r].snap   u == req[r].target IN
  /\ u \in Active(db)
  /\ req[r].op = "update" => ~activeUsernameExists(db, req[r].username, u)
  /\ ensureAdminRemains(db, u, req[r].level)

\* The count reads every row, as a new admin could be any.
Reads(r) ==
  IF CountsAdmins(req[r].snap, req[r].target, req[r].level) THEN User ELSE {req[r].target}

RepeatableRead == "RepeatableRead"                    \* Variation: snapshots alone
ReadCommitted == "ReadCommitted"                      \* Variation: the database's default
isolationLevel == "Serializable"

\* A row that both write; a row that each reads and the other writes.
RowChanged(r, u) == isolationLevel # "ReadCommitted" /\ req[r].target = u
WriteSkew(r, read, u) ==
  isolationLevel = "Serializable" /\ u \in Reads(r) /\ req[r].target \in read

\* The transactions under way that cannot follow one that reads and writes this.
Clash(read, u) ==
  {q \in Request : req[q].pc = "body" /\ (RowChanged(q, u) \/ WriteSkew(q, read, u))}

Refuse(r) == req[r].pc = "body" /\ ~Permitted(r) /\ Answer(r, "refused") /\ UNCHANGED users

\* P2034, or P2002 from the index: 409, and nobody tries again.
Conflict(r) ==
  /\ req[r].pc = "body" /\ Permitted(r)
  /\ \/ r \in doomed
     \/ req[r].op = "update" /\ UsernameTaken(req[r].username, req[r].target)
  /\ Answer(r, "conflict") /\ UNCHANGED users

Commit(r) ==
  LET u == req[r].target IN
  /\ req[r].pc = "body" /\ Permitted(r) /\ r \notin doomed
  /\ \/ /\ req[r].op = "update" /\ ~UsernameTaken(req[r].username, u)
        /\ users' = [users EXCEPT ![u] =
              IF req[r].word = None
              THEN [@ EXCEPT !.username = req[r].username, !.level = req[r].level]
              ELSE Account(req[r].username, req[r].level, req[r].word, FALSE)]
     \/ /\ req[r].op = "remove"
        /\ users' = [users EXCEPT ![u].status = "delete"]
  /\ req' = [req EXCEPT ![r] = Done("success")]
  /\ doomed' = (doomed \cup Clash(Reads(r), u)) \ {r}

-----------------------------------------------------------------------------
(* Signing in: the row is read, its password compared, and a plain-text one *)
(* that matches is hashed and stored, by id, long after it was read.        *)

NeverHash(u) == FALSE                                 \* Variation: every sign-in rehashes
isPasswordHash(u) == ~users[u].plain

verifyPassword(u, name, word) ==
  u \in Active(users) /\ users[u].username = name /\ users[u].word = word

SignIn(r, name, word) ==
  /\ \/ \E u \in User :
          /\ verifyPassword(u, name, word)
          /\ Arrive(r, IF isPasswordHash(u) THEN Done("success")
                       ELSE [Idle EXCEPT !.pc = "rehash", !.op = "signIn", !.target = u,
                                         !.word = word])
     \/ /\ \A u \in User : ~verifyPassword(u, name, word)
        /\ Arrive(r, Done("refused"))
  /\ UNCHANGED <<users, doomed>>

\* A single statement: it fails the transactions about to write the row.
Rehash(r) ==
  LET u == req[r].target IN
  /\ req[r].pc = "rehash"
  /\ users' = [users EXCEPT ![u].word = req[r].word, ![u].plain = FALSE]
  /\ req' = [req EXCEPT ![r] = Done("success")]
  /\ doomed' = doomed \cup {q \in Request : req[q].pc = "body" /\ RowChanged(q, u)}

-----------------------------------------------------------------------------
(* The offline bootstrap: it locks the table and refuses a nonempty one.   *)

EmptyTable == \A u \in User : users[u] = NoAccount

createFirstAdmin(name, word) ==
  /\ EmptyTable
  /\ \E u \in User : users' = [users EXCEPT ![u] = Account(name, "admin", word, FALSE)]
  /\ UNCHANGED <<req, doomed>>

\* A new database, or one with an admin from before passwords were hashed.
Init ==
  /\ \/ users = [u \in User |-> NoAccount]
     \/ \E old \in User, name \in Username :
           users = [u \in User |-> IF u = old THEN Account(name, "admin", OldPassword, TRUE)
                                    ELSE NoAccount]
  /\ req = [r \in Request |-> Idle]
  /\ doomed = {}

Call(r, caller) ==
  \/ \E name \in Username, level \in Submitted, word \in Password :
        Create(r, caller, name, level, word)
  \/ \E u \in User, name \in Username, level \in Submitted, word \in Password \cup {None} :
        Update(r, caller, u, name, level, word)
  \/ \E u \in User : Remove(r, caller, u)

Handle(r) ==
  \/ Check(r) \/ Insert(r) \/ Begin(r) \/ Refuse(r) \/ Conflict(r) \/ Commit(r)
  \/ Rehash(r)

Next ==
  \/ \E r \in Request, caller \in User : Call(r, caller)
  \/ \E r \in Request : Handle(r)
  \/ \E r \in Request, name \in Username, word \in Password : SignIn(r, name, word)
  \/ \E name \in Username, word \in Password : createFirstAdmin(name, word)

Spec == Init /\ [][Next]_vars

-----------------------------------------------------------------------------
\* Rows and handler states keep their types: only real levels are ever stored.
TypeOK ==
  /\ users \in [User -> UserRow]
  /\ req \in [Request -> HandlerState]
  /\ doomed \subseteq Request

\* As long as there are accounts at all, one of them is an active admin, even when
\* the last two admins remove or demote each other at the same moment.
AdminRemains == EmptyTable \/ ActiveAdmins(users) # {}

\* Two active accounts never share the name they sign in with, although the check
\* for a free name runs long before the insert.
UsernamesDiffer ==
  \A u, v \in Active(users) : users[u].username = users[v].username => u = v

\* A removed account is never changed again: an edit that found it active fails if
\* the removal commits first, instead of being confirmed.  (A sign-in under way may
\* still hash its old password, which nobody can use.)
Identity(row) == <<row.status, row.username, row.level>>
RemovedKept ==
  \A u \in User : users[u].status = "delete" => Identity(users'[u]) = Identity(users[u])
RemovedStaysRemoved == [][RemovedKept]_users

\* Once stored as a hash, a password is never plain text again, and it changes to
\* what an admin's update asks for only.  The one exception is the account whose
\* plain-text password a sign-in was still hashing when it was changed.
PasswordKept(u) ==
  /\ users'[u].plain => users[u].plain
  /\ users'[u].word # users[u].word =>
       \E r \in Request :
          /\ req[r].target = u /\ req[r].word = users'[u].word
          /\ req'[r].answer = "success"
          /\ req[r].op = "update" \/ users'[u].word = OldPassword
PasswordsAreKept == [][\A u \in Active(users) : PasswordKept(u)]_vars
=============================================================================
