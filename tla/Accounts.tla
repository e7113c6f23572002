------------------------------ MODULE Accounts ------------------------------
(***************************************************************************)
(* Accounts and the sessions of those who are signed in (http/router.go,    *)
(* http/auth_password.go, http/admin_users.go, middleware/auth.go, the       *)
(* sessions part of maintenance/cleanup.go and cmd/create-admin).            *)
(*                                                                          *)
(* No transaction is used: every statement commits by itself, and a request *)
(* is a few of them with anything in between.  What a request asks for is   *)
(* chosen where it is used first.                                           *)
(***************************************************************************)

CONSTANTS
    User,       \* ids
    Password,
    Session,    \* rows of the table sessions
    Request,    \* requests served at the same time
    None

VARIABLES
    users,      \* table users, or None; rows are never deleted
    sessions,   \* table sessions, or None
    req,        \* what each request is doing
    origin,     \* history: the password a session was made with, None if by a late login
    late,       \* history: logins in flight when their account was changed
    forsaken,   \* history: accounts whose sessions were to be deleted and were not
    strained    \* history: an administrator was removed by a patch, or two at once

excuses == <<forsaken, strained>>
vars == <<users, sessions, req, origin, late, excuses>>

-----------------------------------------------------------------------------
Role == {"user", "admin"}

(* password_hash, role and is_active; a hash stands for its password.       *)
UserRow == [password : Password, role : Role, active : BOOLEAN]
SessionRow == [user : User, live : BOOLEAN]

Ops == {"login", "changeOwnPassword", "createUser", "patchUser", "deleteUser", "changeUserPassword"}
Steps == {"insert", "verify", "read", "write", "purge"}

(* item: the account it is about; word: the password of a login; role and   *)
(* active: what a patch will write.                                         *)
Task == [op : Ops, pc : Steps, item : User \cup {None}, word : Password \cup {None},
         role : Role \cup {None}, active : BOOLEAN \cup {None}]

At(r, op, pc) == req[r] # None /\ req[r].op = op /\ req[r].pc = pc

Become(r, t) == req' = [req EXCEPT ![r] = t]

Begin(r, op, pc, u, p) ==
    /\ req[r] = None
    /\ Become(r, [op |-> op, pc |-> pc, item |-> u, word |-> p, role |-> None, active |-> None])

Proceed(r, pc) == Become(r, [req[r] EXCEPT !.pc = pc])

End(r) == Become(r, None)

-----------------------------------------------------------------------------
Born == {u \in User : users[u] # None}
Active == {u \in Born : users[u].active}
Admins == {u \in Active : users[u].role = "admin"}
Open == {s \in Session : sessions[s] # None}

(* The query of RequireAuth finds a session of u.                           *)
SignedIn(u) == u \in Active /\ \E s \in Open : sessions[s].user = u /\ sessions[s].live

(* RequireAuth and RequireAdmin let a pass.                                 *)
Admitted(a) == SignedIn(a) /\ a \in Admins

Remove(S) ==
    /\ sessions' = [s \in Session |-> IF s \in S THEN None ELSE sessions[s]]
    /\ origin' = [s \in Session |-> IF s \in S THEN None ELSE origin[s]]

OfUser(u) == {s \in Open : sessions[s].user = u}

Init ==
    /\ users = [u \in User |-> None]
    /\ sessions = [s \in Session |-> None]
    /\ req = [r \in Request |-> None]
    /\ origin = [s \in Session |-> None]
    /\ late = {}
    /\ forsaken = {}
    /\ strained = FALSE

-----------------------------------------------------------------------------
(* Sessions.                                                                *)

(* Not the code: the query does not ask for is_active.                      *)
BugInactiveToo(u, p) == u \in Born /\ users[u].password = p

Credentials(u, p) == u \in Active /\ users[u].password = p

Login(r, u, p) ==
    /\ Credentials(u, p)
    /\ Begin(r, "login", "insert", u, p)
    /\ UNCHANGED <<users, sessions, origin, excuses>>

InsertSession(r) ==
    /\ At(r, "login", "insert")
    /\ \E s \in Session \ Open :
         /\ sessions' = [sessions EXCEPT ![s] = [user |-> req[r].item, live |-> TRUE]]
         /\ origin' = [origin EXCEPT ![s] = IF r \in late THEN None ELSE req[r].word]
    /\ End(r)
    /\ UNCHANGED <<users, excuses>>

(* A cookie is all it takes: logout is not behind RequireAuth.              *)
Logout(s) ==
    /\ s \in Open
    /\ Remove({s})
    /\ UNCHANGED <<users, req, excuses>>

(* expires_at passes.                                                       *)
Expire(s) ==
    /\ s \in Open /\ sessions[s].live
    /\ sessions' = [sessions EXCEPT ![s].live = FALSE]
    /\ UNCHANGED <<users, req, origin, excuses>>

(* The first statement of the cleanup's runOnce.                            *)
DeleteExpired ==
    /\ \E s \in Open : ~sessions[s].live
    /\ Remove({s \in Open : ~sessions[s].live})
    /\ UNCHANGED <<users, req, excuses>>

-----------------------------------------------------------------------------
(* Accounts.                                                                *)

StartChangeOwnPassword(r, u) ==
    /\ SignedIn(u)
    /\ Begin(r, "changeOwnPassword", "verify", u, None)
    /\ UNCHANGED <<users, sessions, origin, excuses>>

(* The current password given is the right one.                             *)
VerifyCurrent(r) ==
    /\ At(r, "changeOwnPassword", "verify")
    /\ req[r].item \in Active
    /\ Proceed(r, "write")
    /\ UNCHANGED <<users, sessions, origin, excuses>>

StartChangeUserPassword(r, a, u) ==
    /\ Admitted(a) /\ u \in Born
    /\ Begin(r, "changeUserPassword", "write", u, None)
    /\ UNCHANGED <<users, sessions, origin, excuses>>

(* Whether or not the account is active, or its password still the verified *)
(* one.                                                                     *)
WritePassword(r) ==
    /\ At(r, "changeOwnPassword", "write") \/ At(r, "changeUserPassword", "write")
    /\ \E p \in Password : users' = [users EXCEPT ![req[r].item].password = p]
    /\ Proceed(r, "purge")
    /\ UNCHANGED <<sessions, origin, excuses>>

(* Not the code: an administrator may name its own account.                 *)
BugSelfToo(a, u) == Admitted(a) /\ u \in Born

MayDelete(a, u) == Admitted(a) /\ u \in Born /\ u # a

StartDeleteUser(r, a, u) ==
    /\ MayDelete(a, u)
    /\ Begin(r, "deleteUser", "write", u, None)
    /\ strained' = (strained \/ \E q \in Request : At(q, "deleteUser", "write"))
    /\ UNCHANGED <<users, sessions, origin, forsaken>>

Deactivate(r) ==
    /\ At(r, "deleteUser", "write")
    /\ users' = [users EXCEPT ![req[r].item].active = FALSE]
    /\ Proceed(r, "purge")
    /\ UNCHANGED <<sessions, origin, excuses>>

StartPatchUser(r, a, u) ==
    /\ Admitted(a) /\ u \in Born
    /\ Begin(r, "patchUser", "read", u, None)
    /\ UNCHANGED <<users, sessions, origin, excuses>>

(* fetchUserByID; what is not asked for (None) stays as it is read here.    *)
ReadUser(r) ==
    /\ At(r, "patchUser", "read")
    /\ \E role \in Role \cup {None}, active \in BOOLEAN \cup {None} :
         LET row == users[req[r].item] IN
           Become(r, [req[r] EXCEPT
               !.pc = "write",
               !.role = IF role = None THEN row.role ELSE role,
               !.active = IF active = None THEN row.active ELSE active])
    /\ UNCHANGED <<users, sessions, origin, excuses>>

Patched(r) ==
    [users EXCEPT ![req[r].item].role = req[r].role, ![req[r].item].active = req[r].active]

WriteUser(r) ==
    /\ At(r, "patchUser", "write")
    /\ users' = Patched(r)
    /\ IF req[r].active THEN End(r) ELSE Proceed(r, "purge")
    /\ strained' = (strained \/ req[r].item \in Admins \ Admins')
    /\ UNCHANGED <<sessions, origin, forsaken>>

(* DELETE FROM sessions WHERE user_id.                                      *)
Purge(r) ==
    /\ req[r] # None /\ req[r].pc = "purge"
    /\ Remove(OfUser(req[r].item))
    /\ End(r)
    /\ forsaken' = forsaken \ {req[r].item}
    /\ UNCHANGED <<users, strained>>

StartCreateUser(r, a) ==
    /\ Admitted(a)
    /\ Begin(r, "createUser", "insert", None, None)
    /\ UNCHANGED <<users, sessions, origin, excuses>>

InsertUser(r) ==
    /\ At(r, "createUser", "insert")
    /\ \E u \in User \ Born, row \in UserRow : users' = [users EXCEPT ![u] = row]
    /\ End(r)
    /\ UNCHANGED <<sessions, origin, excuses>>

(* The command create-admin.                                                *)
CreateAdmin(u, p) ==
    /\ u \notin Born
    /\ users' = [users EXCEPT ![u] = [password |-> p, role |-> "admin", active |-> TRUE]]
    /\ UNCHANGED <<sessions, req, origin, excuses>>

-----------------------------------------------------------------------------
(* A check refuses, the user name is taken, a statement fails (the error of *)
(* the last DELETE is ignored), or the client or the process is gone.       *)
GiveUp(r) ==
    /\ req[r] # None
    /\ End(r)
    /\ forsaken' = forsaken \cup (IF req[r].pc = "purge" THEN {req[r].item} ELSE {})
    /\ UNCHANGED <<users, sessions, origin, strained>>

(* Accounts that a step gives another password or takes out of service.     *)
Changed ==
    {u \in Born : \/ users'[u].password # users[u].password
                  \/ users[u].active /\ ~users'[u].active}

Witness ==
    late' = {r \in Request : /\ req'[r] # None /\ req'[r].op = "login"
                             /\ r \in late \/ req'[r].item \in Changed}

RequestStep(r) ==
    \/ \E u \in User, p \in Password : Login(r, u, p)
    \/ InsertSession(r)
    \/ \E u \in User : StartChangeOwnPassword(r, u)
    \/ VerifyCurrent(r) \/ WritePassword(r)
    \/ \E a, u \in User : \/ StartChangeUserPassword(r, a, u)
                          \/ StartDeleteUser(r, a, u)
                          \/ StartPatchUser(r, a, u)
    \/ Deactivate(r) \/ ReadUser(r) \/ WriteUser(r) \/ Purge(r)
    \/ \E a \in User : StartCreateUser(r, a)
    \/ InsertUser(r)
    \/ GiveUp(r)

Surroundings ==
    \/ \E s \in Session : Logout(s) \/ Expire(s)
    \/ DeleteExpired
    \/ \E u \in User, p \in Password : CreateAdmin(u, p)

Next == ((\E r \in Request : RequestStep(r)) \/ Surroundings) /\ Witness

Spec == Init /\ [][Next]_vars

-----------------------------------------------------------------------------
TypeOK ==
    /\ users \in [User -> UserRow \cup {None}]
    /\ sessions \in [Session -> SessionRow \cup {None}]
    /\ req \in [Request -> Task \cup {None}]
    /\ origin \in [Session -> Password \cup {None}]
    /\ late \subseteq Request
    /\ forsaken \subseteq User
    /\ strained \in BOOLEAN

(* The sessions of u are about to be deleted.                               *)
PurgeDue(u) == \E r \in Request : req[r] # None /\ req[r].pc = "purge" /\ req[r].item = u

(* Whoever has a session gave the password that the account has now, and    *)
(* the account is in service: a change of password or a deactivation, by    *)
(* whichever of the four requests, leaves no older session.  Excepted are   *)
(* logins in flight at the change, and the time until the sessions are      *)
(* deleted, which is for ever if that statement fails or is never made.     *)
SessionsEarned ==
    \A s \in Open :
      LET u == sessions[s].user IN
        origin[s] # None =>
          \/ u \in Active /\ users[u].password = origin[s]
          \/ PurgeDue(u)
          \/ u \in forsaken

(* Once there are accounts, there is an administrator in service, as long   *)
(* as administrators are removed by deleteUser, one at a time: no patch     *)
(* removes one, not even with what it had read before.                      *)
AdminRemains == Born # {} /\ ~strained => Admins # {}
=============================================================================
