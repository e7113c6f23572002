--------------------------- MODULE Accounts_proofs ---------------------------
(***************************************************************************)
(* Theorems about Accounts for any users, passwords, sessions and requests, *)
(* whose variables and constants are those of MCTables.                     *)
(***************************************************************************)
EXTENDS MCTables, TLAPS

USE UserAssumption, AccountsAssumption

(* What a task names is there, and fits its operation and step.             *)
Sound(t) ==
    /\ t.op = "createUser" => t.pc = "insert" /\ A!Born # {}
    /\ t.op # "createUser" => t.item \in A!Born
    /\ t.op = "login" => t.pc = "insert" /\ t.word \in Password
    /\ t.op = "patchUser" /\ t.pc = "write" => t.role \in A!Role /\ t.active \in BOOLEAN

Placed ==
    /\ \A s \in A!Open : sessions[s].user \in A!Born
    /\ \A r \in Request : acting[r] # None => Sound(acting[r])

-----------------------------------------------------------------------------
(* Types.                                                                   *)

(* What a step leaves of the tables and the history.                        *)
Tables ==
    /\ users \in [User -> A!UserRow \cup {None}]
    /\ sessions \in [Session -> A!SessionRow \cup {None}]
    /\ origin \in [Session -> Password \cup {None}]
    /\ forsaken \subseteq User
    /\ strained \in BOOLEAN
    /\ \A s \in A!Open : sessions[s].user \in A!Born

(* A step of one request leaves the others' tasks sound.                    *)
LEMMA TaskStep ==
  ASSUME A!TypeOK, Placed, NEW r \in Request, NEW t \in A!Task \cup {None}, A!Become(r, t),
         A!Born \subseteq A!Born', t # None => Sound(t)
  PROVE  /\ acting' \in [Request -> A!Task \cup {None}]
         /\ \A q \in Request : acting'[q] # None => Sound(acting[q])'
  <1>1. /\ acting' \in [Request -> A!Task \cup {None}]
        /\ acting'[r] = t
        /\ \A q \in Request \ {r} : acting'[q] = acting[q]
    BY DEF A!Become, A!TypeOK
  <1>2. ASSUME NEW q \in Request, acting'[q] # None PROVE Sound(acting[q])'
    <2>1. CASE q = r
      BY <1>1, <1>2, <2>1 DEF Sound
    <2>2. CASE q # r
      <3>1. acting'[q] = acting[q] /\ Sound(acting[q])
        BY <1>1, <1>2, <2>2 DEF Placed
      <3> QED
        BY <3>1 DEF Sound
    <2> QED
      BY <2>1, <2>2
  <1> QED
    BY <1>1, <1>2

(* A request that begins.                                                   *)
LEMMA BeginStep ==
  ASSUME A!TypeOK, Placed, NEW r \in Request, NEW op \in A!Ops, NEW pc \in A!Steps,
         NEW u \in User \cup {None}, NEW p \in Password \cup {None}, A!Begin(r, op, pc, u, p),
         op = "createUser" \/ u \in A!Born, op = "createUser" => pc = "insert" /\ A!Born # {},
         op = "login" => pc = "insert" /\ p \in Password, op = "patchUser" => pc = "read",
         UNCHANGED <<users, sessions, origin>>, forsaken' = forsaken, strained' \in BOOLEAN
  PROVE  /\ Tables'
         /\ acting' \in [Request -> A!Task \cup {None}]
         /\ \A q \in Request : acting'[q] # None => Sound(acting[q])'
  <1> DEFINE t == [op |-> op, pc |-> pc, item |-> u, word |-> p, role |-> None, active |-> None]
  <1>1. t \in A!Task
    BY DEF A!Task
  <1>2. Sound(t)
    BY DEF Sound
  <1>3. A!Become(r, t) /\ A!Born' = A!Born /\ A!Open' = A!Open
    BY DEF A!Begin, A!Born, A!Open
  <1> HIDE DEF t
  <1>4. Tables'
    BY <1>3 DEF Tables, A!TypeOK, Placed
  <1> QED
    BY <1>1, <1>2, <1>3, <1>4, TaskStep

(* A request that goes on to another step, or ends.                         *)
LEMMA ProceedStep ==
  ASSUME A!TypeOK, Placed, NEW r \in Request, acting[r] # None, A!Born \subseteq A!Born',
         \/ A!End(r)
         \/ \E pc \in {"write", "purge"} :
              /\ A!Proceed(r, pc)
              /\ acting[r].op \notin {"login", "createUser"}
              /\ acting[r].op = "patchUser" => acting[r].pc = "write"
  PROVE  /\ acting' \in [Request -> A!Task \cup {None}]
         /\ \A q \in Request : acting'[q] # None => Sound(acting[q])'
  <1>1. CASE A!End(r)
    BY <1>1, TaskStep DEF A!End
  <1>2. ASSUME NEW pc \in {"write", "purge"}, A!Proceed(r, pc),
               acting[r].op \notin {"login", "createUser"},
               acting[r].op = "patchUser" => acting[r].pc = "write"
        PROVE  /\ acting' \in [Request -> A!Task \cup {None}]
               /\ \A q \in Request : acting'[q] # None => Sound(acting[q])'
    <2> DEFINE t == [acting[r] EXCEPT !.pc = pc]
    <2>1. acting[r] \in A!Task /\ Sound(acting[r])
      BY DEF A!TypeOK, Placed
    <2>2. t \in A!Task
      BY <2>1 DEF A!Task, A!Steps
    <2>3. /\ t.op = acting[r].op /\ t.pc = pc /\ t.item = acting[r].item /\ t.word = acting[r].word
          /\ t.role = acting[r].role /\ t.active = acting[r].active
      BY <2>1 DEF A!Task
    <2>4. A!Become(r, t)
      BY <1>2 DEF A!Proceed
    <2> HIDE DEF t
    <2>5. Sound(t)
      BY <1>2, <2>1, <2>3 DEF Sound
    <2> QED
      BY <2>2, <2>4, <2>5, TaskStep
  <1> QED
    BY <1>1, <1>2

(* Removed sessions.                                                        *)
LEMMA RemoveStep ==
  ASSUME A!TypeOK, Placed, NEW S, A!Remove(S), users' = users
  PROVE  /\ sessions' \in [Session -> A!SessionRow \cup {None}]
         /\ origin' \in [Session -> Password \cup {None}]
         /\ A!Open' = A!Open \ S
         /\ \A s \in A!Open' : sessions'[s] = sessions[s] /\ origin'[s] = origin[s]
         /\ \A s \in A!Open' : sessions'[s].user \in A!Born'
  <1>1. /\ sessions' \in [Session -> A!SessionRow \cup {None}]
        /\ origin' \in [Session -> Password \cup {None}]
        /\ A!Open' = A!Open \ S
        /\ \A s \in A!Open' : sessions'[s] = sessions[s] /\ origin'[s] = origin[s]
    BY DEF A!Remove, A!TypeOK, A!Open
  <1>2. A!Born' = A!Born
    BY DEF A!Born
  <1> QED
    BY <1>1, <1>2 DEF Placed

(* One account's row changes.                                               *)
LEMMA RowStep ==
  ASSUME A!TypeOK, Placed, NEW u \in User, NEW row \in A!UserRow,
         users' = [users EXCEPT ![u] = row], UNCHANGED <<sessions, origin, forsaken>>,
         strained' \in BOOLEAN
  PROVE  Tables' /\ A!Born' = A!Born \cup {u}
  <1>1. users' \in [User -> A!UserRow \cup {None}]
    BY DEF A!TypeOK
  <1>2. A!Born' = A!Born \cup {u} /\ A!Open' = A!Open
    BY DEF A!TypeOK, A!Born, A!Open
  <1> QED
    BY <1>1, <1>2 DEF Tables, A!TypeOK, Placed

Kept == /\ Tables
        /\ acting \in [Request -> A!Task \cup {None}]
        /\ \A q \in Request : acting[q] # None => Sound(acting[q])

(* The three writes to the row of an account.                               *)
LEMMA RowWrite ==
  ASSUME A!TypeOK, Placed, NEW r \in Request, A!WritePassword(r) \/ A!Deactivate(r) \/ A!WriteUser(r)
  PROVE  /\ acting[r] # None /\ acting[r].item \in A!Born /\ acting[r].item \in User
         /\ \E row \in A!UserRow :
              /\ users' = [users EXCEPT ![acting[r].item] = row]
              /\ A!WritePassword(r) => row.role = users[acting[r].item].role
                                     /\ row.active = users[acting[r].item].active
              /\ A!Deactivate(r) => row.active = FALSE
              /\ A!WriteUser(r) => row.active = acting[r].active
                                 /\ row.password = users[acting[r].item].password
  <1> DEFINE i == acting[r].item
             Good(row) ==
              /\ users' = [users EXCEPT ![i] = row]
              /\ A!WritePassword(r) => row.role = users[i].role /\ row.active = users[i].active
              /\ A!Deactivate(r) => row.active = FALSE
              /\ A!WriteUser(r) => row.active = acting[r].active /\ row.password = users[i].password
  <1>1. acting[r] # None /\ acting[r] \in A!Task /\ Sound(acting[r])
    BY DEF A!TypeOK, Placed, A!WritePassword, A!Deactivate, A!WriteUser, A!At
  <1>2. i \in A!Born /\ i \in User
    BY <1>1 DEF A!WritePassword, A!Deactivate, A!WriteUser, A!At, Sound, A!Born
  <1>3. users[i] \in A!UserRow
    BY <1>2 DEF A!Born, A!TypeOK
  <1>4. CASE A!WritePassword(r)
    <2>1. PICK p \in Password : users' = [users EXCEPT ![i].password = p]
      BY <1>4 DEF A!WritePassword
    <2> DEFINE row == [users[i] EXCEPT !.password = p]
    <2>2. row \in A!UserRow /\ row.role = users[i].role /\ row.active = users[i].active
      BY <1>3 DEF A!UserRow
    <2>3. users' = [users EXCEPT ![i] = row]
      BY <2>1
    <2>4. ~A!Deactivate(r) /\ ~A!WriteUser(r)
      BY <1>4 DEF A!WritePassword, A!Deactivate, A!WriteUser, A!At
    <2> HIDE DEF row, i
    <2>5. Good(row)
      BY <1>4, <2>2, <2>3, <2>4
    <2> QED
      BY <1>1, <1>2, <2>2, <2>5 DEF i
  <1>5. CASE A!Deactivate(r)
    <2> DEFINE row == [users[i] EXCEPT !.active = FALSE]
    <2>2. row \in A!UserRow /\ row.active = FALSE
      BY <1>3 DEF A!UserRow
    <2>3. users' = [users EXCEPT ![i] = row]
      BY <1>5 DEF A!Deactivate
    <2>4. ~A!WritePassword(r) /\ ~A!WriteUser(r)
      BY <1>5 DEF A!WritePassword, A!Deactivate, A!WriteUser, A!At
    <2> HIDE DEF row, i
    <2>5. Good(row)
      BY <1>5, <2>2, <2>3, <2>4
    <2> QED
      BY <1>1, <1>2, <2>2, <2>5 DEF i
  <1>6. CASE A!WriteUser(r)
    <2> DEFINE row == [users[i] EXCEPT !.role = acting[r].role, !.active = acting[r].active]
    <2>1. acting[r].role \in A!Role /\ acting[r].active \in BOOLEAN
      BY <1>1, <1>6 DEF A!WriteUser, A!At, Sound
    <2>2. row \in A!UserRow /\ row.active = acting[r].active /\ row.password = users[i].password
      BY <1>3, <2>1 DEF A!UserRow
    <2>3. users' = [users EXCEPT ![i] = row]
      BY <1>2, <1>6 DEF A!WriteUser, A!Patched, A!TypeOK
    <2>4. ~A!WritePassword(r) /\ ~A!Deactivate(r)
      BY <1>6 DEF A!WritePassword, A!Deactivate, A!WriteUser, A!At
    <2> HIDE DEF row, i
    <2>5. Good(row)
      BY <1>6, <2>2, <2>3, <2>4
    <2> QED
      BY <1>1, <1>2, <2>2, <2>5 DEF i
  <1> QED
    BY <1>4, <1>5, <1>6

LEMMA RequestStepType ==
  ASSUME A!TypeOK, Placed, NEW r \in Request, A!RequestStep(r)
  PROVE  Kept'
  <1>t. acting[r] # None => acting[r] \in A!Task /\ Sound(acting[r])
    BY DEF A!TypeOK, Placed
  <1>1. ASSUME NEW u \in User, NEW p \in Password, A!Login(r, u, p) PROVE Kept'
    <2>1. u \in A!Born
      BY <1>1 DEF A!Login, A!Credentials, A!Active
    <2> QED
      BY <1>1, <2>1, BeginStep DEF A!Login, A!excuses, A!TypeOK, A!Ops, A!Steps, Kept
  <1>2. CASE A!InsertSession(r)
    <2>1. acting[r] \in A!Task /\ Sound(acting[r]) /\ acting[r].op = "login"
      BY <1>2, <1>t DEF A!InsertSession, A!At
    <2>2. acting[r].item \in A!Born /\ acting[r].item \in User /\ acting[r].word \in Password
      BY <2>1 DEF Sound, A!Born
    <2>3. PICK s \in Session \ A!Open :
            /\ sessions' = [sessions EXCEPT ![s] = [user |-> acting[r].item, live |-> TRUE]]
            /\ origin' = [origin EXCEPT ![s] = IF r \in late THEN None ELSE acting[r].word]
      BY <1>2 DEF A!InsertSession
    <2>4. [user |-> acting[r].item, live |-> TRUE] \in A!SessionRow
      BY <2>2 DEF A!SessionRow
    <2>5. /\ sessions' \in [Session -> A!SessionRow \cup {None}]
          /\ origin' \in [Session -> Password \cup {None}]
          /\ users' = users /\ A!Born' = A!Born /\ A!End(r)
          /\ forsaken' = forsaken /\ strained' = strained
      BY <1>2, <2>2, <2>3, <2>4 DEF A!TypeOK, A!InsertSession, A!excuses, A!Born
    <2>6. \A q \in A!Open' : sessions'[q].user \in A!Born'
      BY <2>2, <2>3, <2>5 DEF A!TypeOK, Placed, A!Open
    <2>7. Tables'
      BY <2>5, <2>6 DEF Tables, A!TypeOK
    <2> QED
      BY <2>1, <2>5, <2>7, ProceedStep DEF Kept
  <1>3. ASSUME NEW u \in User, A!StartChangeOwnPassword(r, u) PROVE Kept'
    <2>1. u \in A!Born
      BY <1>3 DEF A!StartChangeOwnPassword, A!SignedIn, A!Active
    <2> QED
      BY <1>3, <2>1, BeginStep DEF A!StartChangeOwnPassword, A!excuses, A!TypeOK, A!Ops, A!Steps, Kept
  <1>4. CASE A!VerifyCurrent(r)
    <2>1. A!Born' = A!Born /\ Tables'
      BY <1>4 DEF A!VerifyCurrent, A!excuses, A!Born, A!Open, Tables, A!TypeOK, Placed
    <2> QED
      BY <1>4, <2>1, ProceedStep DEF A!VerifyCurrent, A!At, Kept
  <1>5. CASE A!WritePassword(r)
    <2>1. UNCHANGED <<sessions, origin, forsaken>> /\ strained' \in BOOLEAN
      BY <1>5 DEF A!WritePassword, A!excuses, A!TypeOK
    <2>w. /\ acting[r] # None /\ acting[r].item \in User
          /\ \E row \in A!UserRow : users' = [users EXCEPT ![acting[r].item] = row]
      BY <1>5, RowWrite
    <2>2. Tables' /\ A!Born \subseteq A!Born' /\ acting[r] # None
      BY <2>1, <2>w, RowStep
    <2> QED
      BY <1>5, <2>2, ProceedStep DEF A!WritePassword, A!At, Kept
  <1>6. ASSUME NEW a \in User, NEW u \in User, A!StartChangeUserPassword(r, a, u) PROVE Kept'
    BY <1>6, BeginStep DEF A!StartChangeUserPassword, A!excuses, A!TypeOK, A!Ops, A!Steps, Kept
  <1>7. ASSUME NEW a \in User, NEW u \in User, A!StartDeleteUser(r, a, u) PROVE Kept'
    BY <1>7, BeginStep DEF A!StartDeleteUser, A!MayDelete, A!TypeOK, A!Ops, A!Steps, Kept
  <1>8. ASSUME NEW a \in User, NEW u \in User, A!StartPatchUser(r, a, u) PROVE Kept'
    BY <1>8, BeginStep DEF A!StartPatchUser, A!excuses, A!TypeOK, A!Ops, A!Steps, Kept
  <1>9. CASE A!Deactivate(r)
    <2>1. UNCHANGED <<sessions, origin, forsaken>> /\ strained' \in BOOLEAN
      BY <1>9 DEF A!Deactivate, A!excuses, A!TypeOK
    <2>w. /\ acting[r] # None /\ acting[r].item \in User
          /\ \E row \in A!UserRow : users' = [users EXCEPT ![acting[r].item] = row]
      BY <1>9, RowWrite
    <2>2. Tables' /\ A!Born \subseteq A!Born' /\ acting[r] # None
      BY <2>1, <2>w, RowStep
    <2> QED
      BY <1>9, <2>2, ProceedStep DEF A!Deactivate, A!At, Kept
  <1>10. CASE A!ReadUser(r)
    <2>1. acting[r] \in A!Task /\ acting[r].item \in A!Born /\ acting[r].item \in User /\ acting[r].op = "patchUser"
      BY <1>10, <1>t DEF A!ReadUser, A!At, Sound, A!Born
    <2>2. users[acting[r].item] \in A!UserRow
      BY <2>1 DEF A!Born, A!TypeOK
    <2>3. PICK role \in A!Role \cup {None}, active \in BOOLEAN \cup {None} :
            A!Become(r, [acting[r] EXCEPT
               !.pc = "write",
               !.role = IF role = None THEN users[acting[r].item].role ELSE role,
               !.active = IF active = None THEN users[acting[r].item].active ELSE active])
      BY <1>10 DEF A!ReadUser
    <2> DEFINE ro == IF role = None THEN users[acting[r].item].role ELSE role
               ac == IF active = None THEN users[acting[r].item].active ELSE active
               t == [acting[r] EXCEPT !.pc = "write", !.role = ro, !.active = ac]
    <2>4. ro \in A!Role /\ ac \in BOOLEAN
      BY <2>2 DEF A!UserRow
    <2> HIDE DEF ro, ac
    <2>5. t \in A!Task
      BY <2>1, <2>4 DEF A!Task, A!Steps
    <2>6. t.op = "patchUser" /\ t.item = acting[r].item /\ t.role = ro /\ t.active = ac
      BY <2>1 DEF A!Task
    <2>7. A!Become(r, t)
      BY <2>3 DEF ro, ac
    <2> HIDE DEF t
    <2>8. Sound(t)
      BY <2>1, <2>4, <2>6 DEF Sound
    <2>9. A!Born' = A!Born /\ Tables'
      BY <1>10 DEF A!ReadUser, A!excuses, A!Born, A!Open, Tables, A!TypeOK, Placed
    <2> QED
      BY <2>5, <2>7, <2>8, <2>9, TaskStep DEF Kept
  <1>11. CASE A!WriteUser(r)
    <2>1. UNCHANGED <<sessions, origin, forsaken>> /\ strained' \in BOOLEAN
      BY <1>11 DEF A!WriteUser, A!TypeOK
    <2>w. /\ acting[r] # None /\ acting[r].item \in User
          /\ \E row \in A!UserRow : users' = [users EXCEPT ![acting[r].item] = row]
      BY <1>11, RowWrite
    <2>2. Tables' /\ A!Born \subseteq A!Born' /\ acting[r] # None
      BY <2>1, <2>w, RowStep
    <2>3. A!End(r) \/ A!Proceed(r, "purge")
      BY <1>11 DEF A!WriteUser
    <2> QED
      BY <1>11, <2>2, <2>3, ProceedStep DEF A!WriteUser, A!At, Kept
  <1>12. CASE A!Purge(r)
    <2>1. A!Born' = A!Born /\ A!End(r) /\ acting[r] # None
      BY <1>12 DEF A!Purge, A!Born
    <2>2. Tables'
      BY <1>12, RemoveStep DEF A!Purge, Tables, A!TypeOK
    <2> QED
      BY <2>1, <2>2, ProceedStep DEF Kept
  <1>13. ASSUME NEW a \in User, A!StartCreateUser(r, a) PROVE Kept'
    <2>1. A!Born # {}
      BY <1>13 DEF A!StartCreateUser, A!Admitted, A!SignedIn, A!Active
    <2> QED
      BY <1>13, <2>1, BeginStep DEF A!StartCreateUser, A!excuses, A!TypeOK, A!Ops, A!Steps, Kept
  <1>14. CASE A!InsertUser(r)
    <2>1. PICK u \in User \ A!Born, row \in A!UserRow : users' = [users EXCEPT ![u] = row]
      BY <1>14 DEF A!InsertUser
    <2>2. Tables' /\ A!Born \subseteq A!Born'
      BY <1>14, <2>1, RowStep DEF A!InsertUser, A!excuses, A!TypeOK
    <2> QED
      BY <1>14, <2>2, ProceedStep DEF A!InsertUser, A!At, Kept
  <1>15. CASE A!GiveUp(r)
    <2>1. A!Born' = A!Born /\ A!End(r) /\ acting[r] # None
      BY <1>15 DEF A!GiveUp, A!Born
    <2>2. acting[r].pc = "purge" => acting[r].item \in User
      BY <2>1, <1>t DEF Sound, A!Born
    <2>3. Tables'
      BY <1>15, <2>1, <2>2 DEF A!GiveUp, Tables, A!TypeOK, Placed, A!Open
    <2> QED
      BY <2>1, <2>3, ProceedStep DEF Kept
  <1> QED
    BY <1>1, <1>2, <1>3, <1>4, <1>5, <1>6, <1>7, <1>8, <1>9, <1>10, <1>11, <1>12, <1>13, <1>14,
       <1>15 DEF A!RequestStep

LEMMA SurroundingsType ==
  ASSUME A!TypeOK, Placed, A!Surroundings
  PROVE  Kept'
  <1>o. ASSUME acting' = acting, A!Born \subseteq A!Born', Tables' PROVE Kept'
    BY <1>o DEF Kept, Sound, A!TypeOK, Placed
  <1>1. ASSUME NEW s \in Session, A!Logout(s) PROVE Kept'
    <2>1. A!Born' = A!Born /\ acting' = acting
      BY <1>1 DEF A!Logout, A!Born
    <2>2. Tables'
      BY <1>1, RemoveStep DEF A!Logout, A!excuses, Tables, A!TypeOK
    <2> QED
      BY <1>o, <2>1, <2>2
  <1>2. ASSUME NEW s \in Session, A!Expire(s) PROVE Kept'
    <2>1. A!Born' = A!Born /\ acting' = acting
      BY <1>2 DEF A!Expire, A!Born
    <2>2. sessions[s] \in A!SessionRow
      BY <1>2 DEF A!Expire, A!Open, A!TypeOK
    <2>3. [sessions[s] EXCEPT !.live = FALSE] \in A!SessionRow
      BY <2>2 DEF A!SessionRow
    <2>4. sessions' = [sessions EXCEPT ![s] = [sessions[s] EXCEPT !.live = FALSE]]
      BY <1>2 DEF A!Expire
    <2>5. sessions' \in [Session -> A!SessionRow \cup {None}]
      BY <2>3, <2>4 DEF A!TypeOK
    <2>6. \A q \in A!Open' : q \in A!Open /\ sessions'[q].user = sessions[q].user
      BY <1>2, <2>2, <2>4 DEF A!Expire, A!TypeOK, A!Open, A!SessionRow
    <2>7. Tables'
      BY <1>2, <2>1, <2>5, <2>6 DEF A!Expire, A!excuses, Tables, A!TypeOK, Placed
    <2> QED
      BY <1>o, <2>1, <2>7
  <1>3. CASE A!DeleteExpired
    <2>1. A!Born' = A!Born /\ acting' = acting
      BY <1>3 DEF A!DeleteExpired, A!Born
    <2>2. Tables'
      BY <1>3, RemoveStep DEF A!DeleteExpired, A!excuses, Tables, A!TypeOK
    <2> QED
      BY <1>o, <2>1, <2>2
  <1>4. ASSUME NEW u \in User, NEW p \in Password, A!CreateAdmin(u, p) PROVE Kept'
    <2>1. [password |-> p, role |-> "admin", active |-> TRUE] \in A!UserRow
      BY DEF A!UserRow, A!Role
    <2>2. Tables' /\ A!Born \subseteq A!Born' /\ acting' = acting
      BY <1>4, <2>1, RowStep DEF A!CreateAdmin, A!excuses, A!TypeOK
    <2> QED
      BY <1>o, <2>2
  <1> QED
    BY <1>1, <1>2, <1>3, <1>4 DEF A!Surroundings

LEMMA StepType == A!TypeOK /\ Placed /\ [A!Next]_(A!vars) => A!TypeOK' /\ Placed'
  <1> SUFFICES ASSUME A!TypeOK, Placed, [A!Next]_(A!vars) PROVE A!TypeOK' /\ Placed'
    OBVIOUS
  <1>1. CASE A!Next
    <2>1. Kept'
      BY <1>1, RequestStepType, SurroundingsType DEF A!Next
    <2>2. late' \subseteq Request
      BY <1>1 DEF A!Next, A!Witness
    <2> QED
      BY <2>1, <2>2 DEF Kept, Tables, A!TypeOK, Placed
  <1>2. CASE UNCHANGED A!vars
    BY <1>2 DEF A!vars, A!excuses, A!TypeOK, Placed, Sound, A!Born, A!Open
  <1> QED
    BY <1>1, <1>2

LEMMA InitType == A!Init => A!TypeOK /\ Placed
  BY DEF A!Init, A!TypeOK, Placed, A!Open

(* Rows, sessions and tasks keep their shape for any number of requests;    *)
(* in particular a patch never writes a role or a state it was not given.   *)
THEOREM TypeCorrect == A!Spec => []A!TypeOK
  BY InitType, StepType, PTL DEF A!Spec

-----------------------------------------------------------------------------
(* What a step does to the requests.                                        *)

LEMMA OthersStay ==
  ASSUME A!TypeOK, NEW r \in Request, A!RequestStep(r)
  PROVE  \A q \in Request \ {r} : acting'[q] = acting[q]
  <1>1. \E t : A!Become(r, t)
    BY DEF A!RequestStep, A!Login, A!InsertSession, A!StartChangeOwnPassword, A!VerifyCurrent, A!WritePassword,
           A!StartChangeUserPassword, A!StartDeleteUser, A!StartPatchUser, A!Deactivate, A!ReadUser, A!WriteUser,
           A!Purge, A!StartCreateUser, A!InsertUser, A!GiveUp, A!Begin, A!Proceed, A!End
  <1> QED
    BY <1>1 DEF A!Become, A!TypeOK

(* The task that a request has after its own step.                          *)
LEMMA OwnTask ==
  ASSUME A!TypeOK, NEW r \in Request, NEW t, A!Become(r, t)
  PROVE  acting'[r] = t
  BY DEF A!Become, A!TypeOK

LEMMA OwnBegin ==
  ASSUME A!TypeOK, NEW r \in Request, NEW op, NEW pc, NEW u, NEW p, A!Begin(r, op, pc, u, p)
  PROVE  /\ acting[r] = None
         /\ acting'[r].op = op /\ acting'[r].pc = pc /\ acting'[r].item = u /\ acting'[r].word = p
  BY OwnTask DEF A!Begin

LEMMA OwnProceed ==
  ASSUME A!TypeOK, NEW r \in Request, NEW pc \in A!Steps, acting[r] # None, A!Proceed(r, pc)
  PROVE  /\ acting'[r] # None
         /\ acting'[r].op = acting[r].op /\ acting'[r].pc = pc /\ acting'[r].item = acting[r].item
  <1>1. acting[r] \in A!Task
    BY DEF A!TypeOK
  <1>2. acting'[r] = [acting[r] EXCEPT !.pc = pc] /\ [acting[r] EXCEPT !.pc = pc] \in A!Task
    BY <1>1, OwnTask DEF A!Proceed, A!Task
  <1> QED
    BY <1>1, <1>2 DEF A!Task

LEMMA OwnEnd ==
  ASSUME A!TypeOK, NEW r \in Request, A!End(r)
  PROVE  acting'[r] = None
  BY OwnTask DEF A!End

LEMMA NewLogin ==
  ASSUME A!TypeOK, Placed, NEW r \in Request, A!RequestStep(r), acting'[r] # None, acting'[r].op = "login"
  PROVE  \E u \in User, p \in Password : A!Login(r, u, p)
  <1>1. ~A!End(r)
    BY OwnEnd
  <1>2. ASSUME NEW op, NEW pc, NEW u, NEW p, A!Begin(r, op, pc, u, p) PROVE op = "login"
    BY <1>2, OwnBegin
  <1>3. ASSUME NEW pc \in A!Steps, acting[r] # None, A!Proceed(r, pc) PROVE acting[r].op = "login"
    BY <1>3, OwnProceed
  <1>4. ~A!ReadUser(r)
    <2> SUFFICES ASSUME A!ReadUser(r) PROVE FALSE
      OBVIOUS
    <2>1. acting[r] \in A!Task /\ acting[r].op = "patchUser"
      BY DEF A!ReadUser, A!At, A!TypeOK
    <2>2. \A a, b : [acting[r] EXCEPT !.pc = "write", !.role = a, !.active = b].op = "patchUser"
      BY <2>1 DEF A!Task
    <2> QED
      BY <2>2, OwnTask DEF A!ReadUser
  <1>5. ~A!WriteUser(r) /\ ~A!Purge(r) /\ ~A!InsertUser(r) /\ ~A!GiveUp(r) /\ ~A!InsertSession(r)
    BY <1>1, <1>3 DEF A!WriteUser, A!At, A!Steps, A!Purge, A!InsertUser, A!GiveUp, A!InsertSession
  <1>6. ~A!VerifyCurrent(r) /\ ~A!WritePassword(r) /\ ~A!Deactivate(r)
    BY <1>3 DEF A!VerifyCurrent, A!WritePassword, A!Deactivate, A!At, A!Steps
  <1>7. \A a, u \in User : /\ ~A!StartChangeUserPassword(r, a, u) /\ ~A!StartDeleteUser(r, a, u)
                           /\ ~A!StartPatchUser(r, a, u) /\ ~A!StartChangeOwnPassword(r, u)
                           /\ ~A!StartCreateUser(r, a)
    BY <1>2 DEF A!StartChangeUserPassword, A!StartDeleteUser, A!StartPatchUser, A!StartChangeOwnPassword,
                A!StartCreateUser
  <1> QED
    BY <1>4, <1>5, <1>6, <1>7 DEF A!RequestStep

-----------------------------------------------------------------------------
(* Sessions.                                                                *)

(* A login that is not late may still insert its session.                   *)
FreshLogins ==
    \A r \in Request :
        A!At(r, "login", "insert") /\ r \notin late
          => acting[r].item \in A!Active /\ users[acting[r].item].password = acting[r].word

LEMMA Unchanged ==
  ASSUME NEW u \in A!Born \ A!Changed, u \in A!Born'
  PROVE  users'[u].password = users[u].password /\ (u \in A!Active => u \in A!Active')
  BY DEF A!Changed, A!Active, A!Born

(* How a step changes the table of accounts.                                *)
LEMMA UsersStep ==
  ASSUME A!TypeOK, Placed, A!Next
  PROVE  \/ users' = users
         \/ \E u \in User \ A!Born, row \in A!UserRow : users' = [users EXCEPT ![u] = row]
         \/ \E r \in Request : A!WritePassword(r) \/ A!Deactivate(r) \/ A!WriteUser(r)
  <1>1. ASSUME NEW u \in User, NEW p \in Password, A!CreateAdmin(u, p)
        PROVE  \E row \in A!UserRow : users' = [users EXCEPT ![u] = row] /\ u \notin A!Born
    <2>1. [password |-> p, role |-> "admin", active |-> TRUE] \in A!UserRow
      BY DEF A!UserRow, A!Role
    <2> QED
      BY <1>1, <2>1 DEF A!CreateAdmin
  <1>2. ASSUME A!Surroundings
        PROVE  \/ users' = users
               \/ \E u \in User \ A!Born, row \in A!UserRow : users' = [users EXCEPT ![u] = row]
    BY <1>1, <1>2 DEF A!Surroundings, A!Logout, A!Expire, A!DeleteExpired
  <1>3. ASSUME NEW r \in Request, A!RequestStep(r)
        PROVE  \/ users' = users
               \/ \E u \in User \ A!Born, row \in A!UserRow : users' = [users EXCEPT ![u] = row]
               \/ A!WritePassword(r) \/ A!Deactivate(r) \/ A!WriteUser(r)
    BY <1>3 DEF A!RequestStep, A!Login, A!InsertSession, A!StartChangeOwnPassword, A!VerifyCurrent,
                A!StartChangeUserPassword, A!StartDeleteUser, A!StartPatchUser, A!ReadUser, A!Purge,
                A!StartCreateUser, A!InsertUser, A!GiveUp
  <1> QED
    BY <1>2, <1>3 DEF A!Next

LEMMA BornStays ==
  ASSUME A!TypeOK, Placed, A!Next
  PROVE  A!Born \subseteq A!Born'
  <1>1. ASSUME NEW u \in User, NEW row \in A!UserRow, users' = [users EXCEPT ![u] = row]
        PROVE  A!Born \subseteq A!Born'
    BY <1>1 DEF A!Born, A!TypeOK
  <1>2. ASSUME users' = users PROVE A!Born \subseteq A!Born'
    BY <1>2 DEF A!Born
  <1>3. ASSUME NEW r \in Request, A!WritePassword(r) \/ A!Deactivate(r) \/ A!WriteUser(r)
        PROVE  A!Born \subseteq A!Born'
    <2>1. /\ acting[r].item \in User
          /\ \E row \in A!UserRow : users' = [users EXCEPT ![acting[r].item] = row]
      BY <1>3, RowWrite
    <2> QED
      BY <1>1, <2>1
  <1> QED
    BY <1>1, <1>2, <1>3, UsersStep

(* Whoever changes an account owes the deletion of its sessions.            *)
LEMMA ChangedDue ==
  ASSUME A!TypeOK, Placed, A!Next, NEW u \in A!Changed
  PROVE  A!PurgeDue(u)'
  <1>1. ASSUME NEW v \in User, NEW row \in A!UserRow, users' = [users EXCEPT ![v] = row]
        PROVE  u = v /\ u \in A!Born /\ users'[u] = row
    BY <1>1 DEF A!Changed, A!Born, A!TypeOK
  <1>2. PICK r \in Request : A!WritePassword(r) \/ A!Deactivate(r) \/ A!WriteUser(r)
    <2>1. users' # users
      BY DEF A!Changed
    <2>2. \A v \in User \ A!Born, row \in A!UserRow : users' # [users EXCEPT ![v] = row]
      BY <1>1
    <2> QED
      BY <2>1, <2>2, UsersStep
  <1>3. PICK row \in A!UserRow :
          /\ users' = [users EXCEPT ![acting[r].item] = row]
          /\ A!WriteUser(r) => row.active = acting[r].active
                             /\ row.password = users[acting[r].item].password
    BY <1>2, RowWrite
  <1>4. acting[r] # None /\ acting[r].item = u /\ users'[u] = row
    BY <1>1, <1>2, <1>3, RowWrite
  <1>5. A!WriteUser(r) => ~acting[r].active
    BY <1>3, <1>4 DEF A!Changed
  <1>6. A!Proceed(r, "purge")
    BY <1>2, <1>5 DEF A!WritePassword, A!Deactivate, A!WriteUser
  <1>7. acting'[r] # None /\ acting'[r].pc = "purge" /\ acting'[r].item = u
    BY <1>4, <1>6, OwnProceed DEF A!Steps
  <1> QED
    BY <1>7 DEF A!PurgeDue

LEMMA StepFresh ==
  ASSUME A!TypeOK, Placed, FreshLogins, A!Next
  PROVE  FreshLogins'
  <1> SUFFICES ASSUME NEW r \in Request, A!At(r, "login", "insert")', r \notin late'
               PROVE  (acting[r].item \in A!Active /\ users[acting[r].item].password = acting[r].word)'
    BY DEF FreshLogins
  <1>1. acting'[r] # None /\ acting'[r].op = "login" /\ acting'[r].pc = "insert"
    BY DEF A!At
  <1>2. r \notin late /\ acting'[r].item \notin A!Changed
    BY <1>1 DEF A!Next, A!Witness
  <1>3. CASE acting'[r] = acting[r]
    <2>1. acting[r].item \in A!Active /\ users[acting[r].item].password = acting[r].word
      BY <1>1, <1>2, <1>3 DEF FreshLogins, A!At
    <2>2. acting[r].item \in A!Born \ A!Changed /\ acting[r].item \in A!Born'
      BY <1>2, <1>3, <2>1, BornStays DEF A!Active
    <2>3. acting[r].item \in A!Active' /\ users'[acting[r].item].password = acting[r].word
      BY <2>1, <2>2, Unchanged
    <2> QED
      BY <1>3, <2>3
  <1>4. CASE acting'[r] # acting[r]
    <2>1. PICK q \in Request : A!RequestStep(q)
      BY <1>4 DEF A!Next, A!Surroundings, A!Logout, A!Expire, A!DeleteExpired, A!CreateAdmin
    <2>2. q = r
      BY <1>4, <2>1, OthersStay
    <2>3. PICK u \in User, p \in Password : A!Login(r, u, p)
      BY <1>1, <2>1, <2>2, NewLogin
    <2>4. acting'[r].item = u /\ acting'[r].word = p
      BY <2>3, OwnBegin DEF A!Login
    <2>5. u \in A!Active' /\ users'[u].password = p
      BY <2>3 DEF A!Login, A!Credentials, A!Active, A!Born
    <2> QED
      BY <2>4, <2>5
  <1> QED
    BY <1>3, <1>4

(* What becomes of a session that was there, and of the reasons it has.     *)
LEMMA OldSession ==
  ASSUME A!TypeOK, Placed, A!Next, NEW s \in A!Open', s \in A!Open
  PROVE  sessions'[s].user = sessions[s].user /\ origin'[s] = origin[s]
  <1>1. ASSUME NEW S, A!Remove(S)
        PROVE  sessions'[s].user = sessions[s].user /\ origin'[s] = origin[s]
    BY <1>1 DEF A!Remove, A!Open
  <1>2. ASSUME UNCHANGED <<sessions, origin>>
        PROVE  sessions'[s].user = sessions[s].user /\ origin'[s] = origin[s]
    BY <1>2
  <1>3. ASSUME NEW t \in Session, A!Expire(t)
        PROVE  sessions'[s].user = sessions[s].user /\ origin'[s] = origin[s]
    <2>1. sessions[s] \in A!SessionRow
      BY DEF A!Open, A!TypeOK
    <2> QED
      BY <1>3, <2>1 DEF A!Expire, A!SessionRow, A!TypeOK, A!Open
  <1>4. ASSUME NEW r \in Request, A!InsertSession(r)
        PROVE  sessions'[s].user = sessions[s].user /\ origin'[s] = origin[s]
    BY <1>4 DEF A!InsertSession, A!TypeOK
  <1>5. CASE A!Surroundings
    BY <1>1, <1>2, <1>3, <1>5 DEF A!Surroundings, A!Logout, A!DeleteExpired, A!CreateAdmin
  <1>6. ASSUME NEW r \in Request, A!RequestStep(r)
        PROVE  sessions'[s].user = sessions[s].user /\ origin'[s] = origin[s]
    BY <1>1, <1>2, <1>4, <1>6
       DEF A!RequestStep, A!Login, A!StartChangeOwnPassword, A!VerifyCurrent, A!WritePassword,
           A!StartChangeUserPassword, A!StartDeleteUser, A!StartPatchUser, A!Deactivate, A!ReadUser,
           A!WriteUser, A!Purge, A!StartCreateUser, A!InsertUser, A!GiveUp
  <1> QED
    BY <1>5, <1>6 DEF A!Next

LEMMA NewSession ==
  ASSUME A!TypeOK, Placed, A!Next, NEW s \in A!Open', s \notin A!Open
  PROVE  \E r \in Request : A!InsertSession(r)
  <1>1. ASSUME NEW S, A!Remove(S) PROVE FALSE
    BY <1>1 DEF A!Remove, A!Open
  <1>2. sessions' # sessions
    BY DEF A!Open
  <1>3. \A t \in Session : ~A!Expire(t)
    BY DEF A!Expire, A!Open, A!TypeOK
  <1> QED
    BY <1>1, <1>2, <1>3
       DEF A!Next, A!Surroundings, A!Logout, A!DeleteExpired, A!CreateAdmin,
           A!RequestStep, A!Login, A!StartChangeOwnPassword, A!VerifyCurrent, A!WritePassword,
           A!StartChangeUserPassword, A!StartDeleteUser, A!StartPatchUser, A!Deactivate, A!ReadUser,
           A!WriteUser, A!Purge, A!StartCreateUser, A!InsertUser, A!GiveUp

(* A deletion that is due stays due until it is made or forsaken.           *)
LEMMA DueStays ==
  ASSUME A!TypeOK, Placed, A!Next, NEW u, A!PurgeDue(u) \/ u \in forsaken
  PROVE  \/ A!PurgeDue(u)'
         \/ u \in forsaken'
         \/ \A s \in A!Open' : sessions'[s].user # u
  <1>p. ASSUME NEW r \in Request, A!Purge(r), acting[r].item = u
        PROVE  \A s \in A!Open' : sessions'[s].user # u
    BY <1>p DEF A!Purge, A!Remove, A!OfUser, A!Open
  <1>f. CASE u \in forsaken
    <2>1. forsaken' = forsaken \/ (\E r \in Request : A!GiveUp(r)) \/ (\E r \in Request : A!Purge(r))
      BY DEF A!Next, A!Surroundings, A!Logout, A!Expire, A!DeleteExpired, A!CreateAdmin, A!excuses,
             A!RequestStep, A!Login, A!InsertSession, A!StartChangeOwnPassword, A!VerifyCurrent, A!WritePassword,
             A!StartChangeUserPassword, A!StartDeleteUser, A!StartPatchUser, A!Deactivate, A!ReadUser,
             A!WriteUser, A!StartCreateUser, A!InsertUser
    <2> QED
      BY <1>f, <1>p, <2>1 DEF A!GiveUp, A!Purge
  <1>d. CASE A!PurgeDue(u)
    <2>1. PICK q \in Request : acting[q] # None /\ acting[q].pc = "purge" /\ acting[q].item = u
      BY <1>d DEF A!PurgeDue
    <2>2. CASE acting'[q] = acting[q]
      BY <2>1, <2>2 DEF A!PurgeDue
    <2>3. CASE acting'[q] # acting[q]
      <3>1. PICK r \in Request : A!RequestStep(r)
        BY <2>3 DEF A!Next, A!Surroundings, A!Logout, A!Expire, A!DeleteExpired, A!CreateAdmin
      <3>2. r = q
        BY <2>3, <3>1, OthersStay
      <3>3. acting[r].op \notin {"login", "createUser"}
        BY <2>1, <3>2 DEF Placed, Sound
      <3>4. A!Purge(r) \/ A!GiveUp(r)
        BY <2>1, <3>1, <3>2, <3>3
           DEF A!RequestStep, A!Login, A!InsertSession, A!StartChangeOwnPassword, A!VerifyCurrent,
               A!WritePassword, A!StartChangeUserPassword, A!StartDeleteUser, A!StartPatchUser, A!Deactivate,
               A!ReadUser, A!WriteUser, A!StartCreateUser, A!InsertUser, A!At, A!Begin
      <3> QED
        BY <1>p, <2>1, <3>2, <3>4 DEF A!GiveUp
    <2> QED
      BY <2>2, <2>3
  <1> QED
    BY <1>f, <1>d

LEMMA StepEarned ==
  ASSUME A!TypeOK, Placed, FreshLogins, A!SessionsEarned, A!Next
  PROVE  A!SessionsEarned'
  <1> SUFFICES ASSUME NEW s \in A!Open', origin'[s] # None
               PROVE  \/ sessions'[s].user \in A!Active'
                         /\ users'[sessions'[s].user].password = origin'[s]
                      \/ A!PurgeDue(sessions[s].user)'
                      \/ sessions'[s].user \in forsaken'
    BY DEF A!SessionsEarned
  <1>1. CASE s \in A!Open
    <2> DEFINE u == sessions[s].user
    <2>1. sessions'[s].user = u /\ origin'[s] = origin[s]
      BY <1>1, OldSession
    <2>2. A!PurgeDue(u) \/ u \in forsaken \/ (u \in A!Active /\ users[u].password = origin[s])
      BY <1>1, <2>1 DEF A!SessionsEarned
    <2>3. CASE A!PurgeDue(u) \/ u \in forsaken
      <3>1. \E v : v = u
        OBVIOUS
      <3>2. PICK v : v = u
        BY <3>1
      <3>3. A!PurgeDue(v)' \/ v \in forsaken'
        BY <2>1, <2>3, <3>2, DueStays
      <3> QED
        BY <2>1, <3>2, <3>3 DEF A!PurgeDue
    <2>4. CASE u \in A!Active /\ users[u].password = origin[s] /\ u \notin A!Changed
      <3>1. u \in A!Born \ A!Changed /\ u \in A!Born'
        BY <2>4, BornStays DEF A!Active
      <3> QED
        BY <2>1, <2>4, <3>1, Unchanged
    <2>5. CASE u \in A!Changed
      <3>1. \E v : v = u
        OBVIOUS
      <3>2. PICK v : v = u
        BY <3>1
      <3>3. A!PurgeDue(v)'
        BY <2>5, <3>2, ChangedDue
      <3> QED
        BY <2>1, <3>2, <3>3 DEF A!PurgeDue
    <2> QED
      BY <2>2, <2>3, <2>4, <2>5
  <1>2. CASE s \notin A!Open
    <2>1. PICK r \in Request : A!InsertSession(r)
      BY <1>2, NewSession
    <2>2. /\ sessions'[s].user = acting[r].item
          /\ r \notin late /\ origin'[s] = acting[r].word
          /\ users' = users /\ A!At(r, "login", "insert")
      BY <1>2, <2>1 DEF A!InsertSession, A!TypeOK, A!Open, A!excuses
    <2>3. acting[r].item \in A!Active /\ users[acting[r].item].password = acting[r].word
      BY <2>2 DEF FreshLogins
    <2>4. A!Active' = A!Active
      BY <2>2 DEF A!Active, A!Born
    <2> QED
      BY <2>2, <2>3, <2>4
  <1> QED
    BY <1>1, <1>2

(* Whatever logins, changes and their failures meet: a session that is not  *)
(* excused stands for the password the account has now.                     *)
THEOREM OldSessionsEnd == A!Spec => []SessionsEarned
  <1> DEFINE Inv == A!TypeOK /\ Placed /\ FreshLogins /\ A!SessionsEarned
  <1>1. A!Init => Inv
    BY InitType DEF A!Init, FreshLogins, A!SessionsEarned, A!Open, A!At
  <1>2. Inv /\ [A!Next]_(A!vars) => Inv'
    <2>1. CASE UNCHANGED A!vars
      BY <2>1, StepType
         DEF A!vars, A!excuses, FreshLogins, A!SessionsEarned, A!At, A!Active, A!Born, A!Open, A!PurgeDue
    <2>2. CASE A!Next
      BY <2>2, StepType, StepFresh, StepEarned
    <2> QED
      BY <2>1, <2>2
  <1> QED
    BY <1>1, <1>2, PTL DEF A!Spec, SessionsEarned

-----------------------------------------------------------------------------
(* Administrators.                                                          *)

(* The deletions of accounts that are about to be written.                  *)
Deleting == {r \in Request : A!At(r, "deleteUser", "write")}

(* Alone on its way, a deletion leaves the administrator who asked for it.  *)
AdminInv ==
    ~strained => /\ A!Born # {} => A!Admins # {}
                 /\ \A q, r \in Deleting : q = r
                 /\ \A r \in Deleting : \E a \in A!Admins : a # acting[r].item

LEMMA AdminsKept ==
  ASSUME A!TypeOK, Placed, A!Next, ~strained', NEW a \in A!Admins,
         \A r \in Request : A!Deactivate(r) => acting[r].item # a
  PROVE  a \in A!Admins'
  <1>1. ASSUME NEW u \in User, NEW row \in A!UserRow, u # a, users' = [users EXCEPT ![u] = row]
        PROVE  a \in A!Admins'
    BY <1>1 DEF A!Admins, A!Active, A!Born, A!TypeOK
  <1>2. CASE users' = users
    BY <1>2 DEF A!Admins, A!Active, A!Born
  <1>3. ASSUME NEW r \in Request, A!WritePassword(r) \/ A!Deactivate(r) \/ A!WriteUser(r)
        PROVE  a \in A!Admins'
    <2>1. PICK row \in A!UserRow :
            /\ users' = [users EXCEPT ![acting[r].item] = row]
            /\ A!WritePassword(r) => row.role = users[acting[r].item].role
                                   /\ row.active = users[acting[r].item].active
      BY <1>3, RowWrite
    <2>2. acting[r].item \in User
      BY <1>3, RowWrite
    <2>3. CASE acting[r].item # a
      BY <1>1, <2>1, <2>2, <2>3
    <2>4. CASE acting[r].item = a /\ A!WriteUser(r)
      BY <2>4 DEF A!WriteUser
    <2>5. CASE acting[r].item = a /\ A!WritePassword(r)
      <3>1. /\ users' = [users EXCEPT ![a] = row]
            /\ row.role = "admin" /\ row.active
        BY <2>1, <2>5 DEF A!Admins, A!Active
      <3> QED
        BY <2>2, <2>5, <3>1 DEF A!Admins, A!Active, A!Born, A!TypeOK
    <2> QED
      BY <1>3, <2>3, <2>4, <2>5
  <1>4. ASSUME NEW u \in User \ A!Born, NEW row \in A!UserRow, users' = [users EXCEPT ![u] = row]
        PROVE  a \in A!Admins'
    BY <1>1, <1>4 DEF A!Admins, A!Active
  <1> QED
    BY <1>2, <1>3, <1>4, UsersStep

(* A deletion is about to be written if it was, or begins now.              *)
LEMMA NewDeletion ==
  ASSUME A!TypeOK, Placed, A!Next, NEW r \in Request, r \in Deleting'
  PROVE  \/ r \in Deleting /\ acting'[r] = acting[r]
         \/ \E a, u \in User : A!StartDeleteUser(r, a, u)
  <1>1. acting'[r] # None /\ acting'[r].op = "deleteUser" /\ acting'[r].pc = "write"
    BY DEF Deleting, A!At
  <1>2. CASE acting'[r] = acting[r]
    BY <1>1, <1>2 DEF Deleting, A!At
  <1>3. CASE acting'[r] # acting[r]
    <2>1. PICK q \in Request : A!RequestStep(q)
      BY <1>3 DEF A!Next, A!Surroundings, A!Logout, A!Expire, A!DeleteExpired, A!CreateAdmin
    <2>2. q = r /\ A!RequestStep(r)
      BY <1>3, <2>1, OthersStay
    <2>3. ~A!End(r)
      BY <1>1, OwnEnd
    <2>4. ASSUME NEW op, NEW pc, NEW u, NEW p, A!Begin(r, op, pc, u, p) PROVE op = "deleteUser"
      BY <1>1, <2>4, OwnBegin
    <2>5. ASSUME NEW pc \in A!Steps, acting[r] # None, A!Proceed(r, pc)
          PROVE  acting[r].op = "deleteUser" /\ pc = "write"
      BY <1>1, <2>5, OwnProceed
    <2>6. ~A!ReadUser(r)
      <3> SUFFICES ASSUME A!ReadUser(r) PROVE FALSE
        OBVIOUS
      <3>1. acting[r] \in A!Task /\ acting[r].op = "patchUser"
        BY DEF A!ReadUser, A!At, A!TypeOK
      <3>2. \A b, c : [acting[r] EXCEPT !.pc = "write", !.role = b, !.active = c].op = "patchUser"
        BY <3>1 DEF A!Task
      <3> QED
        BY <1>1, <3>2, OwnTask DEF A!ReadUser
    <2>7. ~A!WriteUser(r) /\ ~A!Purge(r) /\ ~A!InsertUser(r) /\ ~A!GiveUp(r) /\ ~A!InsertSession(r)
      BY <2>3, <2>5 DEF A!WriteUser, A!At, A!Steps, A!Purge, A!InsertUser, A!GiveUp, A!InsertSession
    <2>8. ~A!VerifyCurrent(r) /\ ~A!WritePassword(r) /\ ~A!Deactivate(r)
      BY <2>5 DEF A!VerifyCurrent, A!WritePassword, A!Deactivate, A!At, A!Steps
    <2>9. \A u \in User : /\ \A p \in Password : ~A!Login(r, u, p)
                          /\ ~A!StartChangeOwnPassword(r, u) /\ ~A!StartCreateUser(r, u)
                          /\ \A a \in User : /\ ~A!StartChangeUserPassword(r, a, u)
                                              /\ ~A!StartPatchUser(r, a, u)
      BY <2>4 DEF A!Login, A!StartChangeUserPassword, A!StartPatchUser, A!StartChangeOwnPassword,
                  A!StartCreateUser
    <2> QED
      BY <2>2, <2>6, <2>7, <2>8, <2>9 DEF A!RequestStep
  <1> QED
    BY <1>2, <1>3

LEMMA StepAdmins ==
  ASSUME A!TypeOK, Placed, AdminInv, A!Next
  PROVE  AdminInv'
  <1> SUFFICES ASSUME ~strained'
               PROVE  /\ A!Born' # {} => A!Admins' # {}
                      /\ \A q, r \in Deleting' : q = r
                      /\ \A r \in Deleting' : \E a \in A!Admins' : a # acting'[r].item
    BY DEF AdminInv
  <1>0. ~strained
    BY DEF A!Next, A!RequestStep, A!Surroundings, A!Login, A!InsertSession, A!StartChangeOwnPassword,
           A!VerifyCurrent, A!WritePassword, A!StartChangeUserPassword, A!StartDeleteUser, A!StartPatchUser,
           A!Deactivate, A!ReadUser, A!WriteUser, A!Purge, A!StartCreateUser, A!InsertUser, A!GiveUp, A!Logout,
           A!Expire, A!DeleteExpired, A!CreateAdmin, A!excuses
  <1>a. /\ A!Born # {} => A!Admins # {}
        /\ \A q, r \in Deleting : q = r
        /\ \A r \in Deleting : \E a \in A!Admins : a # acting[r].item
    BY <1>0 DEF AdminInv
  <1>1. ASSUME NEW r \in Request, A!Deactivate(r)
        PROVE  /\ A!Admins' # {} /\ Deleting' = {}
    <2>1. r \in Deleting
      BY <1>1 DEF A!Deactivate, Deleting
    <2>2. PICK a \in A!Admins : a # acting[r].item
      BY <1>a, <2>1
    <2>3. \A q \in Request : A!Deactivate(q) => q = r
      BY <1>a, <2>1 DEF A!Deactivate, Deleting
    <2>4. a \in A!Admins'
      BY <2>2, <2>3, AdminsKept
    <2>5. acting'[r] # acting[r] /\ r \notin Deleting'
      <3>1. acting[r] # None /\ A!Proceed(r, "purge") /\ acting[r].pc = "write"
        BY <1>1 DEF A!Deactivate, A!At
      <3>2. acting'[r].pc = "purge"
        BY <3>1, OwnProceed DEF A!Steps
      <3> QED
        BY <3>1, <3>2 DEF Deleting, A!At
    <2>6. \A q \in Request \ {r} : q \notin Deleting'
      <3>1. \A q \in Request \ {r} : acting'[q] = acting[q]
        BY <1>1, OthersStay DEF A!RequestStep
      <3> QED
        BY <1>a, <2>1, <3>1 DEF Deleting, A!At
    <2> QED
      BY <2>4, <2>5, <2>6 DEF Deleting
  <1>2. ASSUME \A r \in Request : ~A!Deactivate(r)
        PROVE  /\ A!Born' # {} => A!Admins' # {}
               /\ \A q, r \in Deleting' : q = r
               /\ \A r \in Deleting' : \E a \in A!Admins' : a # acting'[r].item
    <2>1. A!Admins \subseteq A!Admins'
      BY <1>2, AdminsKept
    <2>2. ASSUME A!Born' # {} PROVE A!Admins' # {}
      <3>1. CASE A!Born # {}
        BY <1>a, <2>1, <3>1
      <3>2. CASE A!Born = {}
        <4>1. \A r \in Request : acting[r] = None
          BY <3>2 DEF Placed, Sound
        <4>2. users' # users
          BY <2>2, <3>2 DEF A!Born
        <4>3. \E u \in User, p \in Password : A!CreateAdmin(u, p)
          BY <3>2, <4>1, <4>2
             DEF A!Next, A!RequestStep, A!Surroundings, A!Login, A!Credentials, A!Active, A!InsertSession,
                 A!StartChangeOwnPassword, A!VerifyCurrent, A!WritePassword, A!StartChangeUserPassword,
                 A!StartDeleteUser, A!StartPatchUser, A!Deactivate, A!ReadUser, A!WriteUser, A!Purge,
                 A!StartCreateUser, A!InsertUser, A!GiveUp, A!Logout, A!Expire, A!DeleteExpired, A!At
        <4>4. PICK u \in User, p \in Password :
                users' = [users EXCEPT ![u] = [password |-> p, role |-> "admin", active |-> TRUE]]
          BY <4>3 DEF A!CreateAdmin
        <4>5. [password |-> p, role |-> "admin", active |-> TRUE] \in A!UserRow
          BY DEF A!UserRow, A!Role
        <4>6. users'[u] = [password |-> p, role |-> "admin", active |-> TRUE] /\ users'[u] # None
          BY <4>4, <4>5 DEF A!TypeOK
        <4> QED
          BY <4>6 DEF A!Admins, A!Active, A!Born
      <3> QED
        BY <3>1, <3>2
    <2>3. CASE \E r \in Request, a, u \in User : A!StartDeleteUser(r, a, u)
      <3>1. PICK r \in Request, a \in User, u \in User : A!StartDeleteUser(r, a, u)
        BY <2>3
      <3>2. Deleting = {} /\ a \in A!Admins' /\ u # a
        BY <2>1, <3>1 DEF A!StartDeleteUser, Deleting, A!MayDelete, A!Admitted
      <3>3. acting'[r].item = u
        BY <3>1, OwnBegin DEF A!StartDeleteUser
      <3>4. \A q \in Request \ {r} : acting'[q] = acting[q]
        BY <3>1, OthersStay DEF A!RequestStep
      <3>5. \A q \in Deleting' : q = r
        BY <3>2, <3>4 DEF Deleting, A!At
      <3> QED
        BY <2>2, <3>2, <3>3, <3>5
    <2>4. CASE ~\E r \in Request, a, u \in User : A!StartDeleteUser(r, a, u)
      <3>1. \A r \in Deleting' : r \in Deleting /\ acting'[r] = acting[r]
        BY <2>4, NewDeletion DEF Deleting
      <3> QED
        BY <1>a, <2>1, <2>2, <3>1
    <2> QED
      BY <2>3, <2>4
  <1> QED
    BY <1>1, <1>2

(* No number of requests, patches with what they read before among them,    *)
(* leaves the accounts without an administrator in service, unless two are  *)
(* removed at once or a patch says so.                                      *)
THEOREM AdministratorRemains == A!Spec => []AdminRemains
  <1> DEFINE Inv == A!TypeOK /\ Placed /\ AdminInv
  <1>1. A!Init => Inv
    BY InitType DEF A!Init, AdminInv, Deleting, A!At, A!Born
  <1>2. Inv /\ [A!Next]_(A!vars) => Inv'
    <2>1. CASE UNCHANGED A!vars
      BY <2>1, StepType DEF A!vars, A!excuses, AdminInv, Deleting, A!At, A!Admins, A!Active, A!Born
    <2>2. CASE A!Next
      BY <2>2, StepType, StepAdmins
    <2> QED
      BY <2>1, <2>2
  <1>3. Inv => AdminRemains
    BY DEF AdminInv, AdminRemains, A!AdminRemains
  <1> QED
    BY <1>1, <1>2, <1>3, PTL DEF A!Spec
=============================================================================
