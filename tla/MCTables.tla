------------------------------ MODULE MCTables ------------------------------
(***************************************************************************)
(* Small instances of two parts of the database that share no rows: the     *)
(* tree of folders and files with its usage, and the accounts with their    *)
(* sessions.  A behaviour follows one plan, and leaves the other part as it *)
(* is.                                                                      *)
(***************************************************************************)
EXTENDS FileTree, FiniteSets, TLC

CONSTANTS User, Password, Session

VARIABLES users, sessions, acting, origin, late, forsaken, strained

A == INSTANCE Accounts WITH req <- acting

ASSUME UserAssumption == None \notin User \cup Password
ASSUME AccountsAssumption ==
    None \notin A!UserRow /\ None \notin A!SessionRow /\ None \notin A!Task

accounts == <<users, sessions, acting, origin, late, forsaken, strained>>

VARIABLE plan   \* chosen at first, and kept

(* "tree": any requests but recalculations, on one file, or on none where   *)
(* moves of folders overlap.                                                *)
FollowsTree ==
    /\ Cardinality({x \in File : files[x] # None}) <= IF overlapped THEN 0 ELSE 1
    /\ \A r \in Request : req[r] # None => req[r].op # "recalculate"

(* "usage": any requests, on one folder.                                    *)
FollowsUsage == Cardinality(Born) <= 1

(* "accounts": any requests of the other part.                              *)
Plans == {"tree", "usage", "accounts"}

MCInit == plan \in Plans /\ Init /\ A!Init

MCNext ==
    /\ UNCHANGED plan
    /\ \/ plan = "tree" /\ Next /\ FollowsTree' /\ UNCHANGED accounts
       \/ plan = "usage" /\ Next /\ FollowsUsage' /\ UNCHANGED accounts
       \/ plan = "accounts" /\ A!Next /\ UNCHANGED vars

MCSpec == MCInit /\ [][MCNext]_<<vars, accounts, plan>>

(* Users and files take their ids from one set: no row of the one part      *)
(* names one of the other.                                                  *)
Symmetry == Permutations(Folder) \cup Permutations(File) \cup Permutations(Request)
              \cup Permutations(Password)

-----------------------------------------------------------------------------
(* Properties, by the names the configuration uses.                         *)

(* Every variable of both parts keeps its shape.                            *)
Typed == TypeOK /\ A!TypeOK

(* A session stands for the account's present password and an account in    *)
(* service, but for the named logins and purges.                            *)
SessionsEarned == A!SessionsEarned

(* Deleted one at a time by each other, administrators never run out.       *)
AdminRemains == A!AdminRemains
=============================================================================
