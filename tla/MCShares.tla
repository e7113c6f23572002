------------------------------ MODULE MCShares ------------------------------
(* A small instance of Shares, with two plans: a behaviour follows one.     *)
EXTENDS Shares, TLC

CONSTANTS f1, p1

VARIABLE plan   \* chosen at first, and kept

(* "access": a folder behind a password, until time 0, for one download:    *)
(* one request of any kind against one order of the owner, the              *)
(* administrator, the clock and the folder.                                 *)
FolderDraft ==
    [target |-> Folder, password |-> p1, expires |-> 0, preview |-> TRUE,
     download |-> TRUE, browse |-> TRUE, max |-> 1, revoked |-> FALSE]

AccessChange == {[revoked |-> FALSE], [expires |-> None], [password |-> None]}

(* "limit": a file for one download: downloads at once, and patches at once *)
(* that overwrite each other.                                               *)
FileDraft ==
    [target |-> f1, password |-> None, expires |-> None, preview |-> FALSE,
     download |-> TRUE, browse |-> FALSE, max |-> 1, revoked |-> FALSE]

LimitChange == {[max |-> 2], [revoked |-> FALSE]}

Drafts == {FolderDraft, FileDraft}
Changes == AccessChange \cup LimitChange

Visiting == {v \in Visit : ~At(v, "idle")}
Managing == {m \in Manager : mgr[m] # None}

FollowsAccess ==
    /\ Cardinality(Visiting) <= 1
    /\ Cardinality(Managing) <= 1
    /\ \A v \in Visiting : visit[v].kind \in {"info", "items", "inline", "zip"}
    /\ \A m \in Managing : mgr[m].terms.target = Folder /\ mgr[m].terms.max = 1
    /\ \A l \in Link : row[l] # None => row[l].count <= 1

FollowsLimit ==
    /\ \A v \in Visiting : visit[v].kind = "download" /\ visit[v].password = None
    /\ \A m \in Managing : /\ mgr[m].terms.target = f1
                           /\ mgr[m].terms.max = 2 \/ ~mgr[m].terms.revoked
    /\ on = Switch
    /\ Folder \in live /\ inside = {}
    /\ now = 0

MCInit == Init /\ plan \in {"access", "limit"} /\ (plan = "limit" => inside = {})

MCNext ==
    /\ Next
    /\ UNCHANGED plan
    /\ IF plan = "access" THEN FollowsAccess' ELSE FollowsLimit'

MCSpec == MCInit /\ [][MCNext]_<<vars, plan>>

Symmetry == Permutations(Visit) \cup Permutations(Manager)
=============================================================================
