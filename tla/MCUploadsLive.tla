---------------------------- MODULE MCUploadsLive ----------------------------
(***************************************************************************)
(* An instance of UploadSessions for its liveness properties, and for two   *)
(* sessions of one user, with three plans: a behaviour follows one.         *)
(***************************************************************************)
EXTENDS MCUploadSessions, FiniteSets

VARIABLE plan   \* chosen at first, and kept

Untouched(s) == row[s].status = "absent" /\ \A h \in Handler : req[h].s # s
Sized(s) == ~Untouched(s) => \/ row[s].total # Nil
                             \/ \E h \in Handler : req[h].s = s /\ req[h].cap # Nil

NoQuota == \A u \in User : account[u].quota = Nil

(* "user": requests for two sessions of one user, which wait for each other.*)
FollowsUser ==
    /\ \A g, h \in Handler : req[g].s = req[h].s => g = h \/ req[h].s = Nil
    /\ \A s \in Session : Sized(s)
    /\ \A h \in Handler : req[h].kind # "delete"
    /\ due = {}

(* "rows": sweeps that go from session to session, and one request, which   *)
(* the same handler serves, as handlers differ in nothing.                  *)
FollowsRows ==
    /\ \A h \in Handler : Working(h) => h = CHOOSE g \in Handler : TRUE
    /\ \A h \in Handler : req[h].kind \in {"init", "patch"}
    /\ \A s \in Session : Sized(s)
    /\ NoQuota

(* "races": requests and sweeps for one session.                            *)
FollowsRaces ==
    /\ Cardinality({s \in Session : ~Untouched(s)}) <= 1
    /\ \A s \in Session : Sized(s)
    /\ NoQuota

MCInit == Init /\ plan \in {"user", "rows", "races"} /\ (plan # "user" => NoQuota)

MCNext ==
    /\ Next
    /\ UNCHANGED plan
    /\ CASE plan = "user" -> FollowsUser'
         [] plan = "rows" -> FollowsRows'
         [] plan = "races" -> FollowsRaces'

MCFairSpec == MCInit /\ [][MCNext]_<<vars, plan>> /\ Fairness
=============================================================================
