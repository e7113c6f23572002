----------------------------- MODULE MCUploads ------------------------------
(***************************************************************************)
(* An instance of UploadSessions for its safety properties, with two plans: *)
(* a behaviour follows one.                                                 *)
(***************************************************************************)
EXTENDS MCUploadSessions, FiniteSets

VARIABLE plan   \* chosen at first, and kept

(* "failures": everything may fail, two requests at a time, chunks of one   *)
(* byte, no limit and no quota.                                             *)
Failing == INSTANCE UploadSessions WITH
    Faults <- AllFaults, Limits <- {Nil}, Quotas <- {Nil}, MaxLen <- 1

FollowsFailures == Cardinality({h \in Handler : Working(h)}) <= 2

(* "moves": all requests, under the limits, quotas and lengths of the       *)
(* configuration; only request bodies break off.                            *)
MCInit ==
    \/ plan = "failures" /\ Failing!Init
    \/ plan = "moves" /\ Init

MCNext ==
    /\ UNCHANGED plan
    /\ \/ plan = "failures" /\ Failing!Next /\ FollowsFailures'
       \/ plan = "moves" /\ Next

MCSpec == MCInit /\ [][MCNext]_<<vars, plan>>

(* While only request bodies fail: every file row has its object, and every *)
(* object its row or the completion that will book it or move it back.      *)
MovesKeepBytes == plan = "moves" => FileIsBacked /\ NoOrphanObject
=============================================================================
