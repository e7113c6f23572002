---------------------------- MODULE UploadLedger ----------------------------
(***************************************************************************)
(* What the upload component promises its users, without rows, locks or     *)
(* files: a session that was opened either becomes a stored file, once, at  *)
(* a price that fits the owner's quota at that moment, or it is closed      *)
(* without a trace in the account.                                          *)
(***************************************************************************)
EXTENDS Naturals

CONSTANTS Session, User, Owner, Nil

VARIABLES phase, size, used, quota

ledgerVars == <<phase, size, used, quota>>

LedgerInit ==
    /\ phase = [s \in Session |-> "none"]
    /\ size = [s \in Session |-> 0]
    /\ used = [u \in User |-> 0]
    /\ quota \in [User -> Nat \cup {Nil}]

Open(s) ==
    /\ phase[s] = "none"
    /\ phase' = [phase EXCEPT ![s] = "open"]
    /\ UNCHANGED <<size, used, quota>>

(* The file is booked, the session closed and the owner charged at once.    *)
Store(s) ==
    LET u == Owner[s] IN
    /\ phase[s] = "open"
    /\ phase' = [phase EXCEPT ![s] = "stored"]
    /\ size' \in [Session -> Nat]
    /\ \A r \in Session \ {s} : size'[r] = size[r]
    /\ used' = [used EXCEPT ![u] = @ + size'[s]]
    /\ quota[u] # Nil => used'[u] <= quota[u]
    /\ UNCHANGED quota

Close(s) ==
    /\ phase[s] = "open"
    /\ phase' = [phase EXCEPT ![s] = "closed"]
    /\ UNCHANGED <<size, used, quota>>

SetLedgerQuota(u) ==
    /\ quota' \in [User -> Nat \cup {Nil}]
    /\ \A v \in User \ {u} : quota'[v] = quota[v]
    /\ UNCHANGED <<phase, size, used>>

LedgerNext ==
    \/ \E s \in Session : Open(s) \/ Store(s) \/ Close(s)
    \/ \E u \in User : SetLedgerQuota(u)

LedgerSpec == LedgerInit /\ [][LedgerNext]_ledgerVars
=============================================================================
