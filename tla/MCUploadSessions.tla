-------------------------- MODULE MCUploadSessions --------------------------
(***************************************************************************)
(* Instances of UploadSessions for TLC.                                     *)
(***************************************************************************)
EXTENDS UploadSessions, TLC

CONSTANTS u1

OneOwner == [s \in Session |-> u1]

Symmetry == Permutations(Session) \cup Permutations(Handler) \cup Permutations(Key)
=============================================================================
