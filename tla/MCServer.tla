------------------------------ MODULE MCServer ------------------------------
(***************************************************************************)
(* Small instances of the parts of the server that share no state with each *)
(* other: multipart uploads, downloads, a rate limit and the migrations.    *)
(* A behaviour follows one plan, and leaves the other parts as they are.    *)
(***************************************************************************)
EXTENDS DirectUploads, Ranges, FiniteSets

CONSTANTS File, Previewed, Preview, Stream, Archive, MaxSize, MaxStored

ASSUME FileAssumption == IsFiniteSet(File) /\ Previewed \in File /\ Preview \notin File
ASSUME SizeAssumption == MaxSize \in Nat /\ MaxStored \in Nat

VARIABLES live, object, stored, stream, archive, away

D == INSTANCE Downloads

ASSUME ItemAssumption == Nil \notin D!Asked \cup D!Object \cup D!Piece

CONSTANTS Caller, Limit, Window, MaxRetries, MaxTime, MaxCount

ASSUME LimitAssumption == Limit \in Nat \ {0} /\ Window \in Nat \ {0}
ASSUME CountAssumption == MaxRetries \in Nat /\ MaxTime \in Nat /\ MaxCount \in Nat \ {0}

VARIABLES now, limiter, counter, call, began, admitted, told

L == INSTANCE RateLimiter

CONSTANTS Migrator, Last

ASSUME LastAssumption == Last \in Nat \ {0}

VARIABLES schema, recorded, mig, serving

M == INSTANCE Migrations

VARIABLE plan   \* chosen at first, and kept

Plans == {"upload", "stream", "archive", "limit", "migrate"}

downloads == <<live, object, stored, stream, archive, away>>
limit == <<now, limiter, counter, call, began, admitted, told>>
migrations == <<schema, recorded, mig, serving>>

allVars == <<vars, downloads, limit, migrations, plan>>

-----------------------------------------------------------------------------
(* The choices of a part that is left alone are not made; one file is       *)
(* enough for the streams.                                                  *)
OtherFiles == File \ {Previewed}

MCInit ==
    /\ plan \in Plans
    /\ Init /\ D!Init /\ L!Init /\ M!Init
    /\ plan # "upload" => \A k \in Part : body[k] = 0
    /\ plan # "limit" => limiter
    /\ plan # "stream" => \A k \in D!Key : object[k].size = 0
    /\ plan = "stream" => \A f \in OtherFiles : object[f].size = 0

MCNext ==
    /\ UNCHANGED plan
    /\ \/ plan = "upload" /\ Next /\ UNCHANGED <<downloads, limit, migrations>>
       \/ /\ plan \in {"stream", "archive"}
          /\ D!Next
          /\ UNCHANGED <<vars, limit, migrations>>
          /\ plan = "stream" => /\ archive' = archive /\ OtherFiles \subseteq live'
                                /\ \A s \in Stream : stream'[s].key \notin OtherFiles
          /\ plan = "archive" => stream' = stream /\ object'[Preview] = object[Preview]
       \/ plan = "limit" /\ L!Next /\ UNCHANGED <<vars, downloads, migrations>>
       \/ plan = "migrate" /\ M!Next /\ UNCHANGED <<vars, downloads, limit>>

MCSpec ==
    /\ MCInit /\ [][MCNext]_allVars
    /\ \A r \in Request : WF_vars(Fill(r)) /\ WF_vars(Handle(r))
    /\ \A a \in Archive : WF_archive(D!Handle(a)) /\ WF_archive(D!Fill(a))

-----------------------------------------------------------------------------
(* Properties of the parts, by the names the configuration uses.            *)

(* Every variable of every part keeps its shape.                            *)
Typed == TypeOK /\ D!TypeOK /\ L!TypeOK /\ M!TypeOK

(* A file or preview is announced and sent by the range that was asked for, *)
(* and refused only when there is nothing in it.                            *)
RangeAsRequested == D!RangeAsRequested

(* A zip with its directory has every file that was listed, whole and once. *)
ArchiveComplete == D!ArchiveComplete

(* Handler and goroutine of a zip both come to an end.                      *)
ArchivesEnd == D!ArchivesEnd

(* No stretch of a window's length sees two limits of calls admitted.       *)
AdmittedWithinWindows == L!AdmittedWithinWindows

(* A subject is not refused for calls made before the time it was told.     *)
RefusalsEnd == L!RefusalsEnd

(* The schema is that of the first versions, in order, and recorded so; a   *)
(* server that runs has found all of them.                                  *)
SchemaInOrder == M!SchemaInOrder
=============================================================================
