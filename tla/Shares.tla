------------------------------- MODULE Shares -------------------------------
(***************************************************************************)
(* Public share links (internal/http/shares.go): the owner's requests that  *)
(* create, patch, revoke and delete rows of share_links, the public         *)
(* requests that come with a link's token, and what moves under both: the   *)
(* administrator's switches, the shared files, the clock.                   *)
(*                                                                          *)
(* A public request makes its checks one query after another, each on what  *)
(* that query reads, answers, and counts the download afterwards.  What it  *)
(* decides from its one reading of the row is decided where the row is      *)
(* read: the request changes nothing until it has answered.                 *)
(***************************************************************************)
EXTENDS Integers, FiniteSets

CONSTANTS
    Link,       \* tokens of share links
    Visit,      \* public requests served at the same time
    Manager,    \* the owner's requests served at the same time
    File,       \* files that may lie in the shared folder
    Folder,     \* the folder that may be shared
    Password,
    Draft,      \* what an owner may ask of a new link
    Change,     \* what a patch may ask: fields with their new values
    Kind,       \* the public operations this instance serves
    Flips,      \* the switches the administrator turns
    MaxLimit,   \* bound: max_downloads
    MaxCount,   \* bound: download_count
    MaxTime,    \* bound: the clock
    None

Counted == {"download", "zip"}      \* those that call bumpShareDownloadCount
Previews == {"previewInfo", "content", "inline"}
OfFolder == {"items", "zip"}
OfFile == Previews \cup {"download"}
AllKinds == {"info", "password"} \cup OfFolder \cup OfFile

(* Booleans of system_settings.  "preview" stands for all those that        *)
(* previewAllowedByConfig consults.                                         *)
Switch == {"sharing", "publicPreview", "publicDownload", "preview"}

(* The columns of a row that its owner decides.                             *)
Terms == [target : File \cup {Folder}, password : Password \cup {None},
          expires : 0..MaxTime \cup {None}, preview : BOOLEAN, download : BOOLEAN,
          browse : BOOLEAN, max : 1..MaxLimit \cup {None}, revoked : BOOLEAN]

(* patchShare: a field the request does not have keeps the value read.      *)
Patched(t, c) == [f \in DOMAIN t |-> IF f \in DOMAIN c THEN c[f] ELSE t[f]]

ASSUME NoneAssumption ==
    None \notin Password \cup File \cup Link \cup {Folder} \cup Int
ASSUME FolderAssumption == Folder \notin File
ASSUME BoundAssumption == MaxLimit \in Nat /\ MaxCount \in Nat /\ MaxTime \in Nat
ASSUME KindAssumption == Kind \subseteq AllKinds /\ Flips \subseteq Switch
ASSUME VisitAssumption == IsFiniteSet(Visit)
ASSUME DraftAssumption == Draft \subseteq {t \in Terms : ~t.revoked}
ASSUME ChangeAssumption ==
    \A t \in Terms, c \in Change : /\ Patched(t, c) \in Terms
                                   /\ Patched(t, c).target = t.target

VARIABLES
    row,      \* table share_links: terms and download count, or None
    fresh,    \* tokens not yet drawn
    on,       \* the switches that are on
    live,     \* the files, and the folder, that are not deleted
    inside,   \* the files in the folder's tree
    now,      \* the clock
    visit,    \* what each public request is doing
    mgr,      \* what each of the owner's requests is doing
    grounds,  \* history: what has been true of a visit since it arrived
    given,    \* history: file downloads of a link, answered and counted
    cap       \* history: the highest limit a link has had; None: never, or without

vars == <<row, fresh, on, live, inside, now, visit, mgr, grounds, given, cap>>

-----------------------------------------------------------------------------
Row == [terms : Terms, count : Nat]

(* The queries of a public request; then it answers, and counts.            *)
Checks(k) ==
    {"enabled", "row"}
      \cup (IF k \in Previews \cup Counted THEN {"settings"} ELSE {})
      \cup (IF k \in {"password", "items"} THEN {} ELSE {"target"})
      \cup (IF k \in {"content", "inline"} THEN {"preview"} ELSE {})

(* ... in this order.                                                       *)
Following(k, c) ==
    CASE c = "enabled" -> "row"
      [] c = "row" /\ "settings" \in Checks(k) -> "settings"
      [] c = "row" /\ k = "info" -> "target"
      [] c = "settings" -> "target"
      [] c = "target" /\ "preview" \in Checks(k) -> "preview"
      [] OTHER -> "answer"

Steps == {"idle", "enabled", "row", "settings", "target", "preview", "answer", "count"}

(* target: of the share as the row had it.                                  *)
Task == [pc : Steps, link : Link \cup {None}, kind : AllKinds,
         file : File \cup {None}, password : Password \cup {None},
         target : File \cup {Folder, None}]

NoTask == [pc |-> "idle", link |-> None, kind |-> "info", file |-> None,
           password |-> None, target |-> None]

(* policy: sharing settings; previewPolicy: preview settings; then write.   *)
Order == [pc : {"policy", "previewPolicy", "write"}, op : {"insert", "update"},
          link : Link, terms : Terms]

At(v, pc) == visit[v].pc = pc
RowOf(v) == row[visit[v].link]

Expired(t) == t.expires # None /\ t.expires < now

-----------------------------------------------------------------------------
(* What a row says of a visit.                                              *)

Opens(v) == visit[v].kind = "info" \/ RowOf(v).terms.password \in {None, visit[v].password}

(* Not the code: the row's expiry is not looked at.                         *)
BugNoExpiry(v) == RowOf(v) # None /\ ~RowOf(v).terms.revoked /\ Opens(v)

(* resolvePublicShare.                                                      *)
Resolves(v) ==
    /\ RowOf(v) # None
    /\ ~RowOf(v).terms.revoked
    /\ ~Expired(RowOf(v).terms)
    /\ Opens(v)

(* The tests of target_type and of the allow_ columns.                      *)
Allows(t, k) ==
    /\ k \in OfFolder => t.target = Folder
    /\ k = "items" => t.browse
    /\ k \in Previews => t.preview
    /\ k \in Counted => t.download

(* Not the code: the last download is granted twice.                        *)
BugOneMore(v) == RowOf(v).terms.max # None => RowOf(v).count <= RowOf(v).terms.max

(* Only publicShareFileStream looks at the limit.                           *)
LimitLeft(v) ==
    visit[v].kind \in {"download", "inline"} /\ RowOf(v).terms.max # None
      => RowOf(v).count < RowOf(v).terms.max

(* fetchFileForShare; for a zip and for the name of the target, the target. *)
InShare(t, f) == f \in live /\ (f = t \/ (t = Folder /\ Folder \in live /\ f \in inside))

FindsTarget(v) == IF visit[v].kind \in OfFile THEN InShare(visit[v].target, visit[v].file)
                                              ELSE visit[v].target \in live

Public(v) == IF visit[v].kind \in Counted THEN "publicDownload" ELSE "publicPreview"

-----------------------------------------------------------------------------
(* The history.                                                             *)

(* What is true at this moment of what a visit needs.                       *)
TrueNow(v) ==
    LET r == RowOf(v)  k == visit[v].kind
        limited == r.terms.max # None /\ r.count >= r.terms.max
    IN  {c \in Checks(k) \cup {"limit"} :
           /\ c = "enabled" => "sharing" \in on
           /\ c \in {"row", "limit"} => r # None
           /\ c = "row" => /\ ~r.terms.revoked
                           /\ r.terms.expires # None => now <= r.terms.expires
                           /\ k # "info" /\ r.terms.password # None
                                => visit[v].password = r.terms.password
                           /\ Allows(r.terms, k)
                           /\ limited => k \notin {"download", "inline"}
           /\ c = "limit" => ~limited
           /\ c = "settings" => Public(v) \in on
           /\ c = "target" => FindsTarget(v)
           /\ c = "preview" => "preview" \in on}

Larger(a, b) == IF a = None \/ b = None THEN None ELSE IF a < b THEN b ELSE a

(* Every step adds what it makes true to the grounds of the visits.         *)
Witness == grounds' = [v \in Visit |-> IF At(v, "idle")' THEN {}
                                       ELSE grounds[v] \cup TrueNow(v)']

Init ==
    /\ row = [l \in Link |-> None]
    /\ fresh = Link
    /\ on = Switch
    /\ live = File \cup {Folder}
    /\ inside \in SUBSET File
    /\ now = 0
    /\ visit = [v \in Visit |-> NoTask]
    /\ mgr = [m \in Manager |-> None]
    /\ grounds = [v \in Visit |-> {}]
    /\ given = [l \in Link |-> 0]
    /\ cap = [l \in Link |-> None]

-----------------------------------------------------------------------------
(* Public requests.                                                         *)

Downloads(l) == {v \in Visit : visit[v].link = l /\ visit[v].kind \in Counted}

(* Bound: downloads beyond MaxCount are not asked for.                      *)
Countable(l) == row[l] # None => row[l].count + Cardinality(Downloads(l)) < MaxCount

Arrive(v, l, k, f, p) ==
    /\ At(v, "idle")
    /\ l \notin fresh
    /\ k \in Counted => Countable(l)
    /\ k \in OfFile <=> f # None
    /\ k = "info" => p = None
    /\ visit' = [visit EXCEPT ![v] = [NoTask EXCEPT !.pc = "enabled", !.link = l, !.kind = k,
                                                    !.file = f, !.password = p]]
    /\ UNCHANGED <<row, fresh, on, live, inside, now, mgr, given, cap>>

Pass(v, c) ==
    /\ At(v, c)
    /\ visit' = [visit EXCEPT ![v].pc = Following(visit[v].kind, c)]
    /\ UNCHANGED <<row, fresh, on, live, inside, now, mgr, given, cap>>

CheckEnabled(v) == "sharing" \in on /\ Pass(v, "enabled")

ReadRow(v) ==
    /\ At(v, "row")
    /\ Resolves(v)
    /\ Allows(RowOf(v).terms, visit[v].kind)
    /\ LimitLeft(v)
    /\ visit' = [visit EXCEPT ![v].pc = Following(visit[v].kind, "row"),
                              ![v].target = RowOf(v).terms.target]
    /\ UNCHANGED <<row, fresh, on, live, inside, now, mgr, given, cap>>

CheckSettings(v) == Public(v) \in on /\ Pass(v, "settings")

FindTarget(v) == FindsTarget(v) /\ Pass(v, "target")

CheckPreview(v) == "preview" \in on /\ Pass(v, "preview")

(* The response; only downloads have something left to do.                  *)
Answer(v) ==
    /\ At(v, "answer")
    /\ visit' = [visit EXCEPT ![v] = IF visit[v].kind \in Counted
                                     THEN [visit[v] EXCEPT !.pc = "count"] ELSE NoTask]
    /\ UNCHANGED <<row, fresh, on, live, inside, now, mgr, given, cap>>

(* bumpShareDownloadCount.                                                  *)
CountDownload(v) ==
    LET l == visit[v].link IN
    /\ At(v, "count")
    /\ row' = IF row[l] = None THEN row ELSE [row EXCEPT ![l].count = @ + 1]
    /\ given' = IF visit[v].kind = "download" THEN [given EXCEPT ![l] = @ + 1] ELSE given
    /\ visit' = [visit EXCEPT ![v] = NoTask]
    /\ UNCHANGED <<fresh, on, live, inside, now, mgr, cap>>

(* A check refuses, a query fails, the object is not there; or the client   *)
(* is gone, and with it the request's context, when the download should be  *)
(* counted.                                                                 *)
GiveUp(v) ==
    /\ ~At(v, "idle")
    /\ visit' = [visit EXCEPT ![v] = NoTask]
    /\ UNCHANGED <<row, fresh, on, live, inside, now, mgr, given, cap>>

-----------------------------------------------------------------------------
(* The owner's requests.                                                    *)

(* createShare: the times it asks for lie ahead, and the target exists.     *)
CreateShare(m, l, t) ==
    /\ mgr[m] = None
    /\ l \in fresh
    /\ ~Expired(t)
    /\ t.target \in live
    /\ fresh' = fresh \ {l}
    /\ mgr' = [mgr EXCEPT ![m] = [pc |-> "policy", op |-> "insert", link |-> l, terms |-> t]]
    /\ UNCHANGED <<row, on, live, inside, now, visit, given, cap>>

(* patchShare up to its policy check, which a revoked share is spared.      *)
PatchShare(m, l, c) ==
    /\ mgr[m] = None
    /\ row[l] # None
    /\ "expires" \in DOMAIN c /\ c.expires # None => c.expires >= now
    /\ LET t == Patched(row[l].terms, c) IN
         mgr' = [mgr EXCEPT ![m] = [pc |-> IF t.revoked THEN "write" ELSE "policy",
                                    op |-> "update", link |-> l, terms |-> t]]
    /\ UNCHANGED <<row, fresh, on, live, inside, now, visit, given, cap>>

(* enforceSharePolicyForCreate: the sharing settings, then those of previews. *)
CheckPolicy(m) ==
    /\ mgr[m] # None /\ mgr[m].pc = "policy"
    /\ "sharing" \in on
    /\ mgr[m].terms.download => "publicDownload" \in on
    /\ mgr[m].terms.preview => "publicPreview" \in on
    /\ mgr' = [mgr EXCEPT ![m].pc = "previewPolicy"]
    /\ UNCHANGED <<row, fresh, on, live, inside, now, visit, given, cap>>

CheckPreviewPolicy(m) ==
    /\ mgr[m] # None /\ mgr[m].pc = "previewPolicy"
    /\ mgr[m].terms.preview => "preview" \in on
    /\ mgr' = [mgr EXCEPT ![m].pc = "write"]
    /\ UNCHANGED <<row, fresh, on, live, inside, now, visit, given, cap>>

(* Not the code: the insert leaves download_count out, to a NULL.           *)
BugCountLeftOut(m) ==
    /\ mgr[m] # None /\ mgr[m].pc = "write" /\ mgr[m].op = "insert"
    /\ row' = [row EXCEPT ![mgr[m].link] = [terms |-> mgr[m].terms, count |-> None]]
    /\ cap' = [cap EXCEPT ![mgr[m].link] = mgr[m].terms.max]
    /\ mgr' = [mgr EXCEPT ![m] = None]
    /\ UNCHANGED <<fresh, on, live, inside, now, visit, given>>

InsertRow(m) ==
    /\ mgr[m] # None /\ mgr[m].pc = "write" /\ mgr[m].op = "insert"
    /\ row' = [row EXCEPT ![mgr[m].link] = [terms |-> mgr[m].terms, count |-> 0]]
    /\ cap' = [cap EXCEPT ![mgr[m].link] = mgr[m].terms.max]
    /\ mgr' = [mgr EXCEPT ![m] = None]
    /\ UNCHANGED <<fresh, on, live, inside, now, visit, given>>

(* The UPDATE writes every column of Terms, as read and as asked, over      *)
(* whatever they have become; a row deleted meanwhile stays deleted.        *)
UpdateRow(m) ==
    LET l == mgr[m].link IN
    /\ mgr[m] # None /\ mgr[m].pc = "write" /\ mgr[m].op = "update"
    /\ IF row[l] = None
         THEN UNCHANGED <<row, cap>>
         ELSE /\ row' = [row EXCEPT ![l].terms = mgr[m].terms]
              /\ cap' = [cap EXCEPT ![l] = Larger(@, mgr[m].terms.max)]
    /\ mgr' = [mgr EXCEPT ![m] = None]
    /\ UNCHANGED <<fresh, on, live, inside, now, visit, given>>

(* The policy refuses, or a statement fails.                                *)
AbandonOrder(m) ==
    /\ mgr[m] # None
    /\ mgr' = [mgr EXCEPT ![m] = None]
    /\ UNCHANGED <<row, fresh, on, live, inside, now, visit, given, cap>>

RevokeShare(l) ==
    /\ row[l] # None
    /\ row' = [row EXCEPT ![l].terms.revoked = TRUE]
    /\ UNCHANGED <<fresh, on, live, inside, now, visit, mgr, given, cap>>

DeleteShare(l) ==
    /\ row[l] # None
    /\ row' = [row EXCEPT ![l] = None]
    /\ UNCHANGED <<fresh, on, live, inside, now, visit, mgr, given, cap>>

-----------------------------------------------------------------------------
(* Around them.                                                             *)

(* patchSettingsWithPrefix.                                                 *)
TurnSwitch(s) ==
    /\ on' = IF s \in on THEN on \ {s} ELSE on \cup {s}
    /\ UNCHANGED <<row, fresh, live, inside, now, visit, mgr, given, cap>>

(* moveFile, in or out of the shared folder.                                *)
MoveFile(f) ==
    /\ f \in live
    /\ f \notin inside => Folder \in live
    /\ inside' = IF f \in inside THEN inside \ {f} ELSE inside \cup {f}
    /\ UNCHANGED <<row, fresh, on, live, now, visit, mgr, given, cap>>

(* deleteFile; deleteFolder takes what is inside along.                     *)
DeleteFile(f) ==
    /\ f \in live
    /\ live' = live \ {f}
    /\ UNCHANGED <<row, fresh, on, inside, now, visit, mgr, given, cap>>

DeleteFolder ==
    /\ Folder \in live
    /\ live' = live \ (inside \cup {Folder})
    /\ UNCHANGED <<row, fresh, on, inside, now, visit, mgr, given, cap>>

Tick ==
    /\ now < MaxTime
    /\ now' = now + 1
    /\ UNCHANGED <<row, fresh, on, live, inside, visit, mgr, given, cap>>

Request ==
    \E v \in Visit :
      \/ \E l \in Link, k \in Kind, f \in File \cup {None}, p \in Password \cup {None} :
           Arrive(v, l, k, f, p)
      \/ CheckEnabled(v) \/ ReadRow(v) \/ CheckSettings(v) \/ FindTarget(v)
      \/ CheckPreview(v) \/ Answer(v) \/ CountDownload(v) \/ GiveUp(v)

Manage ==
    \/ \E m \in Manager :
         \/ \E l \in Link, t \in Draft : CreateShare(m, l, t)
         \/ \E l \in Link, c \in Change : PatchShare(m, l, c)
         \/ CheckPolicy(m) \/ CheckPreviewPolicy(m)
         \/ InsertRow(m) \/ UpdateRow(m) \/ AbandonOrder(m)
    \/ \E l \in Link : RevokeShare(l) \/ DeleteShare(l)

Surroundings ==
    \/ \E s \in Flips : TurnSwitch(s)
    \/ \E f \in File : MoveFile(f) \/ DeleteFile(f)
    \/ DeleteFolder
    \/ Tick

Next == (Request \/ Manage \/ Surroundings) /\ Witness

Spec == Init /\ [][Next]_vars

-----------------------------------------------------------------------------
TypeOK ==
    /\ row \in [Link -> Row \cup {None}]
    /\ fresh \subseteq Link
    /\ on \subseteq Switch
    /\ live \subseteq File \cup {Folder}
    /\ inside \subseteq File
    /\ now \in 0..MaxTime
    /\ visit \in [Visit -> Task]
    /\ mgr \in [Manager -> Order \cup {None}]
    /\ grounds \in [Visit -> SUBSET {"enabled", "row", "limit", "settings", "target", "preview"}]
    /\ given \in [Link -> Nat]
    /\ cap \in [Link -> 1..MaxLimit \cup {None}]

(* A request is answered only on grounds that all held since it arrived:    *)
(* sharing was on; at one moment the link was there, not revoked, in date,  *)
(* opened by the password given, permitting the operation and, for a file,  *)
(* below its limit; and the administrator's switch for the operation was on *)
(* and the file was in the share, at some moment each.  Whatever the owner, *)
(* the administrator and the clock did between the queries, nothing that    *)
(* was over before the request came is answered.                            *)
AnsweredOnGrounds ==
    \A v \in Visit : At(v, "answer") => Checks(visit[v].kind) \subseteq grounds[v]

(* File downloads past their check and not yet counted.                     *)
Pending(l) ==
    {v \in Visit : /\ visit[v].link = l /\ visit[v].kind = "download"
                   /\ visit[v].pc \notin {"enabled", "row"}}

(* The limit is compared with a count that concurrent downloads have not    *)
(* reached yet.  Still, the file downloads counted and under way go over    *)
(* the highest limit the link has had by less than the requests served at   *)
(* once, whatever patches wrote back.                                       *)
DownloadsWithinLimit ==
    \A l \in Link :
      cap[l] # None
        => given[l] + Cardinality(Pending(l)) < cap[l] + Cardinality(Visit)

(* No download is answered of a link that was at its limit ever since the   *)
(* request came.                                                            *)
OverLimitDenied ==
    \A v \in Visit : At(v, "answer") /\ visit[v].kind \in Counted => "limit" \in grounds[v]
=============================================================================
