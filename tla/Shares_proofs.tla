---------------------------- MODULE Shares_proofs ----------------------------
(***************************************************************************)
(* Theorems about Shares for any number of links, files and concurrent      *)
(* requests, whatever owners ask and administrators switch.                 *)
(***************************************************************************)
EXTENDS Shares, FiniteSetTheorems, TLAPS

USE NoneAssumption, BoundAssumption

(* A visit is idle or on a link whose token was drawn.                      *)
Placed == \A v \in Visit : ~At(v, "idle") => visit[v].link \in Link \ fresh

-----------------------------------------------------------------------------
(* Types.                                                                   *)

LEMMA NoTaskType == NoTask \in Task
  BY DEF NoTask, Task, Steps, AllKinds

LEMMA FollowingSteps ==
  ASSUME NEW k, NEW c
  PROVE  Following(k, c) \in Steps \ {"idle", "count", "enabled"}
  BY DEF Following, Steps

LEMMA ChecksNamed ==
  ASSUME NEW k
  PROVE  Checks(k) \subseteq {"enabled", "row", "settings", "target", "preview"}
  BY DEF Checks

LEMMA GroundsType ==
  ASSUME TypeOK, Witness
  PROVE  grounds' \in [Visit -> SUBSET {"enabled", "row", "limit", "settings", "target",
                                        "preview"}]
  <1> DEFINE F == {"enabled", "row", "limit", "settings", "target", "preview"}
  <1>1. ASSUME NEW v \in Visit PROVE TrueNow(v)' \subseteq F
    BY ChecksNamed DEF TrueNow
  <1>2. \A v \in Visit : grounds[v] \subseteq F
    BY DEF TypeOK
  <1> QED
    BY <1>1, <1>2 DEF Witness

(* A visit that takes a step to a well-formed task.                         *)
LEMMA VisitType ==
  ASSUME TypeOK, Placed, NEW v \in Visit, NEW t \in Task,
         t.pc # "idle" => t.link \in Link \ fresh,
         visit' = [visit EXCEPT ![v] = t], fresh' = fresh
  PROVE  visit' \in [Visit -> Task] /\ Placed'
  BY DEF TypeOK, Placed, At

LEMMA RequestType ==
  ASSUME TypeOK, Placed, Request, Witness
  PROVE  TypeOK' /\ Placed'
  <1>g. grounds' \in [Visit -> SUBSET {"enabled", "row", "limit", "settings", "target",
                                       "preview"}]
    BY GroundsType
  <1>n. NoTask \in Task /\ NoTask.pc = "idle"
    BY NoTaskType DEF NoTask
  <1>p. ASSUME NEW v \in Visit, NEW c, c # "idle", Pass(v, c) PROVE TypeOK' /\ Placed'
    <2> DEFINE t == [visit[v] EXCEPT !.pc = Following(visit[v].kind, c)]
    <2>1. t \in Task /\ t.link = visit[v].link
      BY FollowingSteps DEF TypeOK, Task
    <2>2. visit[v].link \in Link \ fresh
      BY <1>p DEF Pass, Placed, At
    <2>3. visit' = [visit EXCEPT ![v] = t] /\ fresh' = fresh
      BY <1>p DEF Pass, TypeOK
    <2>4. UNCHANGED <<row, fresh, on, live, inside, now, mgr, given, cap>>
      BY <1>p DEF Pass
    <2> HIDE DEF t
    <2>5. visit' \in [Visit -> Task] /\ Placed'
      BY <2>1, <2>2, <2>3, VisitType
    <2> QED
      BY <2>4, <2>5, <1>g DEF TypeOK
  <1>1. ASSUME NEW v \in Visit, NEW l \in Link, NEW k \in Kind, NEW f \in File \cup {None},
               NEW p \in Password \cup {None}, Arrive(v, l, k, f, p)
        PROVE  TypeOK' /\ Placed'
    <2> DEFINE t == [NoTask EXCEPT !.pc = "enabled", !.link = l, !.kind = k, !.file = f,
                                   !.password = p]
    <2>1. t \in Task /\ t.link = l
      BY KindAssumption DEF Task, NoTask, Steps
    <2>2. visit' = [visit EXCEPT ![v] = t] /\ fresh' = fresh /\ l \notin fresh
      BY <1>1 DEF Arrive
    <2>3. UNCHANGED <<row, fresh, on, live, inside, now, mgr, given, cap>>
      BY <1>1 DEF Arrive
    <2> HIDE DEF t
    <2>4. visit' \in [Visit -> Task] /\ Placed'
      BY <2>1, <2>2, VisitType
    <2> QED
      BY <2>3, <2>4, <1>g DEF TypeOK
  <1>2. ASSUME NEW v \in Visit, ReadRow(v) PROVE TypeOK' /\ Placed'
    <2> DEFINE t == [visit[v] EXCEPT !.pc = Following(visit[v].kind, "row"),
                                     !.target = RowOf(v).terms.target]
    <2>1. visit[v].link \in Link \ fresh /\ RowOf(v) \in Row
      BY <1>2 DEF ReadRow, Resolves, Placed, At, RowOf, TypeOK
    <2>2. RowOf(v).terms.target \in File \cup {Folder}
      BY <2>1 DEF Row, Terms
    <2>3. t \in Task /\ t.link = visit[v].link
      <3>1. ASSUME NEW s \in Steps, NEW g \in File \cup {Folder}
            PROVE  /\ [visit[v] EXCEPT !.pc = s, !.target = g] \in Task
                   /\ [visit[v] EXCEPT !.pc = s, !.target = g].link = visit[v].link
        <4>1. visit[v] \in Task
          BY DEF TypeOK
        <4>2. g \in File \cup {Folder, None}
          OBVIOUS
        <4> QED
          BY <4>1, <4>2 DEF Task
      <3> QED
        BY <2>2, <3>1, FollowingSteps
    <2>4. visit' = [visit EXCEPT ![v] = t] /\ fresh' = fresh
      BY <1>2 DEF ReadRow, TypeOK
    <2>5. UNCHANGED <<row, fresh, on, live, inside, now, mgr, given, cap>>
      BY <1>2 DEF ReadRow
    <2> HIDE DEF t
    <2>6. visit' \in [Visit -> Task] /\ Placed'
      BY <2>1, <2>3, <2>4, VisitType
    <2> QED
      BY <2>5, <2>6, <1>g DEF TypeOK
  <1>3. ASSUME NEW v \in Visit, Answer(v) PROVE TypeOK' /\ Placed'
    <2> DEFINE t == IF visit[v].kind \in Counted THEN [visit[v] EXCEPT !.pc = "count"] ELSE NoTask
    <2>1. t \in Task /\ (t.pc # "idle" => t.link = visit[v].link)
      BY <1>n DEF TypeOK, Task, Steps
    <2>2. visit[v].link \in Link \ fresh
      BY <1>3 DEF Answer, Placed, At
    <2>3. visit' = [visit EXCEPT ![v] = t] /\ fresh' = fresh
      BY <1>3 DEF Answer
    <2>4. UNCHANGED <<row, fresh, on, live, inside, now, mgr, given, cap>>
      BY <1>3 DEF Answer
    <2> HIDE DEF t
    <2>5. visit' \in [Visit -> Task] /\ Placed'
      BY <2>1, <2>2, <2>3, VisitType
    <2> QED
      BY <2>4, <2>5, <1>g DEF TypeOK
  <1>4. ASSUME NEW v \in Visit, CountDownload(v) PROVE TypeOK' /\ Placed'
    <2> DEFINE l == visit[v].link
    <2>1. l \in Link
      BY <1>4 DEF CountDownload, Placed, At
    <2>2. row' \in [Link -> Row \cup {None}]
      <3>1. CASE row[l] = None
        BY <1>4, <3>1 DEF CountDownload, TypeOK
      <3>2. CASE row[l] # None
        <4>1. row[l] \in Row /\ row \in [Link -> Row \cup {None}]
          BY <2>1, <3>2 DEF TypeOK
        <4>2. [row[l] EXCEPT !.count = @ + 1] \in Row
          BY <4>1 DEF Row
        <4>3. row' = [row EXCEPT ![l] = [row[l] EXCEPT !.count = @ + 1]]
          BY <1>4, <3>2, <4>1 DEF CountDownload
        <4> QED
          BY <4>1, <4>2, <4>3
      <3> QED
        BY <3>1, <3>2
    <2>3. given' \in [Link -> Nat]
      BY <1>4, <2>1 DEF CountDownload, TypeOK
    <2>4. visit' \in [Visit -> Task] /\ Placed'
      BY <1>4, <1>n, VisitType DEF CountDownload
    <2>5. UNCHANGED <<fresh, on, live, inside, now, mgr, cap>>
      BY <1>4 DEF CountDownload
    <2> QED
      BY <2>2, <2>3, <2>4, <2>5, <1>g DEF TypeOK
  <1>5. ASSUME NEW v \in Visit, GiveUp(v) PROVE TypeOK' /\ Placed'
    <2>1. visit' \in [Visit -> Task] /\ Placed'
      BY <1>5, <1>n, VisitType DEF GiveUp
    <2> QED
      BY <1>5, <2>1, <1>g DEF GiveUp, TypeOK
  <1> QED
    BY <1>1, <1>2, <1>3, <1>4, <1>5, <1>p
       DEF Request, CheckEnabled, CheckSettings, FindTarget, CheckPreview

(* An order of the owner's, well formed.                                    *)
LEMMA OrderType ==
  ASSUME TypeOK, NEW m \in Manager, NEW o \in Order \cup {None},
         mgr' = [mgr EXCEPT ![m] = o]
  PROVE  mgr' \in [Manager -> Order \cup {None}]
  BY DEF TypeOK

LEMMA ManageType ==
  ASSUME TypeOK, Placed, Manage, Witness
  PROVE  TypeOK' /\ Placed'
  <1>g. grounds' \in [Visit -> SUBSET {"enabled", "row", "limit", "settings", "target",
                                       "preview"}]
    BY GroundsType
  <1>v. ASSUME visit' = visit, fresh' \subseteq fresh
        PROVE  visit' \in [Visit -> Task] /\ Placed' /\ fresh' \subseteq Link
    BY <1>v DEF TypeOK, Placed, At
  <1>1. ASSUME NEW m \in Manager, NEW l \in Link, NEW t \in Draft, CreateShare(m, l, t)
        PROVE  TypeOK' /\ Placed'
    <2>1. [pc |-> "policy", op |-> "insert", link |-> l, terms |-> t] \in Order
      BY DraftAssumption DEF Order
    <2>2. mgr' \in [Manager -> Order \cup {None}]
      BY <1>1, <2>1, OrderType DEF CreateShare
    <2> QED
      BY <1>1, <1>g, <1>v, <2>2 DEF CreateShare, TypeOK
  <1>2. ASSUME NEW m \in Manager, NEW l \in Link, NEW c \in Change, PatchShare(m, l, c)
        PROVE  TypeOK' /\ Placed'
    <2> DEFINE t == Patched(row[l].terms, c)
    <2>1. row[l].terms \in Terms
      BY <1>2 DEF PatchShare, TypeOK, Row
    <2>2. t \in Terms
      BY <2>1, ChangeAssumption
    <2>3. PICK pc \in {"policy", "write"} :
            mgr' = [mgr EXCEPT ![m] = [pc |-> pc, op |-> "update", link |-> l, terms |-> t]]
      BY <1>2 DEF PatchShare
    <2> HIDE DEF t
    <2>4. [pc |-> pc, op |-> "update", link |-> l, terms |-> t] \in Order
      BY <2>2 DEF Order
    <2>5. mgr' \in [Manager -> Order \cup {None}]
      BY <2>3, <2>4, OrderType
    <2>6. UNCHANGED <<row, fresh, on, live, inside, now, visit, given, cap>>
      BY <1>2 DEF PatchShare
    <2> QED
      BY <2>5, <2>6, <1>g, <1>v DEF TypeOK
  <1>3. ASSUME NEW m \in Manager, CheckPolicy(m) \/ CheckPreviewPolicy(m)
        PROVE  TypeOK' /\ Placed'
    <2>1. mgr[m] \in Order
      BY <1>3 DEF CheckPolicy, CheckPreviewPolicy, TypeOK
    <2>2. PICK pc \in {"previewPolicy", "write"} : mgr' = [mgr EXCEPT ![m].pc = pc]
      BY <1>3 DEF CheckPolicy, CheckPreviewPolicy
    <2>3. [mgr[m] EXCEPT !.pc = pc] \in Order
      BY <2>1 DEF Order
    <2>4. mgr' = [mgr EXCEPT ![m] = [mgr[m] EXCEPT !.pc = pc]]
      BY <2>2
    <2>5. mgr' \in [Manager -> Order \cup {None}]
      BY <2>3, <2>4, OrderType
    <2>6. UNCHANGED <<row, fresh, on, live, inside, now, visit, given, cap>>
      BY <1>3 DEF CheckPolicy, CheckPreviewPolicy
    <2> QED
      BY <2>5, <2>6, <1>g, <1>v DEF TypeOK
  <1>4. ASSUME NEW m \in Manager, InsertRow(m) \/ UpdateRow(m) PROVE TypeOK' /\ Placed'
    <2>1. mgr[m] \in Order
      BY <1>4 DEF InsertRow, UpdateRow, TypeOK
    <2>2. /\ mgr[m].link \in Link /\ mgr[m].terms \in Terms
          /\ mgr[m].terms.max \in 1..MaxLimit \cup {None}
      BY <2>1 DEF Order, Terms
    <2>3. mgr' \in [Manager -> Order \cup {None}]
      BY <1>4, OrderType DEF InsertRow, UpdateRow
    <2>4. row' \in [Link -> Row \cup {None}] /\ cap' \in [Link -> 1..MaxLimit \cup {None}]
      <3>1. CASE InsertRow(m)
        <4>1. [terms |-> mgr[m].terms, count |-> 0] \in Row
          BY <2>2 DEF Row
        <4> QED
          BY <3>1, <4>1, <2>2 DEF InsertRow, TypeOK
      <3>2. CASE UpdateRow(m) /\ row[mgr[m].link] = None
        BY <3>2 DEF UpdateRow, TypeOK
      <3>3. CASE UpdateRow(m) /\ row[mgr[m].link] # None
        <4> DEFINE l == mgr[m].link  t == mgr[m].terms
        <4>0. l \in Link /\ t \in Terms
          BY <2>2
        <4>1. row' = [row EXCEPT ![l].terms = t] /\ cap' = [cap EXCEPT ![l] = Larger(@, t.max)]
          BY <3>3 DEF UpdateRow
        <4>2. row[l] \in Row /\ cap[l] \in 1..MaxLimit \cup {None}
          BY <4>0, <3>3 DEF TypeOK
        <4>3. Larger(cap[l], t.max) \in 1..MaxLimit \cup {None}
          BY <4>2, <2>2 DEF Larger
        <4> HIDE DEF l, t
        <4>4. [row[l] EXCEPT !.terms = t] \in Row
          BY <4>0, <4>2 DEF Row
        <4>5. row' = [row EXCEPT ![l] = [row[l] EXCEPT !.terms = t]]
          BY <4>1
        <4>6. row \in [Link -> Row \cup {None}] /\ cap \in [Link -> 1..MaxLimit \cup {None}]
          BY DEF TypeOK
        <4>7. row' \in [Link -> Row \cup {None}]
          BY <4>4, <4>5, <4>6
        <4> QED
          BY <4>1, <4>3, <4>6, <4>7
      <3> QED
        BY <1>4, <3>1, <3>2, <3>3
    <2>5. UNCHANGED <<fresh, on, live, inside, now, visit, given>>
      BY <1>4 DEF InsertRow, UpdateRow
    <2> QED
      BY <2>3, <2>4, <2>5, <1>g, <1>v DEF TypeOK
  <1>5. ASSUME NEW m \in Manager, AbandonOrder(m) PROVE TypeOK' /\ Placed'
    <2>1. mgr' \in [Manager -> Order \cup {None}]
      BY <1>5, OrderType DEF AbandonOrder
    <2> QED
      BY <1>5, <2>1, <1>g, <1>v DEF AbandonOrder, TypeOK
  <1>6. ASSUME NEW l \in Link, RevokeShare(l) \/ DeleteShare(l) PROVE TypeOK' /\ Placed'
    <2>1. row[l] \in Row
      BY <1>6 DEF RevokeShare, DeleteShare, TypeOK
    <2> DEFINE t == [row[l].terms EXCEPT !.revoked = TRUE]
    <2>2. row[l].terms \in Terms
      BY <2>1 DEF Row
    <2>3. t \in Terms
      BY <2>2 DEF Terms
    <2> HIDE DEF t
    <2>4. [row[l] EXCEPT !.terms = t] \in Row
      BY <2>1, <2>3 DEF Row
    <2>5. RevokeShare(l) => row' = [row EXCEPT ![l] = [row[l] EXCEPT !.terms = t]]
      BY DEF RevokeShare, t
    <2>6. row' \in [Link -> Row \cup {None}]
      <3>1. row \in [Link -> Row \cup {None}]
        BY DEF TypeOK
      <3>2. CASE RevokeShare(l)
        BY <2>4, <2>5, <3>1, <3>2
      <3>3. CASE DeleteShare(l)
        BY <3>1, <3>3 DEF DeleteShare
      <3> QED
        BY <1>6, <3>2, <3>3
    <2>7. UNCHANGED <<fresh, on, live, inside, now, visit, mgr, given, cap>>
      BY <1>6 DEF RevokeShare, DeleteShare
    <2> QED
      BY <2>6, <2>7, <1>g, <1>v DEF TypeOK
  <1> QED
    BY <1>1, <1>2, <1>3, <1>4, <1>5, <1>6 DEF Manage

LEMMA StepType == TypeOK /\ Placed /\ [Next]_vars => TypeOK' /\ Placed'
  <1> SUFFICES ASSUME TypeOK, Placed, [Next]_vars PROVE TypeOK' /\ Placed'
    OBVIOUS
  <1>1. CASE Surroundings /\ Witness
    <2>1. visit' = visit /\ fresh' = fresh /\ UNCHANGED <<row, mgr, given, cap>>
      BY <1>1 DEF Surroundings, TurnSwitch, MoveFile, DeleteFile, DeleteFolder, Tick
    <2>2. on' \subseteq Switch
      BY <1>1, KindAssumption
         DEF Surroundings, TurnSwitch, MoveFile, DeleteFile, DeleteFolder, Tick, TypeOK
    <2>3. live' \subseteq File \cup {Folder} /\ inside' \subseteq File
      BY <1>1 DEF Surroundings, TurnSwitch, MoveFile, DeleteFile, DeleteFolder, Tick, TypeOK
    <2>4. now' \in 0..MaxTime
      BY <1>1 DEF Surroundings, TurnSwitch, MoveFile, DeleteFile, DeleteFolder, Tick, TypeOK
    <2>5. Placed'
      BY <2>1 DEF Placed, At
    <2>6. grounds' \in [Visit -> SUBSET {"enabled", "row", "limit", "settings", "target",
                                         "preview"}]
      BY <1>1, GroundsType
    <2> QED
      BY <2>1, <2>2, <2>3, <2>4, <2>5, <2>6 DEF TypeOK
  <1>2. CASE UNCHANGED vars
    BY <1>2 DEF vars, TypeOK, Placed, At
  <1> QED
    BY <1>1, <1>2, RequestType, ManageType DEF Next

-----------------------------------------------------------------------------
(* What a visit has been answered on.                                       *)

(* The checks that come before a step; counting no longer needs them.       *)
Before(pc) ==
    CASE pc = "row"      -> {"enabled"}
      [] pc = "settings" -> {"enabled", "row"}
      [] pc = "target"   -> {"enabled", "row", "settings"}
      [] pc = "preview"  -> {"enabled", "row", "settings", "target"}
      [] pc = "answer"   -> {"enabled", "row", "settings", "target", "preview"}
      [] OTHER           -> {}

Grounded == \A v \in Visit : Before(visit[v].pc) \cap Checks(visit[v].kind) \subseteq grounds[v]

LEMMA BeforeFollowing ==
  ASSUME NEW k \in AllKinds, NEW c \in {"enabled", "row", "settings", "target", "preview"}
  PROVE  Before(Following(k, c)) \cap Checks(k) \subseteq Before(c) \cup {c}
  BY DEF Before, Following, Checks, AllKinds, Previews, Counted, OfFolder, OfFile

(* Steps that move no visit forward.                                        *)
LEMMA GroundsStay ==
  ASSUME TypeOK, Grounded, Witness, NEW v \in Visit,
         \/ visit'[v] = visit[v]
         \/ visit'[v].pc \in {"idle", "enabled", "count"}
  PROVE  Before(visit[v].pc)' \cap Checks(visit[v].kind)' \subseteq grounds'[v]
  <1>1. CASE visit'[v].pc \in {"idle", "enabled", "count"}
    BY <1>1 DEF Before
  <1>2. CASE visit'[v] = visit[v] /\ visit'[v].pc \notin {"idle", "enabled", "count"}
    <2>1. grounds[v] \subseteq grounds'[v]
      BY <1>2 DEF Witness, At
    <2> QED
      BY <1>2, <2>1 DEF Grounded
  <1> QED
    BY <1>1, <1>2

(* A check that passes puts what it found among the grounds.                *)
LEMMA GroundsGrow ==
  ASSUME TypeOK, Grounded, Witness, NEW v \in Visit,
         NEW c \in {"enabled", "row", "settings", "target", "preview"}, At(v, c),
         visit'[v].kind = visit[v].kind, visit'[v].pc = Following(visit[v].kind, c),
         c \in Checks(visit[v].kind) => c \in TrueNow(v)',
         \A u \in Visit \ {v} : visit'[u] = visit[u]
  PROVE  Grounded'
  <1> SUFFICES ASSUME NEW u \in Visit
               PROVE  Before(visit[u].pc)' \cap Checks(visit[u].kind)' \subseteq grounds'[u]
    BY DEF Grounded
  <1>1. CASE u # v
    BY <1>1, GroundsStay
  <1>2. CASE u = v
    <2>1. visit'[v].pc # "idle"
      BY FollowingSteps
    <2>2. grounds'[v] = grounds[v] \cup TrueNow(v)'
      BY <2>1 DEF Witness, At
    <2>3. visit[v].kind \in AllKinds
      BY DEF TypeOK, Task
    <2>4. Before(visit'[v].pc) \cap Checks(visit[v].kind) \subseteq Before(c) \cup {c}
      BY <2>3, BeforeFollowing
    <2>5. Before(c) \cap Checks(visit[v].kind) \subseteq grounds[v]
      BY DEF Grounded, At
    <2> QED
      BY <1>2, <2>2, <2>4, <2>5
  <1> QED
    BY <1>1, <1>2

LEMMA RequestGrounded ==
  ASSUME TypeOK, Placed, Grounded, Request, Witness
  PROVE  Grounded'
  <1>p. ASSUME NEW v \in Visit, NEW c, Pass(v, c)
        PROVE  /\ visit'[v].kind = visit[v].kind /\ visit'[v].target = visit[v].target
               /\ visit'[v].file = visit[v].file /\ visit'[v].link = visit[v].link
               /\ visit'[v].pc = Following(visit[v].kind, c)
               /\ \A u \in Visit \ {v} : visit'[u] = visit[u]
               /\ UNCHANGED <<row, on, live, inside>>
    <2>1. visit[v] \in Task /\ visit \in [Visit -> Task]
      BY DEF TypeOK
    <2>2. visit' = [visit EXCEPT ![v] = [visit[v] EXCEPT !.pc = Following(visit[v].kind, c)]]
      BY <1>p, <2>1 DEF Pass
    <2>3. UNCHANGED <<row, on, live, inside>>
      BY <1>p DEF Pass
    <2> QED
      BY <2>1, <2>2, <2>3 DEF Task
  <1>s. ASSUME NEW v \in Visit, visit' = [visit EXCEPT ![v] = visit'[v]],
               visit'[v].pc \in {"idle", "enabled", "count"}
        PROVE  Grounded'
    <2>1. \A u \in Visit \ {v} : visit'[u] = visit[u]
      BY <1>s DEF TypeOK
    <2> QED
      BY <1>s, <2>1, GroundsStay DEF Grounded
  <1>1. ASSUME NEW v \in Visit, CheckEnabled(v) PROVE Grounded'
    <2>1. "enabled" \in Checks(visit[v].kind) => "enabled" \in TrueNow(v)'
      BY <1>1, <1>p DEF CheckEnabled, TrueNow
    <2> QED
      BY <1>1, <1>p, <2>1, GroundsGrow DEF CheckEnabled, Pass
  <1>2. ASSUME NEW v \in Visit, CheckSettings(v) PROVE Grounded'
    <2>1. "settings" \in Checks(visit[v].kind) => "settings" \in TrueNow(v)'
      BY <1>2, <1>p DEF CheckSettings, TrueNow, Public
    <2> QED
      BY <1>2, <1>p, <2>1, GroundsGrow DEF CheckSettings, Pass
  <1>3. ASSUME NEW v \in Visit, FindTarget(v) PROVE Grounded'
    <2>1. "target" \in Checks(visit[v].kind) => "target" \in TrueNow(v)'
      BY <1>3, <1>p DEF FindTarget, FindsTarget, InShare, TrueNow
    <2> QED
      BY <1>3, <1>p, <2>1, GroundsGrow DEF FindTarget, Pass
  <1>4. ASSUME NEW v \in Visit, CheckPreview(v) PROVE Grounded'
    <2>1. "preview" \in Checks(visit[v].kind) => "preview" \in TrueNow(v)'
      BY <1>4, <1>p DEF CheckPreview, TrueNow
    <2> QED
      BY <1>4, <1>p, <2>1, GroundsGrow DEF CheckPreview, Pass
  <1>5. ASSUME NEW v \in Visit, ReadRow(v) PROVE Grounded'
    <2>1. visit[v] \in Task /\ visit \in [Visit -> Task]
      BY DEF TypeOK
    <2>2. visit' = [visit EXCEPT ![v] = [visit[v] EXCEPT !.pc = Following(visit[v].kind, "row"),
                                                         !.target = RowOf(v).terms.target]]
      BY <1>5, <2>1 DEF ReadRow
    <2>3. /\ visit'[v].kind = visit[v].kind /\ visit'[v].link = visit[v].link
          /\ visit'[v].password = visit[v].password
          /\ visit'[v].pc = Following(visit[v].kind, "row")
          /\ \A u \in Visit \ {v} : visit'[u] = visit[u]
      BY <2>1, <2>2 DEF Task
    <2>4. row' = row /\ now' = now
      BY <1>5 DEF ReadRow
    <2>5. RowOf(v) \in Row
      BY <1>5 DEF ReadRow, Resolves, RowOf, Placed, At, TypeOK
    <2>6. /\ RowOf(v).count \in Nat /\ RowOf(v).terms.max \in 1..MaxLimit \cup {None}
          /\ RowOf(v).terms.expires \in 0..MaxTime \cup {None}
      BY <2>5 DEF Row, Terms
    <2>7. now \in 0..MaxTime
      BY DEF TypeOK
    <2>8. RowOf(v)' = RowOf(v)
      BY <2>3, <2>4 DEF RowOf
    <2>9. /\ RowOf(v) # None /\ ~RowOf(v).terms.revoked
          /\ RowOf(v).terms.expires # None => now <= RowOf(v).terms.expires
          /\ visit[v].kind # "info" /\ RowOf(v).terms.password # None
               => visit[v].password = RowOf(v).terms.password
          /\ Allows(RowOf(v).terms, visit[v].kind)
          /\ RowOf(v).terms.max # None /\ RowOf(v).count >= RowOf(v).terms.max
               => visit[v].kind \notin {"download", "inline"}
      BY <1>5, <2>6, <2>7 DEF ReadRow, Resolves, Opens, Expired, LimitLeft
    <2>10. "row" \in Checks(visit[v].kind) => "row" \in TrueNow(v)'
      BY <2>3, <2>4, <2>8, <2>9 DEF TrueNow, Allows
    <2> QED
      BY <1>5, <2>3, <2>10, GroundsGrow DEF ReadRow
  <1>6. ASSUME NEW v \in Visit, NEW l \in Link, NEW k \in Kind, NEW f \in File \cup {None},
               NEW p \in Password \cup {None}, Arrive(v, l, k, f, p)
        PROVE  Grounded'
    BY <1>6, <1>s DEF Arrive, TypeOK, NoTask
  <1>7. ASSUME NEW v \in Visit, Answer(v) \/ CountDownload(v) \/ GiveUp(v) PROVE Grounded'
    <2>1. visit[v] \in Task /\ visit \in [Visit -> Task]
      BY DEF TypeOK
    <2>2. visit' = [visit EXCEPT ![v] = visit'[v]]
      BY <1>7, <2>1 DEF Answer, CountDownload, GiveUp
    <2>3. visit'[v].pc \in {"idle", "count"}
      BY <1>7, <2>1 DEF Answer, CountDownload, GiveUp, NoTask, Task
    <2> QED
      BY <1>s, <2>2, <2>3
  <1> QED
    BY <1>1, <1>2, <1>3, <1>4, <1>5, <1>6, <1>7 DEF Request

LEMMA StepGrounded == TypeOK /\ Placed /\ Grounded /\ [Next]_vars => Grounded'
  <1> SUFFICES ASSUME TypeOK, Placed, Grounded, [Next]_vars PROVE Grounded'
    OBVIOUS
  <1>1. CASE (Manage \/ Surroundings) /\ Witness
    <2>1. visit' = visit
      BY <1>1 DEF Manage, Surroundings, CreateShare, PatchShare, CheckPolicy, CheckPreviewPolicy,
                  InsertRow, UpdateRow, AbandonOrder, RevokeShare, DeleteShare,
                  TurnSwitch, MoveFile, DeleteFile, DeleteFolder, Tick
    <2> QED
      BY <1>1, <2>1, GroundsStay DEF Grounded
  <1>2. CASE UNCHANGED vars
    BY <1>2 DEF vars, Grounded
  <1> QED
    BY <1>1, <1>2, RequestGrounded DEF Next

-----------------------------------------------------------------------------
(* How far over its limit a link can go.                                    *)

(* A token without a row yet: no request gets past reading the row.         *)
Unborn(l) ==
    /\ row[l] = None /\ given[l] = 0 /\ cap[l] = None
    /\ \A v \in Visit : visit[v].link = l => visit[v].pc \in {"enabled", "row"}

Inserting(m) == mgr[m] # None /\ mgr[m].op = "insert"

(* A row is inserted once, and nothing has happened under its token before. *)
BornOnce ==
    /\ \A l \in fresh : Unborn(l)
    /\ \A m \in Manager : Inserting(m) =>
         /\ mgr[m].link \in Link \ fresh /\ Unborn(mgr[m].link)
         /\ \A n \in Manager \ {m} : Inserting(n) => mgr[n].link # mgr[m].link

(* The row counts what was given, and its limit is one cap knows of.        *)
Kept(l) ==
    row[l] # None => /\ given[l] <= row[l].count
                     /\ cap[l] # None => row[l].terms.max # None /\ row[l].terms.max <= cap[l]

Within(l) == cap[l] # None => given[l] + Cardinality(Pending(l)) < cap[l] + Cardinality(Visit)

LimitInv == BornOnce /\ \A l \in Link : Kept(l) /\ Within(l)

IndInv == TypeOK /\ Placed /\ Grounded /\ LimitInv

LEMMA PendingFinite ==
  ASSUME NEW l
  PROVE  /\ IsFiniteSet(Pending(l)) /\ Cardinality(Pending(l)) \in Nat
         /\ Cardinality(Visit) \in Nat /\ Cardinality(Pending(l)) <= Cardinality(Visit)
  <1>1. Pending(l) \subseteq Visit
    BY DEF Pending
  <1> QED
    BY <1>1, VisitAssumption, FS_Subset, FS_CardinalityType

LEMMA PendingFiniteNext ==
  ASSUME NEW l
  PROVE  /\ IsFiniteSet(Pending(l)') /\ Cardinality(Pending(l)') \in Nat
         /\ Cardinality(Pending(l)') <= Cardinality(Visit)
  <1>1. Pending(l)' \subseteq Visit
    BY DEF Pending
  <1> QED
    BY <1>1, VisitAssumption, FS_Subset, FS_CardinalityType

(* Nothing new under way, nothing new given.                                *)
LEMMA WithinStays ==
  ASSUME TypeOK, NEW l \in Link, Within(l), Pending(l)' \subseteq Pending(l),
         given'[l] = given[l], cap'[l] = cap[l]
  PROVE  Within(l)'
  <1>1. Cardinality(Pending(l)') <= Cardinality(Pending(l))
    BY PendingFinite, FS_Subset
  <1>2. /\ Cardinality(Pending(l)') \in Nat /\ Cardinality(Pending(l)) \in Nat
        /\ Cardinality(Visit) \in Nat
    BY PendingFinite, PendingFiniteNext
  <1>3. given[l] \in Nat /\ cap[l] \in 1..MaxLimit \cup {None}
    BY DEF TypeOK
  <1> QED
    BY <1>1, <1>2, <1>3 DEF Within

(* Tokens and orders, when the orders and the fresh tokens stay.            *)
LEMMA BornOnceStays ==
  ASSUME BornOnce, mgr' = mgr, fresh' = fresh, fresh \subseteq Link,
         \A l \in Link : Unborn(l) => Unborn(l)'
  PROVE  BornOnce'
  BY DEF BornOnce, Inserting

(* A visit moves: forward, or back to idle.                                 *)
LEMMA VisitMoves ==
  ASSUME TypeOK, Placed, LimitInv, NEW v \in Visit,
         visit' = [visit EXCEPT ![v] = visit'[v]],
         visit'[v].pc = "idle" => visit'[v].link = None,
         visit'[v].pc # "idle" => visit'[v].link = visit[v].link /\ visit[v].pc # "idle",
         visit'[v].pc # "idle" => visit'[v].kind = visit[v].kind,
         visit[v].pc \in {"enabled", "row"} => visit'[v].pc \in {"enabled", "row", "idle"},
         UNCHANGED <<row, fresh, mgr, given, cap>>
  PROVE  LimitInv'
  <1>0. visit \in [Visit -> Task] /\ fresh \subseteq Link
    BY DEF TypeOK
  <1>1. \A u \in Visit \ {v} : visit'[u] = visit[u]
    BY <1>0
  <1>2. ASSUME NEW l \in Link PROVE Pending(l)' \subseteq Pending(l)
    <2> SUFFICES ASSUME NEW u \in Visit, u \in Pending(l)' PROVE u \in Pending(l)
      BY DEF Pending
    <2>1. CASE u # v
      BY <1>1, <2>1 DEF Pending
    <2>2. CASE u = v
      <3>1. /\ visit'[v].link = l /\ visit'[v].kind = "download"
            /\ visit'[v].pc \notin {"enabled", "row"}
        BY <2>2 DEF Pending
      <3>2. visit[v].link = l /\ visit[v].kind = "download"
        BY <3>1
      <3>3. visit[v].pc \notin {"enabled", "row"}
        BY <3>1
      <3> QED
        BY <2>2, <3>2, <3>3 DEF Pending
    <2> QED
      BY <2>1, <2>2
  <1>3. ASSUME NEW l \in Link, Unborn(l) PROVE Unborn(l)'
    BY <1>1, <1>3, NoneAssumption DEF Unborn
  <1>4. BornOnce'
    BY <1>0, <1>3, BornOnceStays DEF LimitInv
  <1>5. \A l \in Link : Within(l)'
    BY <1>2, WithinStays DEF LimitInv
  <1>6. \A l \in Link : Kept(l)'
    BY DEF LimitInv, Kept
  <1> QED
    BY <1>4, <1>5, <1>6 DEF LimitInv

LEMMA RequestLimits ==
  ASSUME TypeOK, Placed, LimitInv, Request
  PROVE  LimitInv'
  <1>t. /\ visit \in [Visit -> Task] /\ fresh \subseteq Link
        /\ NoTask.pc = "idle" /\ NoTask.link = None
    BY DEF TypeOK, NoTask
  <1>p. ASSUME NEW v \in Visit, NEW c \in {"enabled", "settings", "target", "preview"}, Pass(v, c)
        PROVE  LimitInv'
    <2> DEFINE s == Following(visit[v].kind, c)
    <2>1. s \in Steps \ {"idle", "count", "enabled"} /\ (c = "enabled" => s = "row")
      BY FollowingSteps DEF Following
    <2> HIDE DEF s
    <2>2. visit' = [visit EXCEPT ![v].pc = s] /\ visit[v].pc = c
      BY <1>p DEF Pass, At, s
    <2>3. visit[v] \in Task
      BY <1>t
    <2>4. /\ visit' = [visit EXCEPT ![v] = visit'[v]] /\ visit'[v].pc = s
          /\ visit'[v].link = visit[v].link /\ visit'[v].kind = visit[v].kind
      BY <1>t, <2>2, <2>3 DEF Task
    <2>5. UNCHANGED <<row, fresh, mgr, given, cap>>
      BY <1>p DEF Pass
    <2> QED
      BY <2>1, <2>2, <2>4, <2>5, VisitMoves
  <1>1. ASSUME NEW v \in Visit, NEW l \in Link, NEW k \in Kind, NEW f \in File \cup {None},
               NEW p \in Password \cup {None}, Arrive(v, l, k, f, p)
        PROVE  LimitInv'
    <2>1. /\ l \notin fresh /\ visit'[v].link = l /\ visit'[v].pc = "enabled"
          /\ \A u \in Visit \ {v} : visit'[u] = visit[u]
          /\ UNCHANGED <<row, fresh, mgr, given, cap>>
      BY <1>1, <1>t DEF Arrive, NoTask
    <2>2. ASSUME NEW i \in Link, Unborn(i) PROVE Unborn(i)'
      BY <2>1, <2>2 DEF Unborn
    <2>3. BornOnce'
      BY <1>t, <2>1, <2>2, BornOnceStays DEF LimitInv
    <2>4. ASSUME NEW i \in Link PROVE Pending(i)' \subseteq Pending(i)
      BY <2>1 DEF Pending
    <2>5. \A i \in Link : Within(i)'
      BY <2>1, <2>4, WithinStays DEF LimitInv
    <2>6. \A i \in Link : Kept(i)'
      BY <2>1 DEF LimitInv, Kept
    <2> QED
      BY <2>3, <2>5, <2>6 DEF LimitInv
  <1>2. ASSUME NEW v \in Visit, ReadRow(v) PROVE LimitInv'
    <2> DEFINE l == visit[v].link  s == Following(visit[v].kind, "row")
    <2>1. visit[v] \in Task /\ l \in Link /\ row[l] # None /\ row[l] \in Row
      BY <1>2, <1>t DEF ReadRow, Resolves, RowOf, Placed, At, TypeOK
    <2>2. /\ visit'[v].link = l /\ visit'[v].kind = visit[v].kind /\ visit'[v].pc # "idle"
          /\ \A u \in Visit \ {v} : visit'[u] = visit[u]
      BY <1>2, <1>t, <2>1, FollowingSteps DEF ReadRow, Task
    <2>3. UNCHANGED <<row, fresh, mgr, given, cap>>
      BY <1>2 DEF ReadRow
    <2>4. ASSUME NEW i \in Link, Unborn(i) PROVE Unborn(i)'
      BY <2>1, <2>2, <2>3, <2>4 DEF Unborn
    <2>5. BornOnce'
      BY <1>t, <2>3, <2>4, BornOnceStays DEF LimitInv
    <2>6. ASSUME NEW i \in Link PROVE Within(i)'
      <3>1. CASE i # l \/ visit[v].kind # "download"
        <4>1. Pending(i)' \subseteq Pending(i)
          BY <2>2, <3>1 DEF Pending
        <4> QED
          BY <2>3, <4>1, WithinStays DEF LimitInv
      <3>2. CASE i = l /\ visit[v].kind = "download" /\ cap[l] # None
        <4>1. row[i].terms.max # None => row[i].count < row[i].terms.max
          BY <1>2, <3>2 DEF ReadRow, LimitLeft, RowOf
        <4>2. given[i] <= row[i].count /\ row[i].terms.max # None /\ row[i].terms.max <= cap[i]
          BY <2>1, <3>2 DEF LimitInv, Kept
        <4>3. /\ given[i] \in Nat /\ row[i].count \in Nat /\ cap[i] \in 1..MaxLimit
              /\ row[i].terms.max \in 1..MaxLimit
          BY <2>1, <3>2, <4>2 DEF TypeOK, Row, Terms
        <4>4. given[i] < cap[i]
          BY <4>1, <4>2, <4>3
        <4>5. Cardinality(Pending(i)') <= Cardinality(Visit)
              /\ Cardinality(Pending(i)') \in Nat /\ Cardinality(Visit) \in Nat
          BY PendingFinite, PendingFiniteNext
        <4>6. given[i] + Cardinality(Pending(i)') < cap[i] + Cardinality(Visit)
          BY <4>3, <4>4, <4>5
        <4>7. given' = given /\ cap' = cap
          BY <2>3
        <4> QED
          BY <4>6, <4>7 DEF Within
      <3>3. CASE cap[i] = None
        BY <2>3, <3>3 DEF Within
      <3> QED
        BY <3>1, <3>2, <3>3
    <2>7. \A i \in Link : Kept(i)'
      BY <2>3 DEF LimitInv, Kept
    <2> QED
      BY <2>5, <2>6, <2>7 DEF LimitInv
  <1>3. ASSUME NEW v \in Visit, Answer(v) PROVE LimitInv'
    <2>1. visit[v] \in Task /\ visit[v].pc = "answer"
      BY <1>3, <1>t DEF Answer, At
    <2>2. UNCHANGED <<row, fresh, mgr, given, cap>>
      BY <1>3 DEF Answer
    <2>3. CASE visit[v].kind \in Counted
      <3>1. /\ visit' = [visit EXCEPT ![v] = visit'[v]] /\ visit'[v].pc = "count"
            /\ visit'[v].link = visit[v].link /\ visit'[v].kind = visit[v].kind
        BY <1>3, <1>t, <2>1, <2>3 DEF Answer, Task
      <3> QED
        BY <2>1, <2>2, <3>1, VisitMoves
    <2>4. CASE visit[v].kind \notin Counted
      <3>1. visit' = [visit EXCEPT ![v] = visit'[v]] /\ visit'[v] = NoTask
        BY <1>3, <1>t, <2>4 DEF Answer
      <3> QED
        BY <1>t, <2>1, <2>2, <3>1, VisitMoves
    <2> QED
      BY <2>3, <2>4
  <1>4. ASSUME NEW v \in Visit, CountDownload(v) PROVE LimitInv'
    <2> DEFINE l == visit[v].link
    <2>1. visit[v] \in Task /\ visit[v].pc = "count" /\ l \in Link
      BY <1>4, <1>t DEF CountDownload, At, Placed
    <2>2. /\ visit'[v].link = None /\ visit'[v].pc = "idle"
          /\ \A u \in Visit \ {v} : visit'[u] = visit[u]
      BY <1>4, <1>t DEF CountDownload
    <2>3. UNCHANGED <<fresh, mgr, cap>>
      BY <1>4 DEF CountDownload
    <2>4. /\ \A i \in Link \ {l} : row'[i] = row[i] /\ given'[i] = given[i]
          /\ given \in [Link -> Nat] /\ row \in [Link -> Row \cup {None}]
      BY <1>4 DEF CountDownload, TypeOK
    <2>5. ~Unborn(l)
      BY <2>1 DEF Unborn
    <2>6. ASSUME NEW i \in Link, Unborn(i) PROVE Unborn(i)'
      BY <2>2, <2>3, <2>4, <2>5, <2>6, NoneAssumption DEF Unborn
    <2>7. BornOnce'
      BY <1>t, <2>3, <2>6, BornOnceStays DEF LimitInv
    <2>8. ASSUME NEW i \in Link PROVE Pending(i)' \subseteq Pending(i) \ {v}
      BY <2>2, NoneAssumption DEF Pending
    <2>9. ASSUME NEW i \in Link PROVE Within(i)'
      <3>1. CASE given'[i] = given[i]
        BY <2>3, <2>8, <3>1, WithinStays DEF LimitInv
      <3>2. CASE given'[i] # given[i] /\ cap[i] # None
        <4>1. i = l /\ visit[v].kind = "download" /\ given'[i] = given[i] + 1
          BY <1>4, <2>4, <3>2 DEF CountDownload
        <4>2. v \in Pending(i)
          BY <2>1, <4>1 DEF Pending
        <4>3. Cardinality(Pending(i)') <= Cardinality(Pending(i)) - 1
          <5>1. /\ IsFiniteSet(Pending(i) \ {v})
                /\ Cardinality(Pending(i) \ {v}) = Cardinality(Pending(i)) - 1
            BY <4>2, PendingFinite, FS_RemoveElement
          <5>2. Cardinality(Pending(i)') <= Cardinality(Pending(i) \ {v})
            BY <2>8, <5>1, FS_Subset
          <5> QED
            BY <5>1, <5>2
        <4>4. given[i] + Cardinality(Pending(i)) < cap[i] + Cardinality(Visit)
          BY <3>2 DEF LimitInv, Within
        <4>5. /\ Cardinality(Pending(i)') \in Nat /\ Cardinality(Pending(i)) \in Nat
              /\ Cardinality(Visit) \in Nat
          BY PendingFinite, PendingFiniteNext
        <4>6. given[i] \in Nat /\ cap[i] \in 1..MaxLimit
          BY <3>2 DEF TypeOK
        <4>7. given'[i] + Cardinality(Pending(i)') < cap[i] + Cardinality(Visit)
          BY <4>1, <4>3, <4>4, <4>5, <4>6
        <4> QED
          BY <2>3, <4>7 DEF Within
      <3>3. CASE cap[i] = None
        BY <2>3, <3>3 DEF Within
      <3> QED
        BY <3>1, <3>2, <3>3
    <2>10. ASSUME NEW i \in Link PROVE Kept(i)'
      <3>1. CASE i # l
        BY <2>3, <2>4, <3>1 DEF LimitInv, Kept
      <3>2. CASE i = l /\ row[l] # None
        <4>1. row[l] \in Row
          BY <2>1, <2>4, <3>2
        <4>2. row'[l] = [row[l] EXCEPT !.count = @ + 1]
          BY <1>4, <2>1, <2>4, <3>2 DEF CountDownload
        <4>3. row'[l].terms = row[l].terms /\ row'[l].count = row[l].count + 1
              /\ row[l].count \in Nat
          BY <4>1, <4>2 DEF Row
        <4>4. given'[l] \in {given[l], given[l] + 1} /\ given[l] \in Nat
          BY <1>4, <2>1, <2>4 DEF CountDownload
        <4>5. Kept(l)
          BY <2>1 DEF LimitInv
        <4> HIDE DEF l
        <4> QED
          BY <2>3, <3>2, <4>3, <4>4, <4>5 DEF Kept
      <3>3. CASE i = l /\ row[l] = None
        BY <1>4, <3>3 DEF CountDownload, Kept
      <3> QED
        BY <3>1, <3>2, <3>3
    <2> QED
      BY <2>7, <2>9, <2>10 DEF LimitInv
  <1>5. ASSUME NEW v \in Visit, GiveUp(v) PROVE LimitInv'
    <2>1. visit' = [visit EXCEPT ![v] = visit'[v]] /\ visit'[v] = NoTask
      BY <1>5, <1>t DEF GiveUp
    <2>2. UNCHANGED <<row, fresh, mgr, given, cap>>
      BY <1>5 DEF GiveUp
    <2> QED
      BY <1>t, <2>1, <2>2, VisitMoves
  <1> QED
    BY <1>1, <1>2, <1>3, <1>4, <1>5, <1>p
       DEF Request, CheckEnabled, CheckSettings, FindTarget, CheckPreview

(* The owner's requests leave the visits alone.                             *)
LEMMA ManageLimits ==
  ASSUME TypeOK, Placed, LimitInv, Manage
  PROVE  LimitInv'
  <1>t. /\ visit \in [Visit -> Task] /\ fresh \subseteq Link
        /\ row \in [Link -> Row \cup {None}] /\ cap \in [Link -> 1..MaxLimit \cup {None}]
        /\ mgr \in [Manager -> Order \cup {None}]
    BY DEF TypeOK
  <1>v. visit' = visit /\ given' = given
    BY DEF Manage, CreateShare, PatchShare, CheckPolicy, CheckPreviewPolicy, InsertRow,
           UpdateRow, AbandonOrder, RevokeShare, DeleteShare
  <1>s. ASSUME NEW l \in Link, cap'[l] = cap[l] PROVE Within(l)'
    BY <1>v, <1>s, WithinStays DEF LimitInv, Pending
  <1>m. ASSUME NEW m \in Manager, mgr[m] # None PROVE mgr[m].link \in Link /\ mgr[m].terms \in Terms
    BY <1>m, <1>t DEF Order
  <1>1. ASSUME NEW m \in Manager, NEW l \in Link, NEW t \in Draft, CreateShare(m, l, t)
        PROVE  LimitInv'
    <2>1. UNCHANGED <<row, cap>> /\ fresh' = fresh \ {l} /\ l \in fresh
      BY <1>1 DEF CreateShare
    <2>2. \A n \in Manager \ {m} : mgr'[n] = mgr[n]
      BY <1>1, <1>t DEF CreateShare
    <2>3. mgr'[m].link = l
      BY <1>1, <1>t DEF CreateShare
    <2>4. \A i \in Link : Unborn(i)' <=> Unborn(i)
      BY <1>v, <2>1 DEF Unborn
    <2>5. BornOnce'
      BY <1>t, <2>1, <2>2, <2>3, <2>4 DEF LimitInv, BornOnce, Inserting
    <2> QED
      BY <1>v, <1>s, <2>1, <2>5 DEF LimitInv, Kept
  <1>k. ASSUME NEW m \in Manager, \A n \in Manager \ {m} : mgr'[n] = mgr[n],
               Inserting(m)' => Inserting(m) /\ mgr'[m].link = mgr[m].link,
               UNCHANGED <<row, fresh, cap>>
        PROVE  LimitInv'
    <2>1. \A i \in Link : Unborn(i)' <=> Unborn(i)
      BY <1>v, <1>k DEF Unborn
    <2>2. BornOnce'
      BY <1>t, <1>k, <2>1 DEF LimitInv, BornOnce, Inserting
    <2> QED
      BY <1>v, <1>s, <1>k, <2>2 DEF LimitInv, Kept
  <1>2. ASSUME NEW m \in Manager, NEW l \in Link, NEW c \in Change, PatchShare(m, l, c)
        PROVE  LimitInv'
    <2>1. mgr'[m].op = "update" /\ \A n \in Manager \ {m} : mgr'[n] = mgr[n]
      BY <1>2, <1>t DEF PatchShare
    <2>2. UNCHANGED <<row, fresh, cap>>
      BY <1>2 DEF PatchShare
    <2> QED
      BY <1>k, <2>1, <2>2 DEF Inserting
  <1>3. ASSUME NEW m \in Manager, CheckPolicy(m) \/ CheckPreviewPolicy(m) PROVE LimitInv'
    <2>1. mgr[m] \in Order /\ mgr[m] # None
      BY <1>3, <1>t DEF CheckPolicy, CheckPreviewPolicy
    <2>2. PICK pc : mgr' = [mgr EXCEPT ![m] = [mgr[m] EXCEPT !.pc = pc]]
      BY <1>3 DEF CheckPolicy, CheckPreviewPolicy
    <2>3. /\ mgr'[m].op = mgr[m].op /\ mgr'[m].link = mgr[m].link
          /\ \A n \in Manager \ {m} : mgr'[n] = mgr[n]
      BY <1>t, <2>1, <2>2 DEF Order
    <2>4. UNCHANGED <<row, fresh, cap>>
      BY <1>3 DEF CheckPolicy, CheckPreviewPolicy
    <2> QED
      BY <1>k, <2>1, <2>3, <2>4 DEF Inserting
  <1>4. ASSUME NEW m \in Manager, InsertRow(m), NEW l \in Link, l = mgr[m].link,
               NEW t \in Terms, t = mgr[m].terms
        PROVE  LimitInv'
    <2>1. Inserting(m) /\ l \in Link \ fresh /\ Unborn(l) /\ t \in Terms
      <3>1. Inserting(m)
        BY <1>4 DEF InsertRow, Inserting
      <3>2. BornOnce
        BY DEF LimitInv
      <3> QED
        BY <1>4, <3>1, <3>2 DEF BornOnce
    <2>2. \A n \in Manager \ {m} : Inserting(n) => mgr[n].link # l
      BY <1>4, <2>1 DEF LimitInv, BornOnce
    <2>3. /\ row'[l] = [terms |-> t, count |-> 0] /\ cap'[l] = t.max
          /\ \A i \in Link \ {l} : row'[i] = row[i] /\ cap'[i] = cap[i]
          /\ mgr'[m] = None /\ \A n \in Manager \ {m} : mgr'[n] = mgr[n]
          /\ fresh' = fresh
      <3>1. /\ row' = [row EXCEPT ![l] = [terms |-> t, count |-> 0]]
            /\ cap' = [cap EXCEPT ![l] = t.max] /\ mgr' = [mgr EXCEPT ![m] = None]
            /\ fresh' = fresh
        BY <1>4 DEF InsertRow
      <3> QED
        BY <1>t, <3>1
    <2>4. \A i \in Link \ {l} : Unborn(i)' <=> Unborn(i)
      BY <1>v, <2>3 DEF Unborn
    <2>5. BornOnce'
      BY <1>t, <2>1, <2>2, <2>3, <2>4 DEF LimitInv, BornOnce, Inserting
    <2>6. Kept(l)'
      BY <1>v, <2>1, <2>3 DEF Kept, Unborn, Terms
    <2>7. Within(l)'
      <3>1. Pending(l)' = {}
        BY <1>v, <2>1 DEF Pending, Unborn
      <3>2. Cardinality(Pending(l)') = 0
        BY <3>1, FS_EmptySet
      <3>3. given'[l] = 0 /\ Cardinality(Visit) \in Nat
        BY <1>v, <2>1, PendingFinite DEF Unborn
      <3>4. cap'[l] # None => cap'[l] \in 1..MaxLimit
        BY <2>1, <2>3 DEF Terms
      <3> QED
        BY <3>2, <3>3, <3>4 DEF Within
    <2>8. ASSUME NEW i \in Link \ {l} PROVE Kept(i)' /\ Within(i)'
      BY <1>v, <1>s, <2>3 DEF LimitInv, Kept
    <2> QED
      BY <2>5, <2>6, <2>7, <2>8 DEF LimitInv
  <1>5. ASSUME NEW m \in Manager, UpdateRow(m), NEW l \in Link, l = mgr[m].link,
               NEW t \in Terms, t = mgr[m].terms
        PROVE  LimitInv'
    <2>1. l \in Link /\ t \in Terms
      BY <1>5, <1>m DEF UpdateRow
    <2>2. mgr'[m] = None /\ \A n \in Manager \ {m} : mgr'[n] = mgr[n]
      BY <1>5, <1>t DEF UpdateRow
    <2>3. CASE row[l] = None
      BY <1>5, <1>k, <2>2, <2>3 DEF UpdateRow, Inserting
    <2>4. CASE row[l] # None
      <3>1. row[l] \in Row
        BY <1>t, <2>1, <2>4
      <3>2. /\ row' = [row EXCEPT ![l] = [row[l] EXCEPT !.terms = t]]
            /\ cap' = [cap EXCEPT ![l] = Larger(@, t.max)]
            /\ fresh' = fresh
        BY <1>5, <1>t, <2>1, <2>4 DEF UpdateRow
      <3>3. /\ row'[l].terms = t /\ row'[l].count = row[l].count /\ cap'[l] = Larger(cap[l], t.max)
            /\ \A i \in Link \ {l} : row'[i] = row[i] /\ cap'[i] = cap[i]
        BY <1>t, <2>1, <3>1, <3>2 DEF Row
      <3>4. ASSUME NEW i \in Link, Unborn(i) PROVE Unborn(i)'
        BY <1>v, <2>4, <3>3, <3>4 DEF Unborn
      <3>5. BornOnce'
        BY <1>t, <2>2, <3>2, <3>4 DEF LimitInv, BornOnce, Inserting
      <3>6. /\ cap[l] \in 1..MaxLimit \cup {None} /\ t.max \in 1..MaxLimit \cup {None}
            /\ given[l] \in Nat /\ row[l].count \in Nat
        BY <1>t, <2>1, <3>1 DEF Terms, Row, TypeOK
      <3>7. cap'[l] # None => /\ cap[l] # None /\ t.max # None /\ cap[l] <= cap'[l]
                              /\ t.max <= cap'[l] /\ cap'[l] \in 1..MaxLimit
        BY <3>3, <3>6 DEF Larger
      <3>8. Kept(l)'
        <4>1. given[l] <= row[l].count
          BY <2>1, <2>4 DEF LimitInv, Kept
        <4> QED
          BY <1>v, <3>3, <3>7, <4>1 DEF Kept
      <3>9. Within(l)'
        <4>1. CASE cap'[l] # None
          <5>1. given[l] + Cardinality(Pending(l)) < cap[l] + Cardinality(Visit)
            BY <2>1, <3>7, <4>1 DEF LimitInv, Within
          <5>2. Pending(l)' = Pending(l)
            BY <1>v DEF Pending
          <5>3. Cardinality(Pending(l)) \in Nat /\ Cardinality(Visit) \in Nat
            BY PendingFinite
          <5>4. given[l] + Cardinality(Pending(l)) < cap'[l] + Cardinality(Visit)
            BY <3>6, <3>7, <4>1, <5>1, <5>3
          <5> QED
            BY <1>v, <5>2, <5>4 DEF Within
        <4> QED
          BY <4>1 DEF Within
      <3>10. ASSUME NEW i \in Link \ {l} PROVE Kept(i)' /\ Within(i)'
        BY <1>v, <1>s, <3>3 DEF LimitInv, Kept
      <3> QED
        BY <3>5, <3>8, <3>9, <3>10 DEF LimitInv
    <2> QED
      BY <2>3, <2>4
  <1>6. ASSUME NEW m \in Manager, AbandonOrder(m) PROVE LimitInv'
    BY <1>6, <1>k, <1>t DEF AbandonOrder, Inserting
  <1>7. ASSUME NEW l \in Link, RevokeShare(l) \/ DeleteShare(l) PROVE LimitInv'
    <2>1. row[l] \in Row /\ row[l] # None
      BY <1>7, <1>t DEF RevokeShare, DeleteShare
    <2>2. UNCHANGED <<fresh, mgr, cap>> /\ \A i \in Link \ {l} : row'[i] = row[i]
      BY <1>7, <1>t DEF RevokeShare, DeleteShare
    <2>3. row'[l] # None => row'[l].count = row[l].count /\ row'[l].terms.max = row[l].terms.max
      <3>1. CASE DeleteShare(l)
        BY <1>t, <3>1 DEF DeleteShare
      <3>2. CASE RevokeShare(l)
        <4>1. row[l].terms \in Terms
          BY <2>1 DEF Row
        <4>2. row'[l] = [row[l] EXCEPT !.terms = [row[l].terms EXCEPT !.revoked = TRUE]]
          BY <1>t, <3>2 DEF RevokeShare
        <4> QED
          BY <2>1, <4>1, <4>2 DEF Row, Terms
      <3> QED
        BY <1>7, <3>1, <3>2
    <2>4. ASSUME NEW i \in Link, Unborn(i) PROVE Unborn(i)'
      BY <1>v, <2>1, <2>2, <2>4 DEF Unborn
    <2>5. BornOnce'
      BY <1>t, <2>2, <2>4, BornOnceStays DEF LimitInv
    <2>6. ASSUME NEW i \in Link PROVE Kept(i)'
      <3>1. Kept(i)
        BY DEF LimitInv
      <3> QED
        BY <1>v, <2>1, <2>2, <2>3, <3>1 DEF Kept
    <2> QED
      BY <1>s, <2>2, <2>5, <2>6 DEF LimitInv
  <1> QED
    BY <1>1, <1>2, <1>3, <1>4, <1>5, <1>6, <1>7, <1>m DEF Manage, InsertRow, UpdateRow

LEMMA StepLimits == TypeOK /\ Placed /\ LimitInv /\ [Next]_vars => LimitInv'
  <1> SUFFICES ASSUME TypeOK, Placed, LimitInv, [Next]_vars PROVE LimitInv'
    OBVIOUS
  <1>1. CASE Surroundings \/ UNCHANGED vars
    <2>1. UNCHANGED <<row, fresh, visit, mgr, given, cap>>
      BY <1>1 DEF vars, Surroundings, TurnSwitch, MoveFile, DeleteFile, DeleteFolder, Tick
    <2>2. \A l \in Link : Unborn(l) => Unborn(l)'
      BY <2>1 DEF Unborn
    <2>3. BornOnce'
      BY <2>1, <2>2, BornOnceStays DEF LimitInv, TypeOK
    <2>4. \A l \in Link : Within(l)'
      BY <2>1, WithinStays DEF LimitInv, Pending
    <2> QED
      BY <2>1, <2>3, <2>4 DEF LimitInv, Kept
  <1> QED
    BY <1>1, RequestLimits, ManageLimits DEF Next

-----------------------------------------------------------------------------
LEMMA InitIndInv == Init => IndInv
  <1> SUFFICES ASSUME Init PROVE IndInv
    OBVIOUS
  <1>1. TypeOK
    BY NoTaskType DEF Init, TypeOK
  <1>2. Placed /\ Grounded
    BY DEF Init, Placed, Grounded, At, NoTask, Before
  <1>3. \A l \in Link : Unborn(l) /\ Kept(l) /\ Within(l)
    BY DEF Init, Unborn, Kept, Within, NoTask
  <1>4. BornOnce
    BY <1>3 DEF Init, BornOnce, Inserting
  <1> QED
    BY <1>1, <1>2, <1>3, <1>4 DEF IndInv, LimitInv

LEMMA IndInvAlways == Spec => []IndInv
  <1>1. IndInv /\ [Next]_vars => IndInv'
    BY StepType, StepGrounded, StepLimits DEF IndInv
  <1> QED
    BY <1>1, InitIndInv, PTL DEF Spec

(* Every reachable state is of the declared shape.                          *)
THEOREM TypeCorrect == Spec => []TypeOK
  <1>1. IndInv => TypeOK
    BY DEF IndInv
  <1> QED
    BY <1>1, IndInvAlways, PTL

(* No public request is answered on anything that was over when it came:    *)
(* resolvePublicShare and the checks after it, under every interleaving     *)
(* with patches, revocations, switches, moves, deletions and the clock.     *)
THEOREM AnswersOnGrounds == Spec => []AnsweredOnGrounds
  <1>1. IndInv => AnsweredOnGrounds
    <2> SUFFICES ASSUME IndInv, NEW v \in Visit, visit[v].pc = "answer"
                 PROVE  Checks(visit[v].kind) \subseteq grounds[v]
      BY DEF AnsweredOnGrounds, At
    <2> QED
      BY ChecksNamed DEF IndInv, Grounded, Before
  <1> QED
    BY <1>1, IndInvAlways, PTL

(* However many downloads run at once, a link's file downloads exceed its   *)
(* highest limit by less than their number: the count that                  *)
(* publicShareFileStream compares lags behind by those under way, and by no *)
(* more, since no patch writes download_count.                              *)
THEOREM OvershootBounded == Spec => []DownloadsWithinLimit
  <1>1. IndInv => DownloadsWithinLimit
    BY DEF IndInv, LimitInv, Within, DownloadsWithinLimit
  <1> QED
    BY <1>1, IndInvAlways, PTL
=============================================================================
