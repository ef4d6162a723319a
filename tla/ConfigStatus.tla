--------------------------- MODULE ConfigStatus ---------------------------
(* What a machine's config worker reports, and what its owner decides on    *)
(* that report: the status row of the environment with its history, the     *)
(* resolution of a conflict, and the approval of a revision to pull.        *)
(*                                                                          *)
(* One environment with one machine.  Reports travel over a network that    *)
(* reorders, duplicates and loses them.  An owner decides on the account    *)
(* page they loaded, which may be out of date when the decision arrives.    *)
(* The worker is external: it starts at the floor of its descriptor, and it *)
(* names a conflict by a digest over the assignment and the remote head, so *)
(* a conflict is a pair of the two here.                                    *)
EXTENDS Naturals, FiniteSets

CONSTANTS
    CtRemotes,      \* revisions of the remote repository
    CtMaxVersion,   \* bound on the assignment's version
    CtMaxRevision,  \* bound on sync revisions
    CtMaxTime,      \* bound on the machine's clock
    CtMaxReports,   \* bound on reports under way
    CtMaxGen,       \* bound on installations of the machine
    CtNone

CtAssumption ==
    {CtMaxVersion, CtMaxRevision, CtMaxTime, CtMaxReports, CtMaxGen} \subseteq Nat \ {0}

VARIABLES
    ctAssign,       \* control_config_assignments row
    ctGen,          \* installation_generation of the machine
    ctStatus,       \* control_config_sync_statuses row
    ctHistory,      \* control_config_sync_status_history by sync revision
    ctResolutions,  \* control_config_conflict_resolutions by conflict
    ctWorker,       \* the worker's descriptor and counters
    ctReports,      \* reports under way
    ctPage,         \* the status page the owner decides on
    ctLanded        \* what the worker was told it landed, by conflict
ctVars == <<ctAssign, ctGen, ctStatus, ctHistory, ctResolutions, ctWorker, ctReports, ctPage, ctLanded>>

CtConflicts == (1..CtMaxVersion) \X CtRemotes

CtModes == {"pull_only", "push_pull"}

NoStatus == [assign |-> 0, gen |-> 0, rev |-> 0, time |-> 0, remote |-> CtNone, conflict |-> FALSE]
NoResolution == [state |-> "none", assign |-> 0, remote |-> CtNone, action |-> "keep_local", landed |-> CtNone]
NoWorker == [assign |-> 0, gen |-> 0, rev |-> 0, time |-> 0, attempt |-> FALSE]

CtInit ==
    /\ ctAssign = [id |-> 1, version |-> 1, mode |-> "push_pull", revoked |-> FALSE, approved |-> CtNone]
    /\ ctGen = 1
    /\ ctStatus = NoStatus
    /\ ctHistory = [n \in 1..CtMaxRevision |-> NoStatus]
    /\ ctResolutions = [c \in CtConflicts |-> NoResolution]
    /\ ctWorker = NoWorker
    /\ ctReports = {}
    /\ ctPage = [version |-> 0, remote |-> CtNone, conflict |-> FALSE]
    /\ ctLanded = [c \in CtConflicts |-> CtNone]

GetControlConfigAssignment == ctAssign

(* ------------------------- the worker (external) ------------------------ *)

GetControlConfigSyncRevision == IF ctStatus.gen = ctGen THEN ctStatus.rev ELSE 0

(* ConfigRuntimeService.Get: the descriptor of a worker that (re)starts. *)
RuntimeGet ==
    /\ ~ctAssign.revoked
    /\ ctWorker' = [assign |-> GetControlConfigAssignment.id, gen |-> ctGen,
                    rev |-> GetControlConfigSyncRevision, time |-> ctWorker.time, attempt |-> FALSE]
    /\ UNCHANGED <<ctAssign, ctGen, ctStatus, ctHistory, ctResolutions, ctReports, ctPage, ctLanded>>

(* A report of a new attempt, or a later one of the attempt under way.      *)
SendReport(remote, conflict) ==
    /\ ctWorker.assign # 0 /\ ctWorker.time < CtMaxTime /\ Cardinality(ctReports) < CtMaxReports
    /\ \E rev \in {ctWorker.rev, ctWorker.rev + 1} \cap 1..CtMaxRevision :
         /\ rev = ctWorker.rev => ctWorker.attempt
         /\ ctWorker' = [ctWorker EXCEPT !.rev = rev, !.time = @ + 1, !.attempt = TRUE]
         /\ ctReports' = ctReports \cup
              {[assign |-> ctWorker.assign, gen |-> ctWorker.gen, rev |-> rev, time |-> ctWorker.time + 1,
                remote |-> remote, conflict |-> conflict]}
    /\ UNCHANGED <<ctAssign, ctGen, ctStatus, ctHistory, ctResolutions, ctPage, ctLanded>>

LoseReport(m) ==
    /\ ctReports' = ctReports \ {m}
    /\ UNCHANGED <<ctAssign, ctGen, ctStatus, ctHistory, ctResolutions, ctWorker, ctPage, ctLanded>>

(* ----------------------------- status report ---------------------------- *)

(* The WHERE clause of the upsert of RecordControlConfigSyncStatus. *)
NewerStatus(m) ==
    /\ m.gen = ctStatus.gen
    /\ \/ m.rev > ctStatus.rev
       \/ m.rev = ctStatus.rev /\ m.time > ctStatus.time

RecordControlConfigSyncStatus(m) ==
    /\ ctStatus = NoStatus \/ NewerStatus(m)
    /\ ctStatus' = m

InsertControlConfigSyncStatusHistory(m) ==
    ctHistory' = [ctHistory EXCEPT ![m.rev] =
                    IF @ = NoStatus THEN m ELSE [@ EXCEPT !.remote = m.remote, !.time = m.time, !.conflict = m.conflict]]

(* ConfigStatusService.Record.  The report is left under way: it may arrive *)
(* again.                                                                   *)
RecordStatus(m) ==
    /\ m.gen = ctGen
    /\ GetControlConfigAssignment.id = m.assign
    /\ RecordControlConfigSyncStatus(m)
    /\ InsertControlConfigSyncStatusHistory(m)
    /\ UNCHANGED <<ctAssign, ctGen, ctResolutions, ctWorker, ctReports, ctPage, ctLanded>>

(* ConfigStatusService.Account: the page the owner decides on shows the     *)
(* status row whatever assignment it speaks of.                             *)
ListOwnedControlConfigSyncStatus ==
    [version |-> ctAssign.version, remote |-> ctStatus.remote, conflict |-> ctStatus.conflict]
Account ==
    /\ ctPage' = ListOwnedControlConfigSyncStatus
    /\ UNCHANGED <<ctAssign, ctGen, ctStatus, ctHistory, ctResolutions, ctWorker, ctReports, ctLanded>>

(* --------------------------- conflict resolution ------------------------ *)

(* The context join: the status speaks of the current assignment. *)
GetOwnedControlConfigConflictContext == ctStatus.assign = ctAssign.id

(* The upsert leaves the assignment of an existing row as it is. *)
CreateControlConfigConflictResolution(c, action) ==
    /\ ctResolutions[c].state # "applied"
    /\ ctResolutions' = [ctResolutions EXCEPT ![c] =
         IF @.state = "none"
         THEN [state |-> "pending", assign |-> ctAssign.id, remote |-> ctPage.remote, action |-> action, landed |-> CtNone]
         ELSE [@ EXCEPT !.state = "pending", !.remote = ctPage.remote, !.action = action, !.landed = CtNone]]

RequestResolution(c, action) ==
    /\ ctPage.conflict /\ c = <<ctAssign.id, ctPage.remote>>
    /\ GetOwnedControlConfigConflictContext
    /\ ctAssign.version = ctPage.version
    /\ ctStatus.remote = ctPage.remote
    /\ action = "keep_local" => ctAssign.mode # "pull_only"
    /\ ctStatus.conflict
    /\ CreateControlConfigConflictResolution(c, action)
    /\ UNCHANGED <<ctAssign, ctGen, ctStatus, ctHistory, ctWorker, ctReports, ctPage, ctLanded>>

ListPendingControlConfigConflictResolutions(assign) ==
    {c \in CtConflicts : ctResolutions[c].state = "pending" /\ ctResolutions[c].assign = assign}

ApplyControlConfigConflictResolution(c, landed) ==
    /\ ctResolutions[c].assign = ctAssign.id
    /\ \/ ctResolutions[c].state = "pending"
       \/ ctResolutions[c].state = "applied" /\ ctResolutions[c].landed = landed
    /\ ctResolutions' = [ctResolutions EXCEPT ![c].state = "applied", ![c].landed = landed]

(* The worker lists, resolves and acknowledges; the acknowledgement may be  *)
(* repeated, and another revision may be acknowledged by a second worker.   *)
Acknowledge(c, landed) ==
    /\ ctWorker.assign = ctAssign.id /\ ctWorker.gen = ctGen /\ ~ctAssign.revoked
    /\ c \in ListPendingControlConfigConflictResolutions(ctWorker.assign) \/ ctLanded[c] # CtNone
    /\ ApplyControlConfigConflictResolution(c, landed)
    /\ ctLanded' = [ctLanded EXCEPT ![c] = landed]
    /\ UNCHANGED <<ctAssign, ctGen, ctStatus, ctHistory, ctWorker, ctReports, ctPage>>

(* ---------------------- the assignment and the machine ------------------ *)

ApproveControlConfigPullRevision(r) ==
    /\ ~ctAssign.revoked
    /\ ctStatus.assign = ctAssign.id /\ ctStatus.remote = r
    /\ ctAssign' = [ctAssign EXCEPT !.approved = r, !.version = @ + 1]

ApprovePullRevision ==
    /\ ctPage.version = ctAssign.version /\ ctPage.remote # CtNone
    /\ ctAssign.version < CtMaxVersion
    /\ ApproveControlConfigPullRevision(ctPage.remote)
    /\ UNCHANGED <<ctGen, ctStatus, ctHistory, ctResolutions, ctWorker, ctReports, ctPage, ctLanded>>

CtSetControlConfigAssignment(mode) ==
    ctAssign' = [id |-> ctAssign.id + 1, version |-> ctAssign.version + 1, mode |-> mode,
                 revoked |-> FALSE, approved |-> CtNone]

Reassign(mode) ==
    /\ ctAssign.version < CtMaxVersion
    /\ CtSetControlConfigAssignment(mode)
    /\ UNCHANGED <<ctGen, ctStatus, ctHistory, ctResolutions, ctWorker, ctReports, ctPage, ctLanded>>

(* The adopted team default goes away with the membership. *)
CtRevokeAdoptedTeamConfigAssignments ==
    /\ ~ctAssign.revoked /\ ctAssign.version < CtMaxVersion
    /\ ctAssign' = [ctAssign EXCEPT !.revoked = TRUE, !.approved = CtNone, !.version = @ + 1]
    /\ UNCHANGED <<ctGen, ctStatus, ctHistory, ctResolutions, ctWorker, ctReports, ctPage, ctLanded>>

(* A reinstallation of the machine. *)
Reinstall ==
    /\ ctGen < CtMaxGen
    /\ ctGen' = ctGen + 1
    /\ UNCHANGED <<ctAssign, ctStatus, ctHistory, ctResolutions, ctWorker, ctReports, ctPage, ctLanded>>

CtNext ==
    \/ RuntimeGet \/ Account \/ ApprovePullRevision
    \/ CtRevokeAdoptedTeamConfigAssignments \/ Reinstall
    \/ \E r \in CtRemotes, c \in BOOLEAN : SendReport(r, c)
    \/ \E m \in ctReports : LoseReport(m) \/ RecordStatus(m)
    \/ \E c \in CtConflicts, a \in {"keep_local", "keep_remote"} : RequestResolution(c, a)
    \/ \E c \in CtConflicts, r \in CtRemotes : Acknowledge(c, r)
    \/ \E mode \in CtModes : Reassign(mode)

CtSpec == CtInit /\ [][CtNext]_ctVars

(* ------------------------------- properties ----------------------------- *)

CtStatuses == [assign : 0..CtMaxVersion, gen : 0..CtMaxGen, rev : 0..CtMaxRevision, time : 0..CtMaxTime,
               remote : CtRemotes \cup {CtNone}, conflict : BOOLEAN]

(* The types of the rows, of the messages and of the page. *)
CtTypeOK ==
    /\ ctAssign \in [id : 1..CtMaxVersion, version : 1..CtMaxVersion, mode : CtModes, revoked : BOOLEAN,
                     approved : CtRemotes \cup {CtNone}]
    /\ ctGen \in 1..CtMaxGen
    /\ ctStatus \in CtStatuses
    /\ \A n \in 1..CtMaxRevision : ctHistory[n] \in CtStatuses
    /\ \A c \in CtConflicts : ctResolutions[c].state \in {"none", "pending", "applied"}
    /\ \A m \in ctReports : m \in CtStatuses

(* A revision that is approved for pulling is one that the machine reported *)
(* under the very assignment that pulls it: some history row of that        *)
(* assignment shows it, or showed it until a later report of the same       *)
(* attempt replaced it.  Neither a reassignment nor a late report of the    *)
(* assignment before it carries an approval over (config_assignment.go      *)
(* ApprovePullRevision, SetControlConfigAssignment).                        *)
ApprovalIsOfThisAssignment ==
    ctAssign'.approved # ctAssign.approved /\ ctAssign'.approved # CtNone
      => \E n \in 1..CtMaxRevision :
           ctHistory[n].assign = ctAssign'.id /\ ctHistory[n].remote = ctAssign'.approved

(* The history never runs ahead of the status: no accepted report is newer  *)
(* than the row the owner sees, and the history's row of the current        *)
(* revision shows what the status shows, however reports were reordered or  *)
(* repeated (config_status.go Record).                                      *)
HistoryEndsAtStatus ==
    /\ \A n \in 1..CtMaxRevision : ctHistory[n] # NoStatus => n <= ctStatus.rev
    /\ ctStatus # NoStatus =>
         /\ ctHistory[ctStatus.rev].remote = ctStatus.remote
         /\ ctHistory[ctStatus.rev].time = ctStatus.time

(* A resolution the worker acknowledged stays applied with the revision it  *)
(* landed: an owner's late request from an old page does not ask for it     *)
(* again, and no second acknowledgement rewrites it (config_conflict.go     *)
(* Request, Acknowledge).                                                   *)
LandedStaysLanded ==
    \A c \in CtConflicts :
       ctLanded[c] # CtNone => ctResolutions[c].state = "applied" /\ ctResolutions[c].landed = ctLanded[c]

=============================================================================
