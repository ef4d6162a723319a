--------------------------- MODULE MachineReports ---------------------------
(***************************************************************************)
(* usermachines/updates.go and metering's RecordRuntimeObservation: what a *)
(* machine reports of its update, of its runtime and of its distance to    *)
(* the relays, and the owner's approvals of maintenance.  Reports are      *)
(* repeated and reordered; a reinstallation may leave an older instance of *)
(* the machine reporting.                                                  *)
(***************************************************************************)
EXTENDS Naturals, FiniteSets

CONSTANTS MrOperations, MrApprovals, MrBoots, MrMaxTime, MrMaxWorker, MrMaxInstallation, MrNone

MrAssumption == MrMaxTime \in Nat /\ MrMaxWorker \in Nat /\ MrMaxInstallation \in Nat

VARIABLES mrMachine,   \* user_machines: installation_generation, state, the live instance
          mrUpdate,    \* user_machine_update_observations
          mrRuntime,   \* user_machines: worker_generation, os_boot_id, observed at
          mrLatency,   \* user_machines: relay_latency_worker_generation, ..._generation
          mrApproval,  \* user_machine_maintenance_approvals
          mrOverdue    \* approvals past expires_at

mrVars == <<mrMachine, mrUpdate, mrRuntime, mrLatency, mrApproval, mrOverdue>>

MrTimes == 1..MrMaxTime
MrWorkers == 1..MrMaxWorker
MrInstallations == 1..MrMaxInstallation

MrNoUpdate == [op |-> MrNone, installation |-> 0, at |-> 0, worker |-> 0]
MrNoRuntime == [worker |-> 0, boot |-> MrNone, at |-> 0]
MrNoApproval == [status |-> "none", choice |-> "update"]

MrTypeOK ==
  /\ mrMachine \in [installation: MrInstallations, state: {"online", "stale", "revoked"}]
  /\ mrUpdate \in [op: MrOperations \cup {MrNone}, installation: 0..MrMaxInstallation,
                   at: 0..MrMaxTime, worker: 0..MrMaxWorker]
  /\ mrRuntime \in [worker: 0..MrMaxWorker, boot: MrBoots \cup {MrNone}, at: 0..MrMaxTime]
  /\ mrLatency \in [worker: 0..MrMaxWorker, generation: 0..MrMaxTime]
  /\ mrApproval \in [MrApprovals -> [status: {"none", "pending", "approved", "rejected", "expired"},
                                     choice: {"update", "restart"}]]
  /\ mrOverdue \subseteq MrApprovals

MrInit ==
  /\ mrMachine = [installation |-> 1, state |-> "stale"]
  /\ mrUpdate = MrNoUpdate /\ mrRuntime = MrNoRuntime
  /\ mrLatency = [worker |-> 0, generation |-> 0]
  /\ mrApproval = [a \in MrApprovals |-> MrNoApproval] /\ mrOverdue = {}

-----------------------------------------------------------------------------
(* Update observations *)

GetUserMachineUpdateObservation == mrUpdate.op # MrNone

CreateUserMachineUpdateObservation(r) == ~GetUserMachineUpdateObservation /\ mrUpdate' = r

UpdateUserMachineUpdateObservation(r) == mrUpdate' = r

StaleUpdate(r) ==
  \/ mrUpdate.installation > r.installation
  \/ mrUpdate.installation = r.installation
     /\ (r.at < mrUpdate.at \/ (r.at = mrUpdate.at /\ r.worker < mrUpdate.worker))

\* A report of another installation is refused, one of the recorded operation
\* is a repetition or a conflict; neither writes.
RecordUpdateObservation(r) ==
  /\ mrMachine.state # "revoked" /\ mrMachine.installation = r.installation
  /\ \/ CreateUserMachineUpdateObservation(r)
     \/ /\ GetUserMachineUpdateObservation /\ mrUpdate.op # r.op /\ ~StaleUpdate(r)
        /\ UpdateUserMachineUpdateObservation(r)
  /\ UNCHANGED <<mrMachine, mrRuntime, mrLatency, mrApproval, mrOverdue>>

-----------------------------------------------------------------------------
(* Runtime observations *)

\* The live instance's seat is kept against another boot that is not newer.
DuplicateIdentity(worker, boot) ==
  /\ mrMachine.state = "online"
  /\ mrRuntime.boot # MrNone /\ mrRuntime.boot # boot /\ worker <= mrRuntime.worker

RecordUserMachineRuntimeDiagnostics(worker, boot, at) ==
  IF mrRuntime.at <= at THEN [worker |-> worker, boot |-> boot, at |-> at] ELSE mrRuntime

RecordUserMachineRelayLatencyVector(worker, generation) ==
  IF mrLatency.worker < worker \/ (mrLatency.worker = worker /\ mrLatency.generation < generation)
  THEN [worker |-> worker, generation |-> generation] ELSE mrLatency

RecordRuntimeObservation(worker, boot, at, generation) ==
  /\ mrMachine.state # "revoked" /\ ~DuplicateIdentity(worker, boot)
  /\ mrMachine' = [mrMachine EXCEPT !.state = "online"]
  /\ mrRuntime' = RecordUserMachineRuntimeDiagnostics(worker, boot, at)
  /\ mrLatency' = IF generation = 0 THEN mrLatency
                  ELSE RecordUserMachineRelayLatencyVector(worker, generation)
  /\ UNCHANGED <<mrUpdate, mrApproval, mrOverdue>>

\* No heartbeat within the window that counts as a live instance.
MrGoesStale ==
  /\ mrMachine.state = "online"
  /\ mrMachine' = [mrMachine EXCEPT !.state = "stale"]
  /\ UNCHANGED <<mrUpdate, mrRuntime, mrLatency, mrApproval, mrOverdue>>

MrReinstalled ==
  /\ mrMachine.state # "revoked" /\ mrMachine.installation < MrMaxInstallation
  /\ mrMachine' = [mrMachine EXCEPT !.installation = @ + 1]
  /\ UNCHANGED <<mrUpdate, mrRuntime, mrLatency, mrApproval, mrOverdue>>

MrRevoked ==
  /\ mrMachine.state # "revoked"
  /\ mrMachine' = [mrMachine EXCEPT !.state = "revoked"]
  /\ UNCHANGED <<mrUpdate, mrRuntime, mrLatency, mrApproval, mrOverdue>>

-----------------------------------------------------------------------------
(* Maintenance approvals *)

GetUserMachineMaintenanceApprovalForIdempotency(a) == mrApproval[a].status # "none"

CreateUserMachineMaintenanceApproval(a, choice) ==
  [mrApproval EXCEPT ![a] = [status |-> "pending", choice |-> choice]]

RequestMaintenanceApproval(a, choice) ==
  /\ mrMachine.state # "revoked" /\ ~GetUserMachineMaintenanceApprovalForIdempotency(a)
  /\ mrApproval' = CreateUserMachineMaintenanceApproval(a, choice)
  /\ UNCHANGED <<mrMachine, mrUpdate, mrRuntime, mrLatency, mrOverdue>>

MrTimePasses(a) ==
  /\ mrApproval[a].status # "none" /\ a \notin mrOverdue
  /\ mrOverdue' = mrOverdue \cup {a}
  /\ UNCHANGED <<mrMachine, mrUpdate, mrRuntime, mrLatency, mrApproval>>

ExpireDueUserMachineMaintenanceApprovals ==
  [a \in MrApprovals |-> IF mrApproval[a].status = "pending" /\ a \in mrOverdue
                         THEN [mrApproval[a] EXCEPT !.status = "expired"] ELSE mrApproval[a]]

\* A listing expires what is overdue.
ListMaintenanceApprovals ==
  /\ mrApproval' = ExpireDueUserMachineMaintenanceApprovals
  /\ UNCHANGED <<mrMachine, mrUpdate, mrRuntime, mrLatency, mrOverdue>>

DecideUserMachineMaintenanceApproval(a, decision) == [mrApproval EXCEPT ![a].status = decision]

Decidable(a) == mrApproval[a].status = "pending" /\ a \notin mrOverdue

\* A decision that comes too late fails, and its transaction, with the mark
\* that the approval expired, is undone.
DecideMaintenanceApproval(a, decision) ==
  /\ Decidable(a)
  /\ mrApproval' = DecideUserMachineMaintenanceApproval(a, decision)
  /\ UNCHANGED <<mrMachine, mrUpdate, mrRuntime, mrLatency, mrOverdue>>

MrNext ==
  \/ \E r \in [op: MrOperations, installation: MrInstallations, at: MrTimes, worker: MrWorkers] :
       RecordUpdateObservation(r)
  \/ \E w \in MrWorkers, b \in MrBoots, t \in MrTimes, g \in 0..MrMaxTime :
       RecordRuntimeObservation(w, b, t, g)
  \/ MrGoesStale \/ MrReinstalled \/ MrRevoked
  \/ \E a \in MrApprovals :
       \/ \E c \in {"update", "restart"} : RequestMaintenanceApproval(a, c)
       \/ MrTimePasses(a)
       \/ \E d \in {"approved", "rejected"} : DecideMaintenanceApproval(a, d)
  \/ ListMaintenanceApprovals

MrSpec == MrInit /\ [][MrNext]_mrVars

-----------------------------------------------------------------------------
(* Properties *)

\* updates.go: "ordering fields fence late packets from replacing newer state".
UpdateReportsMoveForward ==
  mrUpdate' # mrUpdate =>
    \/ mrUpdate'.installation > mrUpdate.installation
    \/ mrUpdate'.installation = mrUpdate.installation
       /\ (mrUpdate'.at > mrUpdate.at
           \/ (mrUpdate'.at = mrUpdate.at /\ mrUpdate'.worker >= mrUpdate.worker))

\* RecordRuntimeObservation: while an instance of the machine is heard from, an
\* instance that is not newer never takes its place.
LiveInstanceKeepsItsPlace ==
  (mrMachine.state = "online" /\ mrRuntime'.boot # mrRuntime.boot /\ mrRuntime.boot # MrNone)
    => mrRuntime'.worker > mrRuntime.worker

\* DecideMaintenanceApproval: a decision and an expiry are final, and no
\* decision is taken once the approval is overdue.
DecisionsAreFinal ==
  \A a \in MrApprovals :
    (mrApproval[a].status # "none" /\ mrApproval'[a] # mrApproval[a])
      => /\ mrApproval[a].status = "pending"
         /\ (mrApproval'[a].status = "expired") = (a \in mrOverdue)
=============================================================================
