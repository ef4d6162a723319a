--------------------------- MODULE HostedLifecycle ---------------------------
(***************************************************************************)
(* The life of one hosted project: the requests its owner makes            *)
(* (internal/projects), the jobs they queue, the orchestrator workers that *)
(* run them (internal/orchestrator) and the machine and volume they manage *)
(* at the provider.                                                        *)
(*                                                                         *)
(* A request is one serializable transaction.  A worker runs a job step by *)
(* step: each step below is one database transaction or one provider call, *)
(* and requests, other workers, crashes and lease expiries come between    *)
(* any two.  A provider call is used here as ProviderOperation shows it    *)
(* behaves: it takes effect, or it fails with or without effect and the    *)
(* job is retried.  Ledger rows that failed for good belong there.         *)
(***************************************************************************)
EXTENDS Naturals, Sequences, FiniteSets

CONSTANTS
  HlWorkers,      \* orchestrator workers, one per server process
  Configs,        \* desired configurations a project may be given
  SizeOf,         \* the storage size each configuration asks for
  Limit,          \* included + purchased storage of the account
  HlScopes,       \* what a behaviour may contain, see hlScope
  MaxJobs,        \* bound on jobs
  MaxMachines     \* bound on machines created

ASSUME SizeAssumption == SizeOf \in [Configs -> Nat \ {0}]
ASSUME HlBoundAssumption == MaxJobs \in Nat /\ MaxMachines \in Nat /\ Limit \in Nat
ASSUME ScopeAssumption ==
  \A s \in HlScopes : s.workers \subseteq HlWorkers /\ s.configs \subseteq Configs /\ s.faults \in Nat

VARIABLES
  hlScope,    \* workers, configs and requests of this behaviour, the bound on its
              \* faults (failed calls, crashes, slow workers, lost machines), and
              \* overlap: a lease may run out while its worker is still at work, and
              \* the configuration may change then
  state,      \* projects.state ("none" before the project exists)
  desired,    \* project_runtime_configs: desired configuration
  applied,    \* ... and the one recorded as applied
  pending,    \* ... pending_restart_apply
  allocated,  \* storage_accounts.allocated_gb
  released,   \* the ledger holds the key project.storage.release.delete
  env,        \* control_environments row: none, active, deleting, applied
  hlJobs,       \* orchestration_jobs in order of created_at
  volRec,     \* fly_volumes row: 0 or the volume's id
  machRec,    \* fly_machines row: 0 or the machine's id
  vols,       \* every volume created at the provider, gone ones included
  machs,      \* every machine created at the provider, gone ones included
  hlWk,         \* each worker's job, position and what it has read
  hlFaults,     \* faults so far
  removal     \* history: the owner has asked for deletion

project == <<state, desired, applied, pending, allocated, released, env>>
records == <<volRec, machRec>>
cloud == <<vols, machs>>
hlWork == <<project, hlJobs, records, cloud, hlWk, hlFaults, removal>>
hlVars == <<hlScope, hlWork>>

IdleWorker == [job |-> 0, pc |-> "idle", cfg |-> CHOOSE c \in Configs : TRUE,
         pend |-> FALSE, mach |-> 0, vol |-> 0, after |-> "idle"]

HlInit ==
  /\ hlScope \in HlScopes
  /\ state = "none" /\ desired = IdleWorker.cfg /\ applied = desired
  /\ pending = FALSE /\ allocated = 0 /\ released = FALSE /\ env = "none"
  /\ hlJobs = <<>>
  /\ volRec = 0 /\ machRec = 0 /\ vols = {} /\ machs = {}
  /\ hlWk = [w \in hlScope.workers |-> IdleWorker]
  /\ hlFaults = 0 /\ removal = FALSE

-----------------------------------------------------------------------------
(* Requests                                                                *)

NewJob(type, prev) ==
  [type |-> type, state |-> "queued", prev |-> prev, lease |-> {}, expired |-> FALSE,
   backoff |-> FALSE, req |-> [vol |-> {}, mach |-> {}, upd |-> {}], stopped |-> 0, secrets |-> "pending"]

(* createIntentOnce: project, allocation, control environment and job.     *)
CreateIntent(c) ==
  /\ state = "none"
  /\ allocated + SizeOf[c] <= Limit
  /\ Len(hlJobs) < MaxJobs
  /\ state' = "provisioning_storage" /\ desired' = c /\ pending' = TRUE
  /\ allocated' = allocated + SizeOf[c] /\ env' = "active"
  /\ hlJobs' = Append(hlJobs, NewJob("create", ""))
  /\ UNCHANGED <<applied, released, records, cloud, hlWk, hlFaults, removal>>

(* updateDesiredConfigOnce: the allocation follows the desired size.       *)
UpdateDesired(c) ==
  /\ state \notin {"none", "deleting", "deleted"}
  /\ hlScope.overlap \/ \A w \in hlScope.workers : hlWk[w].pc = "idle"
  /\ (allocated + SizeOf[c]) - SizeOf[desired] <= Limit
  /\ desired' = c /\ pending' = TRUE
  /\ allocated' = (allocated + SizeOf[c]) - SizeOf[desired]
  /\ UNCHANGED <<state, applied, released, env, hlJobs, records, cloud, hlWk, hlFaults, removal>>

Target(type) == [start |-> "starting", stop |-> "stopping", restart |-> "restarting"][type]

(* QueueLifecycleJob; a project already in the target state is left alone. *)
QueueLifecycleJob(type) ==
  /\ state \notin {"none", "deleted", "deleting", "provisioning_storage"}
  /\ state # Target(type)
  /\ Len(hlJobs) < MaxJobs
  /\ state' = Target(type)
  /\ hlJobs' = Append(hlJobs, NewJob(type, state))
  /\ UNCHANGED <<desired, applied, pending, allocated, released, env, records, cloud, hlWk, hlFaults, removal>>

(* queueSystemStopTx: metering stops a project under one key per reason,   *)
(* and puts the job of that key back in the queue when there is one.       *)
EnforcementStop ==
  /\ state # "none" /\ machRec # 0
  /\ state' = IF state \in {"deleted", "deleting", "stopping", "stopped"} THEN state ELSE "stopping"
  /\ \/ /\ \A j \in DOMAIN hlJobs : hlJobs[j].type # "enforce"
        /\ Len(hlJobs) < MaxJobs
        /\ hlJobs' = Append(hlJobs, NewJob("enforce", "running"))
     \/ \E j \in DOMAIN hlJobs :
          /\ hlJobs[j].type = "enforce"
          /\ hlJobs' = [hlJobs EXCEPT ![j].state = "queued", ![j].backoff = FALSE]
  /\ UNCHANGED <<desired, applied, pending, allocated, released, env, records, cloud, hlWk, hlFaults, removal>>

Superseded(js) ==
  [j \in DOMAIN js |-> IF js[j].state = "queued" /\ js[j].type # "delete"
                       THEN [js[j] EXCEPT !.state = "superseded"] ELSE js[j]]

(* Mutated form: the release does not look for its key in the ledger.      *)
ReleaseUnkeyed ==
  /\ allocated' = allocated - SizeOf[desired]
  /\ released' = TRUE
  /\ state' = "deleted"

(* markDeletedAndReleaseStorageTx and MarkDeletedAndReleaseStorage: the    *)
(* release is keyed, so it happens once.                                   *)
ReleaseAndMarkDeleted ==
  /\ allocated' = IF released THEN allocated ELSE allocated - SizeOf[desired]
  /\ released' = TRUE
  /\ state' = "deleted"

(* MarkDeleting: supersede queued work, then queue the clean-up, or delete *)
(* inline when no provider resource is on record.                          *)
MarkDeleting ==
  /\ state \notin {"none", "deleted"}
  /\ removal' = TRUE
  /\ IF volRec # 0 \/ machRec # 0
     THEN /\ state' = "deleting"
          /\ IF \E j \in DOMAIN hlJobs : hlJobs[j].type = "delete"
             THEN hlJobs' = Superseded(hlJobs)
             ELSE Len(hlJobs) < MaxJobs /\ hlJobs' = Append(Superseded(hlJobs), NewJob("delete", ""))
          /\ UNCHANGED <<allocated, released>>
     ELSE /\ ReleaseAndMarkDeleted
          /\ hlJobs' = Superseded(hlJobs)
  /\ UNCHANGED <<desired, applied, pending, env, records, cloud, hlWk, hlFaults>>

Owner ==
  \/ "create" \in hlScope.requests /\ \E c \in hlScope.configs : CreateIntent(c)
  \/ "update" \in hlScope.requests /\ \E c \in hlScope.configs : UpdateDesired(c)
  \/ \E type \in hlScope.requests \intersect {"start", "stop", "restart"} : QueueLifecycleJob(type)
  \/ "delete" \in hlScope.requests /\ MarkDeleting

-----------------------------------------------------------------------------
(* The job queue                                                           *)

JobFault == hlFaults < hlScope.faults /\ hlFaults' = hlFaults + 1
Type(w) == hlJobs[hlWk[w].job].type
WorkerGoes(w, pc) == hlWk' = [hlWk EXCEPT ![w].pc = pc]
Free(w) == hlWk' = [hlWk EXCEPT ![w] = IdleWorker]
Held(w) == hlJobs[hlWk[w].job].state = "running" /\ hlJobs[hlWk[w].job].lease = {w}

(* Mutated form: a job whose worker died is not claimed again.             *)
ClaimableQueued(j) ==
  /\ hlJobs[j].state = "queued" /\ ~hlJobs[j].backoff
  /\ state \in {"deleted", "deleting"} => hlJobs[j].type = "delete"

Claimable(j) ==
  /\ \/ hlJobs[j].state = "queued" /\ ~hlJobs[j].backoff
     \/ hlJobs[j].state = "running" /\ hlJobs[j].expired
  /\ state \in {"deleted", "deleting"} => hlJobs[j].type = "delete"

FirstStep(type) ==
  [create |-> "intent", restart |-> "intent", start |-> "machine", stop |-> "machine",
   enforce |-> "machine", delete |-> "begin"][type]

(* ClaimNextOrchestrationJob: the oldest job that is due.                  *)
Claim(w) ==
  /\ hlWk[w].pc = "idle"
  /\ \E j \in DOMAIN hlJobs :
       /\ Claimable(j)
       /\ \A i \in 1..(j - 1) : ~Claimable(i)
       /\ hlJobs' = [hlJobs EXCEPT ![j].state = "running", ![j].lease = {w}, ![j].expired = FALSE]
       /\ hlWk' = [hlWk EXCEPT ![w] = [IdleWorker EXCEPT !.job = j, !.pc = FirstStep(hlJobs[j].type)]]
  /\ UNCHANGED <<project, records, cloud, hlFaults, removal>>

CompleteJob(w) ==
  /\ hlWk[w].pc = "done"
  /\ hlJobs' = IF Held(w) THEN [hlJobs EXCEPT ![hlWk[w].job].state = "succeeded", ![hlWk[w].job].lease = {}] ELSE hlJobs
  /\ Free(w)
  /\ UNCHANGED <<project, records, cloud, hlFaults, removal>>

FailJob(w) ==
  /\ hlWk[w].pc = "fail"
  /\ hlJobs' = IF Held(w)
             THEN [hlJobs EXCEPT ![hlWk[w].job].state = "queued", ![hlWk[w].job].lease = {}, ![hlWk[w].job].backoff = TRUE]
             ELSE hlJobs
  /\ Free(w)
  /\ UNCHANGED <<project, records, cloud, hlFaults, removal>>

(* BlockJobAndRestoreProject, after a restart met a changed storage size.  *)
BlockJob(w) ==
  /\ hlWk[w].pc = "block"
  /\ LET prev == hlJobs[hlWk[w].job].prev IN
     IF Held(w)
     THEN /\ hlJobs' = [hlJobs EXCEPT ![hlWk[w].job].state = "blocked", ![hlWk[w].job].lease = {}]
          /\ state' = IF state # "restarting" THEN state
                      ELSE IF prev \in {"", "restarting"} THEN "ready" ELSE prev
     ELSE UNCHANGED <<hlJobs, state>>
  /\ Free(w)
  /\ UNCHANGED <<desired, applied, pending, allocated, released, env, records, cloud, hlFaults, removal>>

(* The 30 seconds of next_run_at, and the lease, run out.                  *)
BackoffOver(j) ==
  /\ hlJobs[j].backoff
  /\ hlJobs' = [hlJobs EXCEPT ![j].backoff = FALSE]
  /\ UNCHANGED <<project, records, cloud, hlWk, hlFaults, removal>>

ExpireLease(j) ==
  /\ hlJobs[j].state = "running" /\ ~hlJobs[j].expired
  /\ IF \A w \in hlJobs[j].lease : hlWk[w].job # j THEN UNCHANGED hlFaults ELSE hlScope.overlap /\ JobFault
  /\ hlJobs' = [hlJobs EXCEPT ![j].expired = TRUE]
  /\ UNCHANGED <<project, records, cloud, hlWk, removal>>

-----------------------------------------------------------------------------
(* Job steps: reading                                                      *)

(* ProjectIntent and what goes with it at the start of create and restart. *)
ReadIntent(w) ==
  /\ hlWk[w].pc = "intent"
  /\ hlWk' = [hlWk EXCEPT ![w].cfg = desired, ![w].pend = pending, ![w].mach = machRec,
       ![w].pc = IF Type(w) = "create" THEN "volume"
                 ELSE IF machRec = 0 \/ volRec = 0 THEN "fail"
                 ELSE IF \E v \in vols : v.id = volRec /\ v.size # SizeOf[desired] THEN "block"
                 ELSE IF hlJobs[hlWk[w].job].stopped # machRec THEN "stop"
                 ELSE IF pending THEN "update"
                 ELSE "drift",
       ![w].after = "provisioned"]
  /\ env' = IF Type(w) = "create" /\ env = "none" THEN "active" ELSE env
  /\ UNCHANGED <<state, desired, applied, pending, allocated, released, hlJobs, records, cloud, hlFaults, removal>>

ReadMachine(w) ==
  /\ hlWk[w].pc = "machine"
  /\ hlWk' = [hlWk EXCEPT ![w].mach = machRec,
       ![w].pc = IF machRec = 0 THEN "fail" ELSE IF Type(w) = "start" THEN "drift" ELSE "stop"]
  /\ UNCHANGED <<project, hlJobs, records, cloud, hlFaults, removal>>

Live(resources) == {r \in resources : r.st # "gone"}
Machine(id) == {m \in Live(machs) : m.id = id}

(* Mutated form: the machine is taken to have the wanted configuration.    *)
CheckDriftSkipped(w) ==
  /\ hlWk[w].pc = "drift"
  /\ hlWk' = [hlWk EXCEPT ![w].after = "start", ![w].pc = "start"]
  /\ UNCHANGED <<project, hlJobs, records, cloud, hlFaults, removal>>

(* reconcileMachineSpecDrift (start, which reads the intent first) and     *)
(* applyMachineSpecDrift (restart without pending changes).                *)
CheckDrift(w) ==
  /\ hlWk[w].pc = "drift"
  /\ LET cfg == IF Type(w) = "start" THEN desired ELSE hlWk[w].cfg
         next == IF Type(w) = "start" /\ (pending \/ volRec = 0) THEN "start"
                 ELSE IF Machine(hlWk[w].mach) = {} THEN (IF Type(w) = "start" THEN "recreate" ELSE "fail")
                 ELSE IF \A m \in Machine(hlWk[w].mach) : m.cfg = cfg THEN "start"
                 ELSE "update"
     IN hlWk' = [hlWk EXCEPT ![w].cfg = cfg, ![w].after = "start", ![w].pc = next]
  /\ UNCHANGED <<project, hlJobs, records, cloud, hlFaults, removal>>

-----------------------------------------------------------------------------
(* Job steps: provider calls                                               *)

(* A call that took effect is reported, or its answer is lost; a call that *)
(* had no effect is an AbortJob.                                              *)
Call(w, Effect, next) ==
  /\ Effect
  /\ \/ hlWk' = next /\ UNCHANGED hlFaults
     \/ WorkerGoes(w, "fail") /\ JobFault

(* A ledger row is kept per step and resource (0: one being created); a    *)
(* step reserved for another request is refused.                           *)
Fits(w, step, row) == {r \in hlJobs[hlWk[w].job].req[step] : r[1] = row[1]} \subseteq {row}
Reserve(w, step, row) ==
  Fits(w, step, row) /\ hlJobs' = [hlJobs EXCEPT ![hlWk[w].job].req[step] = @ \union {row}]
Conflict(w, step, row) ==
  ~Fits(w, step, row) /\ WorkerGoes(w, "fail") /\ UNCHANGED <<hlJobs, hlFaults>>

FreshId(resources) == Cardinality(resources) + 1

(* ensureVolume: the record, else a volume found by name, region and size, *)
(* else a new one.                                                         *)
EnsureVolume(w) ==
  /\ hlWk[w].pc = "volume"
  /\ LET size == SizeOf[hlWk[w].cfg]
         found == {v \in Live(vols) : v.size = size}
     IN  \/ volRec # 0 /\ WorkerGoes(w, "ensure") /\ UNCHANGED <<hlJobs, volRec, hlFaults>>
         \/ volRec = 0 /\ found = {} /\ WorkerGoes(w, "newvolume") /\ UNCHANGED <<hlJobs, volRec, hlFaults>>
         \/ volRec = 0 /\ found # {} /\ Conflict(w, "vol", <<0, size>>) /\ UNCHANGED volRec
         \/ \E v \in found :
              /\ volRec = 0 /\ volRec' = v.id
              /\ Reserve(w, "vol", <<0, size>>)
              /\ WorkerGoes(w, "ensure") /\ UNCHANGED hlFaults
  /\ UNCHANGED <<project, machRec, cloud, removal>>

CreateVolume(w) ==
  /\ hlWk[w].pc = "newvolume"
  /\ LET size == SizeOf[hlWk[w].cfg] IN
     \/ Conflict(w, "vol", <<0, size>>) /\ UNCHANGED cloud
     \/ /\ Reserve(w, "vol", <<0, size>>)
        /\ Call(w, vols' = vols \union {[id |-> FreshId(vols), size |-> size, st |-> "present"]} /\ UNCHANGED machs,
                [hlWk EXCEPT ![w].vol = FreshId(vols), ![w].pc = "recordvolume"])
  /\ UNCHANGED <<project, records, removal>>

(* RecordVolume: an existing row keeps its volume.                         *)
RecordVolume(w) ==
  /\ hlWk[w].pc = "recordvolume"
  /\ volRec' = IF volRec = 0 THEN hlWk[w].vol ELSE volRec
  /\ WorkerGoes(w, "ensure")
  /\ UNCHANGED <<project, hlJobs, machRec, cloud, hlFaults, removal>>

(* ensureMachine: the record, else a machine found by name and tags, else  *)
(* a new one, created stopped.                                             *)
EnsureMachine(w) ==
  /\ hlWk[w].pc = "ensure"
  /\ LET found == Live(machs)
         use(id) == hlWk' = [hlWk EXCEPT ![w].mach = id, ![w].pc = hlWk[w].after]
     IN  \/ machRec # 0 /\ use(machRec) /\ UNCHANGED <<hlJobs, machRec, hlFaults>>
         \/ machRec = 0 /\ found = {} /\ WorkerGoes(w, "newmachine") /\ UNCHANGED <<hlJobs, machRec, hlFaults>>
         \/ machRec = 0 /\ found # {} /\ Conflict(w, "mach", <<0, hlWk[w].cfg>>) /\ UNCHANGED machRec
         \/ \E m \in found :
              /\ machRec = 0 /\ machRec' = m.id
              /\ Reserve(w, "mach", <<0, hlWk[w].cfg>>)
              /\ use(m.id) /\ UNCHANGED hlFaults
  /\ UNCHANGED <<project, volRec, cloud, removal>>

CreateMachine(w) ==
  /\ hlWk[w].pc = "newmachine" /\ FreshId(machs) <= MaxMachines
  /\ \/ Conflict(w, "mach", <<0, hlWk[w].cfg>>) /\ UNCHANGED cloud
     \/ /\ Reserve(w, "mach", <<0, hlWk[w].cfg>>)
        /\ Call(w, machs' = machs \union {[id |-> FreshId(machs), st |-> "stopped", cfg |-> hlWk[w].cfg]} /\ UNCHANGED vols,
                [hlWk EXCEPT ![w].mach = FreshId(machs), ![w].pc = "recordmachine"])
  /\ UNCHANGED <<project, records, removal>>

(* RecordMachine overwrites the row.                                       *)
RecordMachine(w) ==
  /\ hlWk[w].pc = "recordmachine"
  /\ machRec' = hlWk[w].mach
  /\ WorkerGoes(w, hlWk[w].after)
  /\ UNCHANGED <<project, hlJobs, volRec, cloud, hlFaults, removal>>

(* recreateMissingMachine: drop the record, keep the volume.               *)
RecreateMachine(w) ==
  /\ hlWk[w].pc = "recreate"
  /\ IF volRec = 0
     THEN WorkerGoes(w, "fail") /\ UNCHANGED machRec
     ELSE machRec' = 0 /\ hlWk' = [hlWk EXCEPT ![w].cfg = desired, ![w].pc = "ensure"]
  /\ UNCHANGED <<project, hlJobs, volRec, cloud, hlFaults, removal>>

Changed(m, st, cfg) ==
  machs' = (machs \ {m}) \union {[m EXCEPT !.st = st, !.cfg = cfg]} /\ UNCHANGED vols

(* A machine the provider does not know is reported as not_found.          *)
Missing(w, next, after) ==
  /\ Machine(hlWk[w].mach) = {}
  /\ hlWk' = [hlWk EXCEPT ![w].pc = next, ![w].after = after]
  /\ UNCHANGED <<hlJobs, cloud, hlFaults>>

(* stopMachine, and for stop and restart waitMachineState.  The ledger     *)
(* remembers a stop that succeeded, also when the wait then fails.         *)
StopMachine(w) ==
  /\ hlWk[w].pc = "stop"
  /\ LET next == CASE Type(w) = "delete" -> "destroy"
                   [] Type(w) = "restart" -> (IF hlWk[w].pend THEN "update" ELSE "drift")
                   [] OTHER -> "stopped"
         gone == CASE Type(w) = "delete" -> "dropmachine" [] Type(w) = "restart" -> "recreate" [] OTHER -> "fail"
     IN  \/ Missing(w, gone, "start")
         \/ \E m \in Machine(hlWk[w].mach) :
              /\ Call(w, Changed(m, "stopped", m.cfg), [hlWk EXCEPT ![w].pc = next])
              /\ \/ hlJobs' = [hlJobs EXCEPT ![hlWk[w].job].stopped = m.id]
                 \/ hlWk'[w].pc = "fail" /\ UNCHANGED hlJobs
  /\ UNCHANGED <<project, records, removal>>

UpdateMachine(w) ==
  /\ hlWk[w].pc = "update"
  /\ LET row == <<hlWk[w].mach, hlWk[w].cfg>> IN
     \/ Conflict(w, "upd", row) /\ UNCHANGED cloud
     \/ Fits(w, "upd", row) /\ Missing(w, IF Type(w) = "start" THEN "recreate" ELSE "fail", "start")
     \/ \E m \in Machine(hlWk[w].mach) :
          Reserve(w, "upd", row) /\ Call(w, Changed(m, m.st, hlWk[w].cfg), [hlWk EXCEPT ![w].pc = "start"])
  /\ UNCHANGED <<project, records, removal>>

(* startProject recreates a missing machine, and then tries once more.     *)
StartMachine(w) ==
  /\ hlWk[w].pc \in {"start", "startagain"}
  /\ \/ Missing(w, IF Type(w) = "start" /\ hlWk[w].pc = "start" THEN "recreate" ELSE "fail", "startagain")
     \/ \E m \in Machine(hlWk[w].mach) :
          Call(w, Changed(m, "running", m.cfg), [hlWk EXCEPT ![w].pc = "readiness"]) /\ UNCHANGED hlJobs
  /\ UNCHANGED <<project, records, removal>>

(* verifyReadiness answers; a helper that is not ready is an AbortJob.        *)
VerifyReadiness(w) ==
  /\ hlWk[w].pc = "readiness"
  /\ WorkerGoes(w, IF Type(w) = "restart" /\ hlWk[w].pend THEN "apply" ELSE "running")
  /\ UNCHANGED <<project, hlJobs, records, cloud, hlFaults, removal>>

(* ApplyProjectRuntimeConfig copies the desired columns of the moment.     *)
ApplyRuntimeConfig(w) ==
  /\ hlWk[w].pc = "apply"
  /\ applied' = desired /\ pending' = FALSE
  /\ WorkerGoes(w, "running")
  /\ UNCHANGED <<state, desired, allocated, released, env, hlJobs, records, cloud, hlFaults, removal>>

MarkProvisionedStopped(w) ==
  /\ hlWk[w].pc = "provisioned"
  /\ applied' = desired /\ pending' = FALSE
  /\ state' = IF state = "deleted" THEN state ELSE "stopped"
  /\ WorkerGoes(w, "done")
  /\ UNCHANGED <<desired, allocated, released, env, hlJobs, records, cloud, hlFaults, removal>>

(* RecordMachineState: only a deleted project keeps its state.             *)
RecordMachineState(w) ==
  /\ hlWk[w].pc \in {"running", "stopped"}
  /\ state' = IF state = "deleted" THEN state ELSE hlWk[w].pc
  /\ WorkerGoes(w, "done")
  /\ UNCHANGED <<desired, applied, pending, allocated, released, env, hlJobs, records, cloud, hlFaults, removal>>

-----------------------------------------------------------------------------
(* Job steps: deletion                                                     *)

(* BeginHostedEnvironmentDelete and the read of the machine record.        *)
BeginDelete(w) ==
  /\ hlWk[w].pc = "begin"
  /\ env' = IF env = "active" THEN "deleting" ELSE env
  /\ hlWk' = [hlWk EXCEPT ![w].mach = machRec, ![w].pc = IF machRec = 0 THEN "secrets" ELSE "stop"]
  /\ UNCHANGED <<state, desired, applied, pending, allocated, released, hlJobs, records, cloud, hlFaults, removal>>

DestroyMachine(w) ==
  /\ hlWk[w].pc = "destroy"
  /\ \/ Missing(w, "dropmachine", "idle")
     \/ \E m \in Machine(hlWk[w].mach) :
          Call(w, Changed(m, "gone", m.cfg), [hlWk EXCEPT ![w].pc = "dropmachine"]) /\ UNCHANGED hlJobs
  /\ UNCHANGED <<project, records, removal>>

RemoveMachine(w) ==
  /\ hlWk[w].pc = "dropmachine"
  /\ machRec' = 0
  /\ WorkerGoes(w, "secrets")
  /\ UNCHANGED <<project, hlJobs, volRec, cloud, hlFaults, removal>>

(* deleteProviderSecrets: a deletion begun and not confirmed is not tried  *)
(* again by the worker.                                                    *)
DeleteSecrets(w) ==
  /\ hlWk[w].pc = "secrets"
  /\ IF hlJobs[hlWk[w].job].secrets = "open"
     THEN WorkerGoes(w, "fail") /\ UNCHANGED hlJobs
     ELSE /\ hlWk' = [hlWk EXCEPT ![w].pc = IF hlJobs[hlWk[w].job].secrets = "pending" THEN "unsecret" ELSE "readvolume"]
          /\ hlJobs' = [hlJobs EXCEPT ![hlWk[w].job].secrets = IF @ = "pending" THEN "open" ELSE @]
  /\ UNCHANGED <<project, records, cloud, hlFaults, removal>>

SecretsDeleted(w) ==
  /\ hlWk[w].pc = "unsecret"
  /\ hlJobs' = [hlJobs EXCEPT ![hlWk[w].job].secrets = "done"]
  /\ WorkerGoes(w, "readvolume")
  /\ UNCHANGED <<project, records, cloud, hlFaults, removal>>

(* Mutated form: the record is dropped before the volume is destroyed.     *)
ReadVolumeForgets(w) ==
  /\ hlWk[w].pc = "readvolume"
  /\ volRec' = 0
  /\ hlWk' = [hlWk EXCEPT ![w].vol = volRec, ![w].pc = IF volRec = 0 THEN "deleted" ELSE "destroyvolume"]
  /\ UNCHANGED <<project, hlJobs, machRec, cloud, hlFaults, removal>>

ReadVolume(w) ==
  /\ hlWk[w].pc = "readvolume"
  /\ hlWk' = [hlWk EXCEPT ![w].vol = volRec, ![w].pc = IF volRec = 0 THEN "deleted" ELSE "destroyvolume"]
  /\ UNCHANGED <<project, hlJobs, records, cloud, hlFaults, removal>>

DestroyVolume(w) ==
  /\ hlWk[w].pc = "destroyvolume"
  /\ \/ {v \in Live(vols) : v.id = hlWk[w].vol} = {} /\ WorkerGoes(w, "dropvolume") /\ UNCHANGED <<cloud, hlFaults>>
     \/ \E v \in Live(vols) :
          /\ v.id = hlWk[w].vol
          /\ Call(w, vols' = (vols \ {v}) \union {[v EXCEPT !.st = "gone"]} /\ UNCHANGED machs,
                  [hlWk EXCEPT ![w].pc = "dropvolume"])
  /\ UNCHANGED <<project, hlJobs, records, removal>>

RemoveVolume(w) ==
  /\ hlWk[w].pc = "dropvolume"
  /\ volRec' = 0
  /\ WorkerGoes(w, "deleted")
  /\ UNCHANGED <<project, hlJobs, machRec, cloud, hlFaults, removal>>

MarkDeleted(w) ==
  /\ hlWk[w].pc = "deleted"
  /\ ReleaseAndMarkDeleted
  /\ WorkerGoes(w, "applyenv")
  /\ UNCHANGED <<desired, applied, pending, env, hlJobs, records, cloud, hlFaults, removal>>

(* CompleteHostedEnvironmentDelete, in two statements: an environment that *)
(* is already applied as deleted is taken for done.                        *)
ApplyEnvironmentDelete(w) ==
  /\ hlWk[w].pc = "applyenv"
  /\ IF env \in {"none", "applied"}
     THEN WorkerGoes(w, "done") /\ UNCHANGED env
     ELSE WorkerGoes(w, "dropenv") /\ env' = "applied"
  /\ UNCHANGED <<state, desired, applied, pending, allocated, released, hlJobs, records, cloud, hlFaults, removal>>

DropEnvironment(w) ==
  /\ hlWk[w].pc = "dropenv"
  /\ env' = "none"
  /\ WorkerGoes(w, "done")
  /\ UNCHANGED <<state, desired, applied, pending, allocated, released, hlJobs, records, cloud, hlFaults, removal>>

-----------------------------------------------------------------------------
(* Faults                                                                  *)

(* A query or provider call fails without effect: the attempt is over.     *)
AbortJob(w) ==
  /\ hlWk[w].pc \notin {"idle", "done", "fail", "block"}
  /\ WorkerGoes(w, "fail")
  /\ JobFault
  /\ UNCHANGED <<project, hlJobs, records, cloud, removal>>

(* The process dies; its lease stays behind.                               *)
Crash(w) ==
  /\ hlWk[w].pc # "idle"
  /\ Free(w)
  /\ JobFault
  /\ UNCHANGED <<project, hlJobs, records, cloud, removal>>

(* Host failure or manual deletion at the provider.                        *)
LoseMachine ==
  /\ \E m \in Live(machs) : Changed(m, "gone", m.cfg)
  /\ JobFault
  /\ UNCHANGED <<project, hlJobs, records, hlWk, removal>>

-----------------------------------------------------------------------------
Work(w) ==
  \/ ReadIntent(w) \/ ReadMachine(w) \/ CheckDrift(w)
  \/ EnsureVolume(w) \/ CreateVolume(w) \/ RecordVolume(w)
  \/ EnsureMachine(w) \/ CreateMachine(w) \/ RecordMachine(w) \/ RecreateMachine(w)
  \/ StopMachine(w) \/ UpdateMachine(w) \/ StartMachine(w) \/ VerifyReadiness(w)
  \/ ApplyRuntimeConfig(w) \/ MarkProvisionedStopped(w) \/ RecordMachineState(w)
  \/ BeginDelete(w) \/ DestroyMachine(w) \/ RemoveMachine(w)
  \/ DeleteSecrets(w) \/ SecretsDeleted(w)
  \/ ReadVolume(w) \/ DestroyVolume(w) \/ RemoveVolume(w)
  \/ MarkDeleted(w) \/ ApplyEnvironmentDelete(w) \/ DropEnvironment(w)
  \/ CompleteJob(w) \/ FailJob(w) \/ BlockJob(w)

HlNext ==
  /\ UNCHANGED hlScope
  /\ \/ Owner
     \/ "enforce" \in hlScope.requests /\ EnforcementStop
     \/ \E w \in hlScope.workers : Claim(w) \/ Work(w) \/ AbortJob(w) \/ Crash(w)
     \/ \E j \in DOMAIN hlJobs : BackoffOver(j) \/ ExpireLease(j)
     \/ LoseMachine

HlSpec == HlInit /\ [][HlNext]_hlVars

(* A worker runs its job to its end and polls every second, so it takes    *)
(* every job that is due now and then: a failed job waits 30 seconds and   *)
(* leaves room for the jobs behind it.  The wait ends, for every job, and  *)
(* a lease runs out.                                                       *)
ClaimSome == \E w \in hlScope.workers : Claim(w)
ClaimDelete == \E w \in hlScope.workers : Claim(w) /\ hlJobs[hlWk'[w].job].type = "delete"
BackoffSome == \E j \in DOMAIN hlJobs : BackoffOver(j)
BackoffDelete == \E j \in DOMAIN hlJobs : hlJobs[j].type = "delete" /\ BackoffOver(j)
ExpireSome == \E j \in DOMAIN hlJobs : ExpireLease(j)
HlFairness ==
  /\ \A w \in HlWorkers : WF_hlWork(w \in hlScope.workers /\ Work(w))
  /\ WF_hlWork(ClaimSome) /\ SF_hlWork(ClaimDelete)
  /\ WF_hlWork(BackoffSome) /\ WF_hlWork(BackoffDelete) /\ WF_hlWork(ExpireSome)

HlFairSpec == HlSpec /\ HlFairness

-----------------------------------------------------------------------------
(* Properties                                                              *)

States == {"none", "provisioning_storage", "starting", "running", "stopping", "stopped",
           "restarting", "ready", "deleting", "deleted"}

(* Every column holds a value the code writes there, and every worker      *)
(* outside "idle" works on a job of the queue.                             *)
HlTypeOK ==
  /\ state \in States /\ desired \in Configs /\ applied \in Configs /\ pending \in BOOLEAN
  /\ allocated \in 0..Limit /\ released \in BOOLEAN
  /\ env \in {"none", "active", "deleting", "applied"}
  /\ Len(hlJobs) <= MaxJobs
  /\ \A j \in DOMAIN hlJobs : hlJobs[j].state \in {"queued", "running", "succeeded", "blocked", "superseded"}
  /\ volRec \in {0} \union {v.id : v \in vols} /\ machRec \in {0} \union {m.id : m \in machs}
  /\ \A w \in hlScope.workers : hlWk[w].job \in DOMAIN hlJobs \/ hlWk[w] = IdleWorker
  /\ hlFaults \in 0..hlScope.faults

(* The storage account is charged for exactly the size the live project    *)
(* asks for, through resizes, repeated deletions, the inline deletion, the *)
(* delete job and its retries; in particular a worker's late state never   *)
(* brings a deleted project back (reserveStorageTx, MarkDeletedAndRelease- *)
(* Storage, UpdateOrchestratedProjectState).                               *)
StorageBalance == allocated = IF state \in {"none", "deleted"} THEN 0 ELSE SizeOf[desired]

(* When the delete job has succeeded and no worker is busy, no record      *)
(* points at a provider resource and no volume is left at the provider, as *)
(* long as no lease ran out under its worker (deleteProject).              *)
DeleteJobCleans ==
  /\ ~hlScope.overlap
  /\ \E j \in DOMAIN hlJobs : hlJobs[j].type = "delete" /\ hlJobs[j].state = "succeeded"
  /\ \A w \in hlScope.workers : hlWk[w].pc = "idle"
  => volRec = 0 /\ machRec = 0 /\ Live(vols) = {}

(* A project that runs, with no change pending and no job unfinished, runs *)
(* the configuration it asks for: a change is either still pending or on   *)
(* the machine (restartProject, reconcileMachineSpecDrift).                *)
ConfigApplied ==
  /\ ~pending /\ state = "running"
  /\ \A j \in DOMAIN hlJobs : hlJobs[j].state \notin {"queued", "running"}
  => \A m \in Machine(machRec) : m.cfg = desired

(* Nothing is left at the provider once a project is deleted and no worker *)
(* is busy (MarkDeleting deletes inline when nothing is on record).        *)
DeletedIsClean ==
  state = "deleted" /\ (\A w \in hlScope.workers : hlWk[w].pc = "idle") => Live(vols) = {} /\ Live(machs) = {}

Deleted == state = "deleted" \/ \E j \in DOMAIN hlJobs : hlJobs[j].secrets = "open"

(* A requested deletion completes, unless a secret deletion has no         *)
(* confirmed outcome and waits for an operator (deleteProject).            *)
DeleteCompletes == removal ~> Deleted

-----------------------------------------------------------------------------
(* What is model-checked: configurations a and b ask for the same storage, *)
(* c for all of the account, d for more than that.                         *)
MCSizeOf == [c \in Configs |-> CASE c = "c" -> 2 [] c = "d" -> 3 [] OTHER -> 1]

(* One worker and every request; two workers whose leases may run out.     *)
OneWorker ==
  [workers |-> {"w1"}, configs |-> Configs, overlap |-> FALSE, faults |-> 2,
   requests |-> {"create", "update", "start", "stop", "restart", "delete"}]
TwoWorkers ==
  [workers |-> {"w1", "w2"}, configs |-> {"a"}, overlap |-> TRUE, faults |-> 1,
   requests |-> {"create", "start", "delete", "enforce"}]
SafetyScopes == {OneWorker, TwoWorkers}

(* One worker without faults, and an owner who creates and deletes.        *)
InlineScopes ==
  {[OneWorker EXCEPT !.configs = {"a"}, !.faults = 0, !.requests = {"create", "delete"}]}

=============================================================================
