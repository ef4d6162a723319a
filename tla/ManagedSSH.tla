----------------------------- MODULE ManagedSSH -----------------------------
(***************************************************************************)
(* Managed SSH (managedssh/repository.go, service.go and                   *)
(* dbsqlc/managed_ssh.sql.go).  The first half registers one public key    *)
(* per CLI session and gives a machine the list it writes to its           *)
(* authorized_keys.  The second half keeps the host keys a machine         *)
(* observes: the first set of an installation is trusted, a later one      *)
(* waits until a user promotes it.  Every method is one transaction that   *)
(* locks its rows.  The halves share no row, so msPart picks the one a     *)
(* behaviour exercises.  A request carries an operation id; MsNone stands  *)
(* for ids that are never repeated.                                        *)
(***************************************************************************)
EXTENDS Naturals, FiniteSets

CONSTANTS
  MsParts,       \* the halves exercised: "clients", "hosts"
  MsUsers, MsSessions, MsClientKeys,
  MsMachines, MsHostKeys, MsSets,
  MsOps, MsPorts,
  MsLimit,       \* the code's 64 keys, per user and per machine
  MsMaxGen,      \* bound: installation generations
  MsMaxObs,      \* bound: observation generations
  MsNone

MsAssumption ==
  /\ MsParts \subseteq {"clients", "hosts"}
  /\ MsLimit \in Nat \ {0} /\ MsMaxGen \in Nat \ {0} /\ MsMaxObs \in Nat \ {0}

VARIABLES
  msPart,
  msOp,        \* managed_ssh_operations: [MsOps -> the request it recorded]
  msSession,   \* cli_client_sessions
  msKey,       \* managed_ssh_client_keys
  msAllowed,   \* users whose grant covers the machine's SSH
  msFile,      \* keys in the machine's authorized_keys
  msMachine,   \* user_machines
  msTarget,    \* machine_ssh_targets
  msSet,       \* machine_ssh_host_key_sets with their members
  msOwner      \* machine_ssh_host_key_owners

msClientVars == <<msSession, msKey, msAllowed, msFile>>
msHostVars == <<msMachine, msTarget, msSet, msOwner>>
msVars == <<msPart, msOp, msClientVars, msHostVars>>

NoClientKey == [state |-> "none", session |-> MsNone]
NoSSHTarget == [gen |-> 0, port |-> MsNone, version |-> 0]
NoHostKeySet == [state |-> "none", machine |-> MsNone, gen |-> 0, obs |-> 0, keys |-> {}]
NoManagedOperation == <<>>

MsInit ==
  /\ msPart \in MsParts
  /\ msOp = [o \in MsOps |-> NoManagedOperation]
  /\ msSession = [s \in MsSessions |-> [state |-> "none", user |-> MsNone]]
  /\ msKey = [k \in MsClientKeys |-> NoClientKey]
  /\ msAllowed = MsUsers
  /\ msFile = {}
  /\ msMachine = [m \in MsMachines |-> [state |-> "online", gen |-> 1]]
  /\ msTarget = [m \in MsMachines |-> NoSSHTarget]
  /\ msSet = [i \in MsSets |-> NoHostKeySet]
  /\ msOwner = [h \in MsHostKeys |-> MsNone]

---------------------------------------------------------------------------
\* Operations: a request whose id was recorded for it is answered again and
\* changes nothing; one recorded for another request conflicts.

GetManagedSSHOperationForUpdate(o) == msOp[o]

managedOperationReplay(o) ==
  o # MsNone => GetManagedSSHOperationForUpdate(o) = NoManagedOperation

CreateManagedSSHOperation(o, request) ==
  msOp' = IF o = MsNone THEN msOp ELSE [msOp EXCEPT ![o] = request]

createManagedOperation(o, request) ==
  /\ managedOperationReplay(o) = TRUE
  /\ CreateManagedSSHOperation(o, request)

---------------------------------------------------------------------------
\* Client keys.

ResolveManagedSSHClientAuthorityForUpdate(s) == msSession[s].state = "active"

GetActiveManagedSSHClientKeyForUpdate(s) ==
  {k \in MsClientKeys : msKey[k].session = s /\ msKey[k].state = "active"}

CountActiveManagedSSHClientKeysForUser(u) ==
  Cardinality({k \in MsClientKeys : /\ msKey[k].state = "active"
                                    /\ msSession[msKey[k].session].user = u
                                    /\ msSession[msKey[k].session].state = "active"})

GetManagedSSHClientKeyByFingerprint(k) == msKey[k]

CreateManagedSSHClientKey(k, s) == [msKey EXCEPT ![k] = [state |-> "active", session |-> s]]

RevokeManagedSSHClientKey(keys) ==
  [k \in MsClientKeys |-> IF k \in keys /\ msKey[k].state = "active"
                          THEN [msKey[k] EXCEPT !.state = "revoked"] ELSE msKey[k]]

ListActiveManagedSSHClientKeysForMachine ==
  {k \in MsClientKeys : /\ msKey[k].state = "active"
                        /\ msSession[msKey[k].session].state = "active"
                        /\ msSession[msKey[k].session].user \in msAllowed}

\* A key already stored for this session, active or revoked, is answered as
\* it is; one stored for another session conflicts.
RegisterClient(o, s, k) ==
  /\ msPart = "clients"
  /\ ResolveManagedSSHClientAuthorityForUpdate(s)
  /\ createManagedOperation(o, <<"client_key_register", s, k>>)
  /\ LET row == GetManagedSSHClientKeyByFingerprint(k)
         held == GetActiveManagedSSHClientKeyForUpdate(s) IN
     \/ /\ held = {k} \/ (held = {} /\ row.state = "revoked" /\ row.session = s)
        /\ UNCHANGED msKey
     \/ /\ held = {} /\ row = NoClientKey
        /\ CountActiveManagedSSHClientKeysForUser(msSession[s].user) < MsLimit
        /\ msKey' = CreateManagedSSHClientKey(k, s)
  /\ UNCHANGED <<msPart, msSession, msAllowed, msFile, msHostVars>>

RevokeClientKey(o, u, k) ==
  /\ msPart = "clients"
  /\ GetManagedSSHClientKeyByFingerprint(k).state = "active"
  /\ msSession[msKey[k].session].user = u
  /\ createManagedOperation(o, <<"client_key_revoke", u, k>>)
  /\ msKey' = RevokeManagedSSHClientKey({k})
  /\ UNCHANGED <<msPart, msSession, msAllowed, msFile, msHostVars>>

\* The machine replaces its file by the answer; a list beyond the limit is
\* refused and leaves the file.
ListClientKeys ==
  /\ msPart = "clients"
  /\ Cardinality(ListActiveManagedSSHClientKeysForMachine) <= MsLimit
  /\ msFile' = ListActiveManagedSSHClientKeysForMachine
  /\ UNCHANGED <<msPart, msOp, msSession, msKey, msAllowed, msHostVars>>

\* A CLI session begins, and ends; migration 106 ends its key with it.
MsSessionBegins(s, u) ==
  /\ msPart = "clients" /\ msSession[s].state = "none"
  /\ msSession' = [msSession EXCEPT ![s] = [state |-> "active", user |-> u]]
  /\ UNCHANGED <<msPart, msOp, msKey, msAllowed, msFile, msHostVars>>

MsSessionEnds(s) ==
  /\ msPart = "clients" /\ msSession[s].state = "active"
  /\ msSession' = [msSession EXCEPT ![s].state = "revoked"]
  /\ msKey' = RevokeManagedSSHClientKey({k \in MsClientKeys : msKey[k].session = s})
  /\ UNCHANGED <<msPart, msOp, msAllowed, msFile, msHostVars>>

\* A team grants or withdraws the machine's SSH.
MsGrantChanges(u) ==
  /\ msPart = "clients"
  /\ msAllowed' = (msAllowed \ {u}) \cup ({u} \ msAllowed)
  /\ UNCHANGED <<msPart, msOp, msSession, msKey, msFile, msHostVars>>

---------------------------------------------------------------------------
\* Targets.

ResolveMachineSSHHostKeyAuthorityForUpdate(m, g) ==
  msMachine[m].gen = g /\ msMachine[m].state # "deleted"

ResolveMachineSSHManagementAuthorityForUpdate(m, g) ==
  msMachine[m].gen = g /\ msMachine[m].state = "online"

GetMachineSSHTargetForUpdate(m) == msTarget[m]

CreateMachineSSHTarget(m, g, port) ==
  msTarget' = [msTarget EXCEPT ![m] = [gen |-> g, port |-> port, version |-> 1]]

ReplaceMachineSSHTargetGeneration(m, g, port) ==
  /\ msTarget[m].gen < g
  /\ msTarget' = [msTarget EXCEPT ![m] = [gen |-> g, port |-> port, version |-> @.version + 1]]

UpdateMachineSSHTargetPort(m, g, port, version) ==
  /\ msTarget[m].gen = g /\ msTarget[m].version = version
  /\ msTarget' = [msTarget EXCEPT ![m].port = port, ![m].version = @ + 1]

RegisterTarget(o, m, g, port) ==
  LET row == GetMachineSSHTargetForUpdate(m) IN
  /\ msPart = "hosts"
  /\ ResolveMachineSSHManagementAuthorityForUpdate(m, g)
  /\ createManagedOperation(o, <<"target_register", m, g, port>>)
  /\ \/ row = NoSSHTarget /\ CreateMachineSSHTarget(m, g, port)
     \/ row.gen = g /\ row.port = port /\ UNCHANGED msTarget
     \/ row # NoSSHTarget /\ ReplaceMachineSSHTargetGeneration(m, g, port)
  /\ UNCHANGED <<msPart, msClientVars, msMachine, msSet, msOwner>>

UpdateTargetPort(o, m, g, port) ==
  LET row == GetMachineSSHTargetForUpdate(m) IN
  /\ msPart = "hosts"
  /\ ResolveMachineSSHManagementAuthorityForUpdate(m, g)
  /\ row.gen = g
  /\ row.version < MsMaxGen + 1   \* bound: updates of a target
  /\ createManagedOperation(o, <<"target_update", m, g, port>>)
  /\ \/ row.port = port /\ UNCHANGED msTarget
     \/ row.port # port /\ UpdateMachineSSHTargetPort(m, g, port, row.version)
  /\ UNCHANGED <<msPart, msClientVars, msMachine, msSet, msOwner>>

---------------------------------------------------------------------------
\* Host keys.

MsSetsIn(m, state) == {i \in MsSets : msSet[i].machine = m /\ msSet[i].state = state}

GetActiveMachineSSHHostKeySetForUpdate(m) == MsSetsIn(m, "active")

GetPendingMachineSSHHostKeySetForUpdate(m) == MsSetsIn(m, "pending")

GetMachineSSHHostKeySetByObservation(m, g, obs) ==
  {i \in MsSetsIn(m, "active") \cup MsSetsIn(m, "pending") : msSet[i].gen = g /\ msSet[i].obs = obs}

GetMachineSSHHostKeyOwner(h) == msOwner[h]

CreateMachineSSHHostKeyOwner(m, keys) ==
  /\ \A h \in keys : GetMachineSSHHostKeyOwner(h) \in {MsNone, m}
  /\ msOwner' = [h \in MsHostKeys |-> IF h \in keys THEN m ELSE msOwner[h]]

SupersedeActiveMachineSSHHostKeySet(sets, ids) ==
  [i \in MsSets |-> IF i \in ids THEN [sets[i] EXCEPT !.state = "superseded"] ELSE sets[i]]

RejectPendingMachineSSHHostKeySet(sets, ids) ==
  [i \in MsSets |-> IF i \in ids THEN [sets[i] EXCEPT !.state = "rejected"] ELSE sets[i]]

PromotePendingMachineSSHHostKeySet(sets, i) == [sets EXCEPT ![i].state = "active"]

CreateMachineSSHHostKeySet(sets, i, row) == [sets EXCEPT ![i] = row]

\* The active set of an earlier installation gives way to the next
\* observation.
StaleActive(m, g) == {i \in GetActiveMachineSSHHostKeySetForUpdate(m) : msSet[i].gen # g}

\* The request brings the id, the observation generation and the keys.  One
\* that repeats a live observation, the active keys or the pending keys
\* changes nothing; a pending set with other keys makes it conflict.
ObserveHost(o, i, m, g, obs, keys) ==
  LET stale == StaleActive(m, g)
      active == GetActiveMachineSSHHostKeySetForUpdate(m) \ stale
      pending == IF stale = {} THEN GetPendingMachineSSHHostKeySetForUpdate(m) ELSE {}
      row == [state |-> IF active = {} THEN "active" ELSE "pending",
              machine |-> m, gen |-> g, obs |-> obs, keys |-> keys] IN
  /\ msPart = "hosts"
  /\ ResolveMachineSSHHostKeyAuthorityForUpdate(m, g)
  /\ createManagedOperation(o, <<"host_keys_observe", m, g, i, obs, keys>>)
  /\ \/ /\ \E j \in GetMachineSSHHostKeySetByObservation(m, g, obs) : j = i /\ msSet[j].keys = keys
        /\ UNCHANGED <<msSet, msOwner>>
     \/ /\ GetMachineSSHHostKeySetByObservation(m, g, obs) = {}
        /\ \E j \in active \cup pending : msSet[j].keys = keys
        /\ UNCHANGED <<msSet, msOwner>>
     \/ /\ GetMachineSSHHostKeySetByObservation(m, g, obs) = {}
        /\ msSet[i] = NoHostKeySet
        /\ pending = {} /\ \A j \in active : msSet[j].keys # keys
        /\ CreateMachineSSHHostKeyOwner(m, keys)
        /\ LET rejected == IF stale = {} THEN msSet
                 ELSE RejectPendingMachineSSHHostKeySet(msSet, GetPendingMachineSSHHostKeySetForUpdate(m)) IN
           msSet' = CreateMachineSSHHostKeySet(SupersedeActiveMachineSSHHostKeySet(rejected, stale), i, row)
  /\ UNCHANGED <<msPart, msClientVars, msMachine, msTarget>>

\* The user names the pending set and the keys they were shown.
PromoteHost(o, i, m, g, keys) ==
  LET active == GetActiveMachineSSHHostKeySetForUpdate(m) IN
  /\ msPart = "hosts"
  /\ ResolveMachineSSHManagementAuthorityForUpdate(m, g)
  /\ GetPendingMachineSSHHostKeySetForUpdate(m) = {i}
  /\ msSet[i].gen = g /\ msSet[i].keys = keys
  /\ active # {}
  /\ createManagedOperation(o, <<"host_keys_promote", m, g, i, keys>>)
  /\ msSet' = PromotePendingMachineSSHHostKeySet(SupersedeActiveMachineSSHHostKeySet(msSet, active), i)
  /\ UNCHANGED <<msPart, msClientVars, msMachine, msTarget, msOwner>>

\* The machine is installed again, connects or disconnects.
MsReinstalled(m) ==
  /\ msPart = "hosts" /\ msMachine[m].state # "deleted" /\ msMachine[m].gen < MsMaxGen
  /\ msMachine' = [msMachine EXCEPT ![m] = [state |-> "online", gen |-> @.gen + 1]]
  /\ UNCHANGED <<msPart, msOp, msClientVars, msTarget, msSet, msOwner>>

MsDisconnected(m) ==
  /\ msPart = "hosts" /\ msMachine[m].state = "online"
  /\ msMachine' = [msMachine EXCEPT ![m].state = "disconnected"]
  /\ UNCHANGED <<msPart, msOp, msClientVars, msTarget, msSet, msOwner>>

DeleteUserMachineSSHHostKeySets(m) ==
  msSet' = [i \in MsSets |-> IF msSet[i].machine = m THEN NoHostKeySet ELSE msSet[i]]

DeleteUserMachineSSHHostKeyOwners(m) ==
  msOwner' = [h \in MsHostKeys |-> IF msOwner[h] = m THEN MsNone ELSE msOwner[h]]

DeleteUserMachineSSHTarget(m) == msTarget' = [msTarget EXCEPT ![m] = NoSSHTarget]

\* CleanupMachineDeviceTx, the part about SSH.
MsRemoved(m) ==
  /\ msPart = "hosts" /\ msMachine[m].state # "deleted"
  /\ msMachine' = [msMachine EXCEPT ![m].state = "deleted"]
  /\ DeleteUserMachineSSHHostKeySets(m)
  /\ DeleteUserMachineSSHHostKeyOwners(m)
  /\ DeleteUserMachineSSHTarget(m)
  /\ UNCHANGED <<msPart, msOp, msClientVars>>

---------------------------------------------------------------------------
MsRequestIds == MsOps \cup {MsNone}

MsClientStep ==
  \/ \E s \in MsSessions : MsSessionEnds(s) \/ \E u \in MsUsers : MsSessionBegins(s, u)
  \/ \E u \in MsUsers : MsGrantChanges(u)
  \/ \E o \in MsRequestIds, k \in MsClientKeys :
       \/ \E s \in MsSessions : RegisterClient(o, s, k)
       \/ \E u \in MsUsers : RevokeClientKey(o, u, k)
  \/ ListClientKeys

MsHostStep ==
  \/ \E m \in MsMachines : MsReinstalled(m) \/ MsDisconnected(m) \/ MsRemoved(m)
  \/ \E o \in MsRequestIds, m \in MsMachines, g \in 1..MsMaxGen :
       \/ \E port \in MsPorts : RegisterTarget(o, m, g, port) \/ UpdateTargetPort(o, m, g, port)
       \/ \E i \in MsSets, keys \in SUBSET MsHostKeys \ {{}} :
            \/ \E obs \in 1..MsMaxObs : ObserveHost(o, i, m, g, obs, keys)
            \/ PromoteHost(o, i, m, g, keys)

MsNext == MsClientStep \/ MsHostStep

MsSpec == MsInit /\ [][MsNext]_msVars

---------------------------------------------------------------------------
\* The state has its shape.
MsTypeOK ==
  /\ \A s \in MsSessions : msSession[s].state \in {"none", "active", "revoked"}
  /\ \A k \in MsClientKeys : msKey[k].state \in {"none", "active", "revoked"}
  /\ msFile \subseteq MsClientKeys /\ msAllowed \subseteq MsUsers
  /\ \A m \in MsMachines : msMachine[m].gen \in 1..MsMaxGen /\ msTarget[m].gen \in 0..msMachine[m].gen
  /\ \A i \in MsSets : msSet[i].state \in {"none", "active", "pending", "superseded", "rejected"}

\* A CLI session's key ends with the session, also when a registration is
\* under way while the session is revoked (repository.go RegisterClient locks
\* the session that the trigger of migration 106 acts for).
KeyEndsWithSession ==
  \A k \in MsClientKeys : msKey[k].state = "active" =>
    /\ msSession[msKey[k].session].state = "active"
    /\ GetActiveManagedSSHClientKeyForUpdate(msKey[k].session) = {k}

\* A pending set always has the active set of its own installation to
\* replace, so a user can promote it, whatever re-enrollments and repeated
\* observations came before (repository.go ObserveHost and PromoteHost).
PendingAwaitsActive ==
  \A i \in MsSets : msSet[i].state = "pending" =>
    \E j \in MsSetsIn(msSet[i].machine, "active") :
      msSet[j].gen = msSet[i].gen /\ msSet[j].keys # msSet[i].keys

\* Within one installation the trusted host keys change only when a user
\* promotes a set that was waiting: no observation of the machine replaces
\* them by itself (repository.go ObserveHost).
TrustChangesByPromotion ==
  \A i, j \in MsSets :
    /\ msSet[i].state = "active" /\ msSet'[j].state = "active"
    /\ msSet[i].machine = msSet'[j].machine /\ msSet[i].gen = msSet'[j].gen
    /\ msSet[i].keys # msSet'[j].keys
    => msSet[j].state = "pending" /\ msSet[j].keys = msSet'[j].keys

============================================================================
