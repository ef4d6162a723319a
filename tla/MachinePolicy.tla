--------------------------- MODULE MachinePolicy ----------------------------
(***************************************************************************)
(* usermachines/availability.go and capabilities.go: what the owner wants  *)
(* of a machine and what the machine says it has applied.  The owner's     *)
(* change names the version it was made on and carries an idempotency key; *)
(* the machine fetches a version, applies it and reports; reports may be   *)
(* lost, repeated and reordered, and heartbeats carry capabilities too.    *)
(*                                                                         *)
(* A choice stands for a mode, or for a selection of capabilities.         *)
(***************************************************************************)
EXTENDS Naturals, FiniteSets

CONSTANTS MpKeys, MpChoices, MpMaxVersion, MpMaxTime, MpDefault

MpAssumption == /\ MpDefault \in MpChoices
                /\ MpMaxVersion \in Nat /\ MpMaxTime \in Nat

VARIABLES mpAvailability,  \* user_machines.availability_*
          mpCapabilities,  \* user_machines.capabilities_*, configured and observed
          mpOperation,     \* user_machine_availability_operations, ..._capability_operations
          mpMachine,       \* "online", "offline", "gone"
          mpFetched,       \* what the machine last fetched of each policy
          mpReports,       \* reports the machine has sent
          mpTime           \* the machine's clock

mpVars == <<mpAvailability, mpCapabilities, mpOperation, mpMachine, mpFetched, mpReports, mpTime>>

MpPolicies == {"availability", "capabilities"}
MpNoOperation == [policy |-> "none", expected |-> 0, choice |-> MpDefault]

MpTypeOK ==
  /\ \A p \in {mpAvailability, mpCapabilities} :
       /\ p.choice \in MpChoices /\ p.seen \in MpChoices \cup {"nothing"}
       /\ p.desired \in 0..MpMaxVersion /\ p.observed \in 0..MpMaxVersion
       /\ p.at \in 0..MpMaxTime /\ p.status \in {"pending", "offline", "applied", "error"}
  /\ \A k \in MpKeys : mpOperation[k].policy \in MpPolicies \cup {"none"}
  /\ mpMachine \in {"online", "offline", "gone"}
  /\ mpReports \subseteq [policy: MpPolicies, version: 0..MpMaxVersion, choice: MpChoices,
                          status: {"applied", "error"}, at: 0..MpMaxTime]
  /\ mpTime \in 0..MpMaxTime

MpInit ==
  /\ mpAvailability = [choice |-> MpDefault, desired |-> 0, observed |-> 0, seen |-> MpDefault,
                       at |-> 0, status |-> "pending"]
  /\ mpCapabilities = [choice |-> MpDefault, desired |-> 1, observed |-> 0, seen |-> MpDefault,
                       at |-> 0, status |-> "pending"]
  /\ mpOperation = [k \in MpKeys |-> MpNoOperation]
  /\ mpMachine = "online"
  /\ mpFetched = [p \in MpPolicies |-> [version |-> 0, choice |-> MpDefault]]
  /\ mpReports = {} /\ mpTime = 0

-----------------------------------------------------------------------------
(* The owner's changes *)

GetUserMachineAvailabilityOperation(k) == mpOperation[k].policy # "none"

GetUserMachineCapabilityOperation(k) == mpOperation[k].policy # "none"

SetUserMachineAvailabilityPolicy(choice) ==
  [mpAvailability EXCEPT !.choice = choice, !.desired = @ + 1, !.status = "pending"]

SetUserMachineCapabilities(choice) ==
  [mpCapabilities EXCEPT !.choice = choice, !.desired = @ + 1,
                         !.status = IF mpMachine = "online" THEN "pending" ELSE "offline"]

CreateUserMachineAvailabilityOperation(k, expected, choice) ==
  [mpOperation EXCEPT ![k] = [policy |-> "availability", expected |-> expected, choice |-> choice]]

CreateUserMachineCapabilityOperation(k, expected, choice) ==
  [mpOperation EXCEPT ![k] = [policy |-> "capabilities", expected |-> expected, choice |-> choice]]

\* A key that was used answers from its record, or is refused; neither writes.
SetAvailabilityPolicy(k, expected, choice) ==
  /\ mpMachine # "gone" /\ ~GetUserMachineAvailabilityOperation(k)
  /\ mpAvailability.desired = expected /\ expected < MpMaxVersion
  /\ mpAvailability' = SetUserMachineAvailabilityPolicy(choice)
  /\ mpOperation' = CreateUserMachineAvailabilityOperation(k, expected, choice)
  /\ UNCHANGED <<mpCapabilities, mpMachine, mpFetched, mpReports, mpTime>>

SetDeviceCapabilities(k, expected, choice) ==
  /\ mpMachine # "gone" /\ ~GetUserMachineCapabilityOperation(k)
  /\ mpCapabilities.desired = expected /\ expected < MpMaxVersion
  /\ mpCapabilities' = SetUserMachineCapabilities(choice)
  /\ mpOperation' = CreateUserMachineCapabilityOperation(k, expected, choice)
  /\ UNCHANGED <<mpAvailability, mpMachine, mpFetched, mpReports, mpTime>>

-----------------------------------------------------------------------------
(* The machine *)

GetUserMachineAvailabilityForHelper == mpMachine # "gone"

ResolveAvailabilityPolicy ==
  /\ GetUserMachineAvailabilityForHelper
  /\ mpFetched' = [mpFetched EXCEPT !["availability"] =
       [version |-> mpAvailability.desired, choice |-> mpAvailability.choice]]
  /\ UNCHANGED <<mpAvailability, mpCapabilities, mpOperation, mpMachine, mpReports, mpTime>>

ResolveDeviceCapabilities ==
  /\ mpMachine # "gone"
  /\ mpFetched' = [mpFetched EXCEPT !["capabilities"] =
       [version |-> mpCapabilities.desired, choice |-> mpCapabilities.choice]]
  /\ UNCHANGED <<mpAvailability, mpCapabilities, mpOperation, mpMachine, mpReports, mpTime>>

\* The machine applies what it fetched, or fails to, and says so.
HostReports(policy, status) ==
  /\ mpTime < MpMaxTime
  /\ mpTime' = mpTime + 1
  /\ mpReports' = mpReports \cup {[policy |-> policy, version |-> mpFetched[policy].version,
                                   choice |-> mpFetched[policy].choice, status |-> status,
                                   at |-> mpTime + 1]}
  /\ UNCHANGED <<mpAvailability, mpCapabilities, mpOperation, mpMachine, mpFetched>>

\* What RecordAvailabilityObservation asks before it writes.
CurrentObservation(r) ==
  /\ r.version = mpAvailability.desired /\ r.version >= mpAvailability.observed

\* What the update itself asks: for the version it holds, the same mode and no
\* earlier observation.
RecordUserMachineAvailabilityObservation(r) ==
  \/ mpAvailability.at = 0 \/ r.version > mpAvailability.observed
  \/ r.version = mpAvailability.observed /\ r.choice = mpAvailability.seen
     /\ r.at >= mpAvailability.at

RecordAvailabilityObservation(r) ==
  /\ r.policy = "availability" /\ mpMachine # "gone"
  /\ CurrentObservation(r)
  /\ RecordUserMachineAvailabilityObservation(r)
  /\ mpAvailability' = [mpAvailability EXCEPT !.seen = r.choice, !.observed = r.version,
                                              !.at = r.at, !.status = r.status]
  /\ UNCHANGED <<mpCapabilities, mpOperation, mpMachine, mpFetched, mpReports, mpTime>>

RecordUserMachineCapabilitiesObservation(r) ==
  mpCapabilities.desired = r.version /\ mpCapabilities.observed <= r.version

RecordDeviceCapabilitiesObservation(r) ==
  /\ r.policy = "capabilities" /\ r.version >= 1 /\ mpMachine # "gone"
  /\ RecordUserMachineCapabilitiesObservation(r)
  /\ mpCapabilities' = [mpCapabilities EXCEPT !.seen = r.choice, !.observed = r.version,
                                              !.status = r.status]
  /\ UNCHANGED <<mpAvailability, mpOperation, mpMachine, mpFetched, mpReports, mpTime>>

\* A heartbeat brings the machine online with the capabilities it names.
MarkUserMachineOnlineFromHelper(choice) ==
  /\ mpMachine # "gone"
  /\ mpMachine' = "online"
  /\ mpCapabilities' = [mpCapabilities EXCEPT !.seen = choice]
  /\ UNCHANGED <<mpAvailability, mpOperation, mpFetched, mpReports, mpTime>>

\* The heartbeats of a machine stopped.
MarkStaleUserMachinesOffline ==
  /\ mpMachine = "online"
  /\ mpMachine' = "offline"
  /\ mpCapabilities' = [mpCapabilities EXCEPT !.seen = "nothing"]
  /\ UNCHANGED <<mpAvailability, mpOperation, mpFetched, mpReports, mpTime>>

MpMachineDeleted ==
  /\ mpMachine # "gone"
  /\ mpMachine' = "gone"
  /\ UNCHANGED <<mpAvailability, mpCapabilities, mpOperation, mpFetched, mpReports, mpTime>>

MpNext ==
  \/ \E k \in MpKeys, v \in 0..MpMaxVersion, c \in MpChoices :
       SetAvailabilityPolicy(k, v, c) \/ SetDeviceCapabilities(k, v, c)
  \/ ResolveAvailabilityPolicy \/ ResolveDeviceCapabilities
  \/ \E p \in MpPolicies, s \in {"applied", "error"} : HostReports(p, s)
  \/ \E r \in mpReports : RecordAvailabilityObservation(r) \/ RecordDeviceCapabilitiesObservation(r)
  \/ \E c \in MpChoices : MarkUserMachineOnlineFromHelper(c)
  \/ MarkStaleUserMachinesOffline \/ MpMachineDeleted

MpSpec == MpInit /\ [][MpNext]_mpVars

-----------------------------------------------------------------------------
(* Properties *)

\* RecordAvailabilityObservation: a policy shown as applied is the one the owner
\* asked for last, whatever order the machine's reports arrive in.
AppliedAvailabilityIsCurrent ==
  mpAvailability.status = "applied" =>
    /\ mpAvailability.observed = mpAvailability.desired
    /\ mpAvailability.seen = mpAvailability.choice

\* RecordUserMachineCapabilitiesObservation: capabilities shown as applied were
\* reported for the version the owner asked for last.
AppliedCapabilitiesAreCurrent ==
  mpCapabilities.status = "applied" => mpCapabilities.observed = mpCapabilities.desired
=============================================================================
