------------------------- MODULE MachineEnrollment --------------------------
(***************************************************************************)
(* usermachines/service.go: how a user's machine is enrolled.  A dashboard *)
(* token admits one pairing; approving the pairing takes a seat and builds *)
(* the installation material; the installer consumes the material once,    *)
(* replays it after a lost answer, and recovers it after it expired.       *)
(*                                                                         *)
(* One user.  A request is one HTTP call being served: each of its         *)
(* transactions is a step, and it may be lost between two of them.         *)
(***************************************************************************)
EXTENDS Naturals, FiniteSets

CONSTANTS Enrollments, Pairings, Machines, IdentityKeys, MeCallers,
          MeBounds,       \* bounds a behaviour keeps to
          Nothing

VARIABLES meMax,          \* the bound of this behaviour: seat quantities, retries of an
                          \* enrollment, materials built, and the enrollments, machines,
                          \* identity keys and concurrent requests it has
          meEnrollments,  \* user_machine_enrollments
          mePairings,     \* user_machine_pairings
          meMachines,     \* user_machines
          meQuantity,     \* seat quantity of the entitlement
          meRequests,     \* requests being served
          meTokens,       \* live CLI tokens of a pairing's session: the build that made them
          meSessions,     \* CLI sessions created per pairing
          meBuilds        \* materials built so far

meVars == <<meMax, meEnrollments, mePairings, meMachines, meQuantity, meRequests, meTokens,
            meSessions, meBuilds>>

NoEnrollment == [state |-> "none", gen |-> 0, pairing |-> Nothing, machine |-> Nothing,
                 expired |-> FALSE]
NoPairing == [state |-> "none", key |-> Nothing, from |-> Nothing, machine |-> Nothing,
              material |-> 0, expired |-> FALSE, recovery |-> 0, graceOver |-> FALSE]
NoMachine == [state |-> "none", seat |-> "released", mode |-> "client", key |-> Nothing]
MeIdle == [pc |-> "idle", pairing |-> Nothing, mode |-> "host", key |-> 0]

MeTypeOK ==
  /\ meMax \in MeBounds
  /\ meEnrollments \in [Enrollments -> [
       state: {"none", "awaiting_bootstrap", "awaiting_approval", "approved", "material_issued",
               "installing", "ready", "failed_retryable", "cancelled", "expired", "denied"},
       gen: 0..meMax.gen, pairing: Pairings \cup {Nothing},
       machine: Machines \cup {Nothing}, expired: BOOLEAN]]
  /\ mePairings \in [Pairings -> [
       state: {"none", "pending", "approved", "consumed", "denied", "expired"},
       key: IdentityKeys \cup {Nothing}, from: Enrollments \cup {Nothing},
       machine: Machines \cup {Nothing}, material: 0..meMax.builds, expired: BOOLEAN,
       recovery: Nat, graceOver: BOOLEAN]]
  /\ meMachines \in [Machines -> [state: {"none", "live", "revoked"},
       seat: {"released", "occupied"}, mode: {"client", "host"},
       key: IdentityKeys \cup {Nothing}]]
  /\ meQuantity \in meMax.seats
  /\ meTokens \in [Pairings -> 0..meMax.builds]
  /\ meSessions \in [Pairings -> Nat]
  /\ meBuilds \in 0..meMax.builds

MeInit ==
  /\ meMax \in MeBounds
  /\ meEnrollments = [e \in Enrollments |-> NoEnrollment]
  /\ mePairings = [p \in Pairings |-> NoPairing]
  /\ meMachines = [m \in Machines |-> NoMachine]
  /\ meQuantity \in meMax.seats
  /\ meRequests = [r \in MeCallers |-> MeIdle]
  /\ meTokens = [p \in Pairings |-> 0]
  /\ meSessions = [p \in Pairings |-> 0]
  /\ meBuilds = 0

meOthers == <<meMax, meTokens, meSessions, meBuilds>>

-----------------------------------------------------------------------------
(* The owner's enrollment *)

Goes(e, from, to) ==
  /\ meEnrollments[e].state \in from
  /\ meEnrollments' = [meEnrollments EXCEPT ![e].state = to]

\* A repeated idempotency key returns the row that exists.
StartEnrollmentWithOptions(e) ==
  /\ meEnrollments[e].state = "none"
  /\ meEnrollments' = [meEnrollments EXCEPT ![e].state = "awaiting_bootstrap", ![e].gen = 1]
  /\ UNCHANGED <<mePairings, meMachines, meQuantity, meRequests, meOthers>>

ExpireUserMachineEnrollment(e) ==
  /\ meEnrollments[e].expired
  /\ Goes(e, {"awaiting_bootstrap", "awaiting_approval"}, "expired")
  /\ UNCHANGED <<mePairings, meMachines, meQuantity, meRequests, meOthers>>

CancelUserMachineEnrollment(e) ==
  /\ Goes(e, {"awaiting_bootstrap", "awaiting_approval", "failed_retryable"}, "cancelled")
  /\ UNCHANGED <<mePairings, meMachines, meQuantity, meRequests, meOthers>>

\* A new token and generation; the machine of an earlier attempt is kept.
RetryUserMachineEnrollment(e) ==
  /\ meEnrollments[e].state \in {"cancelled", "expired", "denied", "failed_retryable"}
  /\ meEnrollments[e].gen < meMax.gen
  /\ meEnrollments' = [meEnrollments EXCEPT ![e].state = "awaiting_bootstrap",
       ![e].gen = @ + 1, ![e].pairing = Nothing, ![e].expired = FALSE]
  /\ UNCHANGED <<mePairings, meMachines, meQuantity, meRequests, meOthers>>

-----------------------------------------------------------------------------
(* CreatePairing *)

ClaimUserMachineEnrollment(e) ==
  /\ meEnrollments[e].state = "awaiting_bootstrap"
  /\ ~meEnrollments[e].expired

\* With a token: the pairing and the claim in one transaction, then the same
\* request approves.  The token's form says which mode is set up.
CreatePairing(r, e, p, k, mode) ==
  /\ meRequests[r].pc = "idle"
  /\ mePairings[p].state = "none"
  /\ ClaimUserMachineEnrollment(e)
  /\ mePairings' = [mePairings EXCEPT ![p] = [NoPairing EXCEPT !.state = "pending",
                                              !.key = k, !.from = e]]
  /\ meEnrollments' = [meEnrollments EXCEPT ![e].state = "awaiting_approval", ![e].pairing = p]
  /\ meRequests' = [meRequests EXCEPT ![r] = [pc |-> "approve", pairing |-> p, mode |-> mode,
                                              key |-> 0]]
  /\ UNCHANGED <<meMachines, meQuantity, meOthers>>

\* Without one: the owner approves it later, by its code.
CreateUserMachinePairing(p, k) ==
  /\ mePairings[p].state = "none"
  /\ mePairings' = [mePairings EXCEPT ![p] = [NoPairing EXCEPT !.state = "pending", !.key = k]]
  /\ UNCHANGED <<meEnrollments, meMachines, meQuantity, meRequests, meOthers>>

-----------------------------------------------------------------------------
(* approve *)

Occupied(ms) == {m \in Machines : ms[m].seat = "occupied" /\ ms[m].state # "none"}

ReserveUserMachineSeat == Cardinality(Occupied(meMachines)) < meQuantity

EnrollmentOf(p) == {e \in Enrollments : meEnrollments[e].pairing = p}

\* The machine a pairing is approved for, and the row it leaves: the machine
\* of the retried enrollment (whose key is bound again, and whose mode only a
\* client token changes), the user's machine with this identity key, or, for
\* an enrollment, a new one.
Candidates(p) ==
  LET es == EnrollmentOf(p)
      kept == {meEnrollments[e].machine : e \in es} \ {Nothing}
      known == {m \in Machines : meMachines[m].key = mePairings[p].key
                                 /\ meMachines[m].state # "none"}
  IN IF kept # {} THEN kept
     ELSE IF known # {} THEN known
     ELSE IF es = {} THEN {}
     ELSE {m \in meMax.machines : meMachines[m].state = "none"}

CreateInteractiveMachine(k) == [NoMachine EXCEPT !.state = "live", !.key = k]

OccupyUserMachineSeat(row) == [row EXCEPT !.seat = "occupied"]

AddUserMachineHostRole(row, k) == [row EXCEPT !.mode = "host", !.key = k]

AddUserMachineInteractiveRole(row) == [row EXCEPT !.mode = "client", !.seat = "released"]

BindCanonicalMachineIdentity(row, k) == [row EXCEPT !.key = k]

ApprovedRow(p, m, mode) ==
  LET retry == \E e \in EnrollmentOf(p) : meEnrollments[e].machine = m
      k == mePairings[p].key
      row == OccupyUserMachineSeat(IF meMachines[m].state = "none"
                                   THEN CreateInteractiveMachine(k) ELSE meMachines[m])
      host == IF retry THEN BindCanonicalMachineIdentity(row, k)
              ELSE AddUserMachineHostRole(row, k)
  IN IF mode = "client" THEN AddUserMachineInteractiveRole(host) ELSE host

\* Another machine holding the key, which the unique index refuses.
KeyTaken(p, m) == \E n \in Machines \ {m} : meMachines[n].key = mePairings[p].key

Approvable(p) ==
  /\ mePairings[p].state = "pending"
  /\ ~mePairings[p].expired
  /\ \A e \in EnrollmentOf(p) : meEnrollments[e].state = "awaiting_approval"

ApprovableFor(p, m) ==
  /\ meMachines[m].state # "revoked"
  /\ meMachines[m].seat = "released" => ReserveUserMachineSeat
  /\ ~KeyTaken(p, m)

ApproveUserMachinePairing(p, m) ==
  [mePairings EXCEPT ![p].state = "approved", ![p].machine = m]

ApproveUserMachineEnrollment(p, m) ==
  [e \in Enrollments |->
     IF e \in EnrollmentOf(p)
     THEN [meEnrollments[e] EXCEPT !.state = "approved", !.machine = m] ELSE meEnrollments[e]]

ApproveTx(p, m, mode) ==
  /\ Approvable(p)
  /\ ApprovableFor(p, m)
  /\ meMachines' = [meMachines EXCEPT ![m] = ApprovedRow(p, m, mode)]
  /\ mePairings' = ApproveUserMachinePairing(p, m)
  /\ meEnrollments' = ApproveUserMachineEnrollment(p, m)

\* The request that created the pairing, or the owner with its code.
Approve(r, p, mode) ==
  /\ \/ meRequests[r].pc = "approve" /\ meRequests[r].pairing = p /\ meRequests[r].mode = mode
     \/ meRequests[r].pc = "idle" /\ mode = "host"
  /\ \/ \E m \in Candidates(p) : ApproveTx(p, m, mode)
     \/ /\ mePairings[p].state = "approved"
        /\ mePairings[p].material = 0
        /\ UNCHANGED <<meMachines, mePairings, meEnrollments>>
  /\ meRequests' = [meRequests EXCEPT ![r] = [MeIdle EXCEPT !.pc = "provision", !.pairing = p]]
  /\ UNCHANGED <<meQuantity, meOthers>>

\* A pairing found expired when it is approved or denied.
ExpireUserMachinePairing(p) ==
  /\ mePairings[p].state = "pending" /\ mePairings[p].expired
  /\ mePairings' = [mePairings EXCEPT ![p].state = "expired"]
  /\ meEnrollments' = [e \in Enrollments |->
       IF /\ e \in EnrollmentOf(p) /\ meEnrollments[e].expired
          /\ meEnrollments[e].state \in {"awaiting_bootstrap", "awaiting_approval"}
       THEN [meEnrollments[e] EXCEPT !.state = "expired"] ELSE meEnrollments[e]]
  /\ UNCHANGED <<meMachines, meQuantity, meRequests, meOthers>>

\* The approval of a claimed pairing failed: the claim is released, if the
\* enrollment still waits for it.
FailUserMachineEnrollmentApproval(r) ==
  LET p == meRequests[r].pairing
      waits == {e \in EnrollmentOf(p) : meEnrollments[e].state = "awaiting_approval"
                                        /\ mePairings[p].state = "pending"}
  IN
  /\ meRequests[r].pc = "approve"
  /\ ~ \E m \in Candidates(p) : Approvable(p) /\ ApprovableFor(p, m)
  /\ mePairings' = IF waits = {} THEN mePairings
                   ELSE [mePairings EXCEPT ![p].state = "expired", ![p].expired = TRUE]
  /\ meEnrollments' = [e \in Enrollments |->
       IF e \in waits THEN [meEnrollments[e] EXCEPT !.state = "failed_retryable"]
       ELSE meEnrollments[e]]
  /\ meRequests' = [meRequests EXCEPT ![r] = MeIdle]
  /\ UNCHANGED <<meMachines, meQuantity, meOthers>>

Deny(p) ==
  /\ Approvable(p)
  /\ EnrollmentOf(p) # {}
  /\ mePairings' = [mePairings EXCEPT ![p].state = "denied"]
  /\ meEnrollments' = [e \in Enrollments |->
       IF e \in EnrollmentOf(p) THEN [meEnrollments[e] EXCEPT !.state = "denied"]
       ELSE meEnrollments[e]]
  /\ UNCHANGED <<meMachines, meQuantity, meRequests, meOthers>>

-----------------------------------------------------------------------------
(* Provisioning.  Building draws a CLI session for a client's machine; the *)
(* session and the material are stored in one transaction that is rolled   *)
(* back when the pairing has material already.                             *)

SetUserMachineInstallationConfig(p) ==
  /\ mePairings[p].state = "approved"
  /\ mePairings[p].material = 0

MarkUserMachineEnrollmentMaterialIssued(p) ==
  [e \in Enrollments |->
     IF e \in EnrollmentOf(p) /\ meEnrollments[e].state = "approved"
     THEN [meEnrollments[e] EXCEPT !.state = "material_issued"] ELSE meEnrollments[e]]

ProvisionApprovedUserMachine(r) ==
  LET p == meRequests[r].pairing IN
  /\ meRequests[r].pc = "provision"
  /\ meBuilds < meMax.builds
  /\ meBuilds' = meBuilds + 1
  /\ meRequests' = [meRequests EXCEPT ![r] = MeIdle]
  /\ IF SetUserMachineInstallationConfig(p)
     THEN /\ mePairings' = [mePairings EXCEPT ![p].material = meBuilds + 1]
          /\ meTokens' = [meTokens EXCEPT ![p] = meBuilds + 1]
          /\ meSessions' = [meSessions EXCEPT ![p] = @ + 1]
          /\ meEnrollments' = MarkUserMachineEnrollmentMaterialIssued(p)
     ELSE UNCHANGED <<mePairings, meTokens, meSessions, meEnrollments>>
  /\ UNCHANGED <<meMax, meMachines, meQuantity>>

\* A request is lost, or the helper grant, the artifact or the database fails.
RequestLost(r) ==
  /\ meRequests[r].pc # "idle"
  /\ meRequests' = [meRequests EXCEPT ![r] = MeIdle]
  /\ UNCHANGED <<meEnrollments, mePairings, meMachines, meQuantity, meOthers>>

-----------------------------------------------------------------------------
(* consumeInstallation *)

ConsumeUserMachineInstallationConfig(p) ==
  /\ mePairings[p].state = "approved"
  /\ mePairings[p].material # 0
  /\ ~mePairings[p].expired
  /\ mePairings' = [mePairings EXCEPT ![p].state = "consumed"]
  /\ meEnrollments' = [e \in Enrollments |->
       IF e \in EnrollmentOf(p) /\ meEnrollments[e].state = "material_issued"
       THEN [meEnrollments[e] EXCEPT !.state =
               IF meMachines[meEnrollments[e].machine].mode = "client"
               THEN "ready" ELSE "installing"]
       ELSE meEnrollments[e]]
  /\ UNCHANGED <<meMachines, meQuantity, meRequests, meOthers>>

\* The enrollment, if the pairing has one, is still being installed.
Installing(p) ==
  \A e \in EnrollmentOf(p) : meEnrollments[e].state \in {"material_issued", "installing"}

Replayable(p) ==
  /\ mePairings[p].state = "consumed"
  /\ mePairings[p].recovery % 2 = 0
  /\ ~mePairings[p].expired
  /\ Installing(p)

RenewUserMachineEnrollmentRecovery(p) ==
  [e \in Enrollments |-> IF e \in EnrollmentOf(p)
                         THEN [meEnrollments[e] EXCEPT !.expired = FALSE] ELSE meEnrollments[e]]

\* Recovery keys are derived from the expiry they replace: an odd number is a
\* recovery begun, an even one none.
BeginUserMachineInstallationRecovery(r, p) ==
  /\ meRequests[r].pc = "idle"
  /\ mePairings[p].state = "consumed"
  /\ ~mePairings[p].graceOver
  /\ ~Replayable(p) /\ Installing(p)
  /\ IF mePairings[p].recovery % 2 = 1
     THEN UNCHANGED mePairings
     ELSE mePairings' = [mePairings EXCEPT ![p].recovery = @ + 1, ![p].expired = FALSE]
  /\ meEnrollments' = RenewUserMachineEnrollmentRecovery(p)
  /\ meRequests' = [meRequests EXCEPT ![r] =
       [MeIdle EXCEPT !.pc = "recover", !.pairing = p, !.key = mePairings'[p].recovery]]
  /\ UNCHANGED <<meMachines, meQuantity, meOthers>>

CompleteUserMachineInstallationRecovery(p, key) ==
  /\ mePairings[p].state = "consumed"
  /\ mePairings[p].recovery = key

\* The new material carries the session of the old one with fresh tokens; the
\* old tokens are revoked.  A request that lost the race returns the winner's.
ProvisionRecoveredUserMachine(r) ==
  LET p == meRequests[r].pairing IN
  /\ meRequests[r].pc = "recover"
  /\ meBuilds < meMax.builds
  /\ meBuilds' = meBuilds + 1
  /\ IF CompleteUserMachineInstallationRecovery(p, meRequests[r].key)
     THEN /\ mePairings' = [mePairings EXCEPT ![p].material = meBuilds + 1,
                                              ![p].recovery = meRequests[r].key + 1]
          /\ meTokens' = [meTokens EXCEPT ![p] = meBuilds + 1]
     ELSE UNCHANGED <<mePairings, meTokens>>
  /\ meRequests' = [meRequests EXCEPT ![r] = MeIdle]
  /\ UNCHANGED <<meMax, meEnrollments, meMachines, meQuantity, meSessions>>

NotReady == {"approved", "material_issued", "installing", "failed_retryable", "cancelled"}

\* The states a reporting helper completes.
OpenInstallation == {"approved", "material_issued", "installing"}

\* The helper reports in: metering marks every open enrollment of the machine.
MarkUserMachineEnrollmentReady(m) ==
  /\ meMachines[m].state = "live"
  /\ meEnrollments' = [e \in Enrollments |->
       IF /\ meEnrollments[e].machine = m
          /\ meEnrollments[e].state \in OpenInstallation
       THEN [meEnrollments[e] EXCEPT !.state = "ready"] ELSE meEnrollments[e]]
  /\ meEnrollments' # meEnrollments
  /\ UNCHANGED <<mePairings, meMachines, meQuantity, meRequests, meOthers>>

FailUserMachineEnrollmentForHelper(e) ==
  LET m == meEnrollments[e].machine IN
  /\ meEnrollments[e].state = "installing"
  /\ meMachines[m].seat = "occupied"
  /\ Goes(e, {"installing"}, "failed_retryable")
  /\ meMachines' = [meMachines EXCEPT ![m].seat = "released"]
  /\ UNCHANGED <<mePairings, meQuantity, meRequests, meOthers>>

MachinesRevoked(ms) ==
  [m \in Machines |-> IF m \in ms
                      THEN [meMachines[m] EXCEPT !.state = "revoked", !.seat = "released"]
                      ELSE meMachines[m]]

RevokeUserMachinesForEntitlement == MachinesRevoked(Occupied(meMachines))

RevokeUserMachinesOverSeatLimit(kept) == MachinesRevoked(Occupied(meMachines) \ kept)

\* A billing event changes the quantity; losing the entitlement revokes every
\* machine in the same transaction.
UserMachineEntitlementChanges(q) ==
  /\ q # meQuantity
  /\ meQuantity' = q
  /\ meMachines' = IF q = 0 THEN RevokeUserMachinesForEntitlement ELSE meMachines
  /\ UNCHANGED <<meEnrollments, mePairings, meRequests, meOthers>>

\* After the event, in a transaction of its own: the machines over the limit
\* (the code keeps the ones enrolled first; which ones is left open here).
ReconcileUserMachineEntitlement ==
  /\ Cardinality(Occupied(meMachines)) > meQuantity
  /\ \E kept \in SUBSET Occupied(meMachines) :
       /\ Cardinality(kept) = meQuantity
       /\ meMachines' = RevokeUserMachinesOverSeatLimit(kept)
  /\ UNCHANGED <<meEnrollments, mePairings, meQuantity, meRequests, meOthers>>

\* Time passes: a token, a pairing, or the day in which material can be recovered.
Expire(p) ==
  /\ \/ mePairings[p].state \in {"pending", "approved", "consumed"} /\ ~mePairings[p].expired
        /\ mePairings' = [mePairings EXCEPT ![p].expired = TRUE]
     \/ mePairings[p].state = "consumed" /\ mePairings[p].expired /\ ~mePairings[p].graceOver
        /\ mePairings' = [mePairings EXCEPT ![p].graceOver = TRUE]
  /\ UNCHANGED <<meEnrollments, meMachines, meQuantity, meRequests, meOthers>>

\* An enrollment's pairing never outlives it.
TokenExpires(e) ==
  /\ meEnrollments[e].state \in {"awaiting_bootstrap", "awaiting_approval"}
  /\ ~meEnrollments[e].expired
  /\ meEnrollments' = [meEnrollments EXCEPT ![e].expired = TRUE]
  /\ mePairings' = [p \in Pairings |-> IF p = meEnrollments[e].pairing
                                       THEN [mePairings[p] EXCEPT !.expired = TRUE]
                                       ELSE mePairings[p]]
  /\ UNCHANGED <<meMachines, meQuantity, meRequests, meOthers>>

MeNext ==
  \/ \E e \in meMax.enrollments : StartEnrollmentWithOptions(e)
  \/ \E e \in Enrollments : ExpireUserMachineEnrollment(e)
  \/ \E e \in Enrollments : CancelUserMachineEnrollment(e)
  \/ \E e \in Enrollments : RetryUserMachineEnrollment(e)
  \/ \E e \in Enrollments : TokenExpires(e)
  \/ \E e \in Enrollments : FailUserMachineEnrollmentForHelper(e)
  \/ \E r \in meMax.callers, e \in Enrollments, p \in Pairings, k \in meMax.keys,
        mode \in {"host", "client"} : CreatePairing(r, e, p, k, mode)
  \/ \E p \in Pairings, k \in meMax.keys : CreateUserMachinePairing(p, k)
  \/ \E r \in meMax.callers, p \in Pairings, mode \in {"host", "client"} : Approve(r, p, mode)
  \/ \E r \in meMax.callers : FailUserMachineEnrollmentApproval(r)
  \/ \E r \in meMax.callers : ProvisionApprovedUserMachine(r)
  \/ \E r \in meMax.callers : ProvisionRecoveredUserMachine(r)
  \/ \E r \in meMax.callers : RequestLost(r)
  \/ \E r \in meMax.callers, p \in Pairings : BeginUserMachineInstallationRecovery(r, p)
  \/ \E p \in Pairings : ExpireUserMachinePairing(p)
  \/ \E p \in Pairings : Deny(p)
  \/ \E p \in Pairings : ConsumeUserMachineInstallationConfig(p)
  \/ \E p \in Pairings : Expire(p)
  \/ \E m \in Machines : MarkUserMachineEnrollmentReady(m)
  \/ \E q \in meMax.seats : UserMachineEntitlementChanges(q)
  \/ ReconcileUserMachineEntitlement

MeSpec == MeInit /\ [][MeNext]_meVars

-----------------------------------------------------------------------------
(* Approval counts the seats and occupies one in the same transaction: no  *)
(* step occupies a seat beyond the quantity paid for at that moment, in    *)
(* whatever order approvals, retries, failures and billing events come.    *)
SeatsArePaidFor ==
  Occupied(meMachines') \subseteq Occupied(meMachines)
  \/ Cardinality(Occupied(meMachines')) <= meQuantity'

(* A pairing creates at most one CLI session, and the material stored for  *)
(* it holds the session's live tokens: a second approval that provisions   *)
(* concurrently leaves neither an orphaned session nor revoked tokens.     *)
MaterialIsLive ==
  \A p \in Pairings : mePairings[p].state # "expired" =>
    mePairings[p].material = meTokens[p] /\ meSessions[p] <= 1

(* The tokens an installer was given are revoked only by a recovery begun  *)
(* after they were stored, and that recovery is then over: of the requests *)
(* that recover the same material only one rotates the tokens, and one of  *)
(* an earlier recovery never does.                                         *)
TokensRotateOncePerRecovery ==
  \A p \in Pairings : meTokens'[p] # meTokens[p] /\ meTokens[p] # 0 =>
    /\ mePairings[p].recovery % 2 = 1
    /\ mePairings'[p].recovery = mePairings[p].recovery + 1

(* A bootstrap token is one-shot: an enrollment has produced at most one   *)
(* pairing per generation of its token, however its requests race.         *)
TokenAdmitsOnePairing ==
  \A e \in Enrollments :
    Cardinality({p \in Pairings : mePairings[p].from = e}) <= meEnrollments[e].gen

(* An enrollment its owner cancelled or denied stays so until the owner    *)
(* retries it with a new token: no approval, provisioning, installer or    *)
(* helper that was already under way revives it.                           *)
ClosedStaysClosed ==
  \A e \in Enrollments :
    meEnrollments[e].state \in {"cancelled", "denied", "expired"} =>
      \/ meEnrollments'[e].state = meEnrollments[e].state
      \/ meEnrollments'[e].gen > meEnrollments[e].gen
=============================================================================
