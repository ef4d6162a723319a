---------------------------- MODULE ConfigSync ----------------------------
(* Configuration sync: which repository a machine is assigned, the owner's  *)
(* consent, the team default a member may adopt, and what is handed to the  *)
(* machine on that authority: a short-lived config credential, the fenced   *)
(* writer lease of a repository, and a provider token for it.               *)
(*                                                                          *)
(* Every transaction is one action.  A lease call and an access call first  *)
(* authenticate outside the transaction and carry the holder they read into *)
(* it; everything may happen in between.  The environments of this module   *)
(* belong to one account.                                                   *)
EXTENDS Naturals, FiniteSets

CONSTANTS
    CsEnvs,         \* environments, each of one machine
    CsHosted,       \* those whose machine is hosted: no consent is asked
    CsRepos,        \* connected repositories
    CsLeaseOps,     \* operation ids of lease calls
    CsAccessOps,    \* operation ids of repository access calls
    CsBounds,       \* bounds a behaviour keeps to: an assignment's version, fencing tokens,
                    \* revisions of the plaintext-storage warning, versions of the team default
    CsNone

CsAssumption ==
    /\ CsHosted \subseteq CsEnvs
    /\ CsBounds \subseteq [version : Nat, token : Nat, warning : Nat, default : Nat]

VARIABLES
    csRepos,    \* control_config_repositories: state
    csAssign,   \* control_config_assignments by environment
    csCreds,    \* control_config_credentials neither revoked nor expired
    csLeases,   \* control_config_repository_lease_authority by repository
    csOps,      \* control_config_repository_lease_operations
    csAccess,   \* control_config_repository_access_operations
    csCalls,    \* the holder an authenticated call carries
    csTeam,     \* the team default, its adoption, the account's membership
    csWarning,  \* the warning revision the server is configured with
    csMax       \* the bound this behaviour keeps to

csVars == <<csRepos, csAssign, csCreds, csLeases, csOps, csAccess, csCalls, csTeam, csWarning, csMax>>

CsNoAssignment == [id |-> 0, version |-> 0, repo |-> CsNone, push |-> CsNone, mode |-> "pull_only",
                   consent |-> "revoked", warning |-> 0, revoked |-> TRUE, adopted |-> 0]
CsNoLease == [token |-> 0, env |-> CsNone, assign |-> 0, revoked |-> FALSE, expired |-> FALSE]
CsNoAccess == [state |-> "none", env |-> CsNone, repo |-> CsNone, revoked |-> FALSE, retired |-> FALSE]

CsInit ==
    /\ csRepos = [r \in CsRepos |-> "active"]
    /\ csAssign = [e \in CsEnvs |-> CsNoAssignment]
    /\ csCreds = {}
    /\ csLeases = [r \in CsRepos |-> CsNoLease]
    /\ csOps = [o \in CsLeaseOps |-> CsNone]
    /\ csAccess = [o \in CsAccessOps |-> CsNoAccess]
    /\ csCalls = [o \in CsLeaseOps \cup CsAccessOps |-> CsNone]
    /\ csTeam = [version |-> 0, repo |-> CsNone, adopted |-> 0, member |-> TRUE]
    /\ csWarning = 1
    /\ csMax \in CsBounds

(* -------------------------- eligibility and holder ---------------------- *)

GetOwnedControlConfigRepository(r) == csRepos[r] = "active"
GetActiveControlConfigRepository(r) == csRepos[r] = "active"

AdoptionHolds(a) == a.adopted # 0 => csTeam.adopted = a.adopted /\ csTeam.member

GetEligibleControlConfigAssignment(e) ==
    LET a == csAssign[e]
    IN /\ a.repo # CsNone /\ ~a.revoked
       /\ a.consent \in {"not_required", "accepted"}
       /\ csRepos[a.repo] = "active"
       /\ AdoptionHolds(a)

(* The same join, keyed by the machine. *)
GetEligibleMachineConfigAssignment(e) == GetEligibleControlConfigAssignment(e)

CurrentWarning(e) == e \in CsHosted \/ csAssign[e].warning = csWarning

GetActiveControlConfigCredentialByJTI(e) ==
    \E c \in csCreds : c.env = e /\ c.assign = csAssign[e].id /\ c.warning = csAssign[e].warning

(* ConfigLeaseService.Authenticate *)
Authenticates(e) ==
    /\ GetActiveControlConfigCredentialByJTI(e)
    /\ GetEligibleControlConfigAssignment(e)
    /\ CurrentWarning(e)

HolderOf(e) ==
    LET a == csAssign[e]
    IN [env |-> e, assign |-> a.id,
        repo |-> IF a.mode # "pull_only" /\ a.push # CsNone THEN a.push ELSE a.repo]

CallBegins(o, e) ==
    /\ Authenticates(e) /\ csCalls[o] = CsNone
    /\ csCalls' = [csCalls EXCEPT ![o] = HolderOf(e)]
    /\ UNCHANGED <<csRepos, csAssign, csCreds, csLeases, csOps, csAccess, csTeam, csWarning, csMax>>

(* ConfigCredentialService.Issue *)
CreateControlConfigCredential(e) ==
    csCreds' = csCreds \cup {[env |-> e, assign |-> csAssign[e].id, warning |-> csAssign[e].warning]}
IssueCredential(e) ==
    /\ GetEligibleMachineConfigAssignment(e) /\ CurrentWarning(e)
    /\ CreateControlConfigCredential(e)
    /\ UNCHANGED <<csRepos, csAssign, csLeases, csOps, csAccess, csCalls, csTeam, csWarning, csMax>>

(* ------------------------------ revocation ------------------------------ *)

RevokeControlConfigCredentialsForEnvironment(es) == csCreds' = {c \in csCreds : c.env \notin es}

RevokedRows(Hit(_)) ==
    [o \in CsAccessOps |->
       IF Hit(csAccess[o]) /\ ~csAccess[o].revoked /\ csAccess[o].state \in {"pending", "issued", "uncertain"}
       THEN [csAccess[o] EXCEPT !.state = "revoked", !.revoked = TRUE] ELSE csAccess[o]]
RevokeControlConfigRepositoryAccessForEnvironment(es) == csAccess' = RevokedRows(LAMBDA row : row.env \in es)
RevokeControlConfigRepositoryAccessForRepository(r) == csAccess' = RevokedRows(LAMBDA row : row.repo = r)

RevokedLeases(Hit(_)) ==
    [r \in CsRepos |-> IF csLeases[r].env # CsNone /\ Hit(r) THEN [csLeases[r] EXCEPT !.revoked = TRUE] ELSE csLeases[r]]

(* Mutant: the leases of the environment survive. *)
LeavesLeases(es) == UNCHANGED csLeases

RevokeControlConfigRepositoryLeasesForEnvironment(es) ==
    csLeases' = RevokedLeases(LAMBDA r : csLeases[r].env \in es)
RevokeControlConfigRepositoryLease(r) == csLeases' = RevokedLeases(LAMBDA s : s = r)

RevokeEnvironments(es) ==
    /\ RevokeControlConfigCredentialsForEnvironment(es)
    /\ RevokeControlConfigRepositoryAccessForEnvironment(es)
    /\ RevokeControlConfigRepositoryLeasesForEnvironment(es)

(* ------------------------- assignment and consent ----------------------- *)

SetControlConfigAssignment(e, row) ==
    csAssign' = [csAssign EXCEPT ![e] = [row EXCEPT !.version = csAssign[e].version + 1, !.id = csAssign[e].version + 1]]

(* AssignTargets.  The ownership of the repositories is read before the     *)
(* transaction; a disconnection in between leaves an assignment that names  *)
(* a disconnected repository, which no eligibility check accepts.           *)
AssignTargets(e, pull, push, mode) ==
    LET row == [id |-> 0, version |-> 0, mode |-> mode, revoked |-> FALSE, adopted |-> 0,
                repo |-> IF mode = "push_only" THEN push ELSE pull,
                push |-> IF mode = "pull_only" THEN CsNone ELSE push,
                consent |-> IF e \in CsHosted THEN "not_required" ELSE "pending",
                warning |-> IF e \in CsHosted THEN 0 ELSE csWarning]
    IN /\ csAssign[e].version < csMax.version
       /\ SetControlConfigAssignment(e, row)
       /\ RevokeEnvironments({e})
       /\ UNCHANGED <<csRepos, csOps, csCalls, csTeam, csWarning, csMax>>

AcceptControlConfigConsent(e) ==
    /\ csAssign[e].repo # CsNone /\ csAssign[e].consent = "pending" /\ csAssign[e].warning = csWarning
    /\ csAssign' = [csAssign EXCEPT ![e] = [@ EXCEPT !.consent = "accepted", !.revoked = FALSE, !.version = @ + 1]]
AcceptConsent(e) ==
    /\ csAssign[e].version < csMax.version
    /\ AcceptControlConfigConsent(e)
    /\ UNCHANGED <<csRepos, csCreds, csLeases, csOps, csAccess, csCalls, csTeam, csWarning, csMax>>

RemoveControlConfigConsent(e) ==
    /\ csAssign[e].repo # CsNone /\ csAssign[e].consent = "accepted"
    /\ csAssign' = [csAssign EXCEPT ![e] = [@ EXCEPT !.consent = "pending", !.revoked = FALSE,
                                                     !.warning = csWarning, !.version = @ + 1]]
RemoveConsent(e) ==
    /\ csAssign[e].version < csMax.version
    /\ RemoveControlConfigConsent(e)
    /\ RevokeEnvironments({e})
    /\ UNCHANGED <<csRepos, csOps, csCalls, csTeam, csWarning, csMax>>

ClearControlConfigAssignment(e) ==
    /\ csAssign[e].version > 0
    /\ csAssign' = [csAssign EXCEPT ![e] = [@ EXCEPT !.repo = CsNone, !.consent = "revoked", !.warning = 0,
                                                     !.revoked = TRUE, !.version = @ + 1]]
ClearAssignment(e) ==
    /\ csAssign[e].version < csMax.version
    /\ ClearControlConfigAssignment(e)
    /\ RevokeEnvironments({e})
    /\ UNCHANGED <<csRepos, csOps, csCalls, csTeam, csWarning, csMax>>

(* ReconcileStaleControlConfigWarning: one statement withdraws the consents *)
(* given to an older warning and revokes what was issued on them.           *)
ReconcileWarning ==
    LET stale == {e \in CsEnvs : /\ csAssign[e].repo # CsNone /\ ~csAssign[e].revoked
                                 /\ csAssign[e].consent = "accepted" /\ csAssign[e].warning # csWarning
                                 /\ csAssign[e].version < csMax.version}
    IN /\ csAssign' = [e \in CsEnvs |-> IF e \in stale
            THEN [csAssign[e] EXCEPT !.consent = "pending", !.warning = csWarning, !.version = @ + 1]
            ELSE csAssign[e]]
       /\ RevokeEnvironments(stale)
       /\ UNCHANGED <<csRepos, csOps, csCalls, csTeam, csWarning, csMax>>

(* A deployment with a new warning text. *)
WarningDeployed ==
    /\ csWarning < csMax.warning /\ csWarning' = csWarning + 1
    /\ UNCHANGED <<csRepos, csAssign, csCreds, csLeases, csOps, csAccess, csCalls, csTeam, csMax>>

(* ------------------------------ repositories ---------------------------- *)

RevokeControlConfigCredentialsForRepository(r) ==
    csCreds' = {c \in csCreds : ~(csAssign[c.env].repo = r /\ csAssign[c.env].id = c.assign)}
DisableControlConfigAssignmentsForRepository(r) ==
    csAssign' = [e \in CsEnvs |-> IF csAssign[e].repo = r /\ ~csAssign[e].revoked
      THEN [csAssign[e] EXCEPT !.consent = "revoked", !.revoked = TRUE, !.version = @ + 1] ELSE csAssign[e]]
DisconnectOwnedControlConfigRepository(r) ==
    csRepos[r] = "active" /\ csRepos' = [csRepos EXCEPT ![r] = "disconnected"]

DisconnectRepository(r) ==
    /\ \A e \in CsEnvs : csAssign[e].version < csMax.version
    /\ DisconnectOwnedControlConfigRepository(r)
    /\ RevokeControlConfigCredentialsForRepository(r)
    /\ RevokeControlConfigRepositoryAccessForRepository(r)
    /\ RevokeControlConfigRepositoryLease(r)
    /\ DisableControlConfigAssignmentsForRepository(r)
    /\ UNCHANGED <<csOps, csCalls, csTeam, csWarning, csMax>>

CreateControlConfigRepository(r) == csRepos' = [csRepos EXCEPT ![r] = "active"]
ConnectRepository(r) ==
    /\ CreateControlConfigRepository(r)
    /\ UNCHANGED <<csAssign, csCreds, csLeases, csOps, csAccess, csCalls, csTeam, csWarning, csMax>>

(* ------------------------------ team default ---------------------------- *)

SetTeamConfigDefault(r) == csTeam' = [csTeam EXCEPT !.version = @ + 1, !.repo = r]
SetTeamDefault(r) ==
    /\ csTeam.version < csMax.default /\ csTeam.member
    /\ GetOwnedControlConfigRepository(r)
    /\ SetTeamConfigDefault(r)
    /\ UNCHANGED <<csRepos, csAssign, csCreds, csLeases, csOps, csAccess, csCalls, csWarning, csMax>>

AdoptTeamConfigDefault ==
    /\ csTeam.version > 0 /\ csTeam.repo # CsNone /\ csTeam.member
    /\ csRepos[csTeam.repo] = "active"
    /\ csTeam' = [csTeam EXCEPT !.adopted = csTeam.version]

(* The adoption replaces the assignment of every machine that adopted one   *)
(* before or has none that is current; credentials are left alone.          *)
Adopted(e) ==
    LET a == csAssign[e]
        warning == IF e \in CsHosted THEN 0 ELSE csWarning
        keeps == a.consent = "accepted" /\ a.warning = warning
    IN [a EXCEPT !.repo = csTeam.repo, !.push = CsNone, !.mode = "pull_only", !.adopted = csTeam.version,
                 !.warning = warning, !.revoked = FALSE, !.version = @ + 1,
                 !.id = IF a.version = 0 THEN 1 ELSE @,
                 !.consent = IF keeps THEN "accepted"
                             ELSE IF e \in CsHosted THEN "not_required" ELSE "pending"]
AdoptTeamDefault ==
    /\ \A e \in CsEnvs : csAssign[e].version < csMax.version
    /\ AdoptTeamConfigDefault
    /\ csAssign' = [e \in CsEnvs |-> IF csAssign[e].adopted # 0 \/ csAssign[e].revoked
                                     THEN Adopted(e) ELSE csAssign[e]]
    /\ UNCHANGED <<csRepos, csCreds, csLeases, csOps, csAccess, csCalls, csWarning, csMax>>

RevokeAdoptedTeamConfigAssignments ==
    csAssign' = [e \in CsEnvs |-> IF csAssign[e].adopted # 0 /\ ~csAssign[e].revoked
      THEN [csAssign[e] EXCEPT !.consent = "revoked", !.revoked = TRUE, !.version = @ + 1] ELSE csAssign[e]]
UnadoptTeamDefault ==
    /\ csTeam.adopted # 0 /\ csTeam.member
    /\ \A e \in CsEnvs : csAssign[e].version < csMax.version
    /\ RevokeAdoptedTeamConfigAssignments
    /\ csTeam' = [csTeam EXCEPT !.adopted = 0]
    /\ UNCHANGED <<csRepos, csCreds, csLeases, csOps, csAccess, csCalls, csWarning, csMax>>

(* Departure revokes what was adopted in the same transaction. *)
RevokeDepartingResourcesTx ==
    /\ RevokeAdoptedTeamConfigAssignments
    /\ csTeam' = [csTeam EXCEPT !.member = FALSE, !.adopted = 0]
MemberLeaves ==
    /\ csTeam.member /\ \A e \in CsEnvs : csAssign[e].version < csMax.version
    /\ RevokeDepartingResourcesTx
    /\ UNCHANGED <<csRepos, csCreds, csLeases, csOps, csAccess, csCalls, csWarning, csMax>>
MemberJoins ==
    /\ csTeam' = [csTeam EXCEPT !.member = TRUE]
    /\ UNCHANGED <<csRepos, csAssign, csCreds, csLeases, csOps, csAccess, csCalls, csWarning, csMax>>

(* Adoptions go with the default they adopt (ON DELETE CASCADE). *)
DeleteTeamConfigDefault == csTeam' = [csTeam EXCEPT !.repo = CsNone, !.adopted = 0]
DeleteTeamDefault ==
    /\ csTeam.repo # CsNone /\ csTeam.member
    /\ DeleteTeamConfigDefault
    /\ UNCHANGED <<csRepos, csAssign, csCreds, csLeases, csOps, csAccess, csCalls, csWarning, csMax>>

(* ------------------------------ writer leases --------------------------- *)

(* AcquireAccepts: the transaction's own check of the holder it was given. *)
AcquireAccepts(h) ==
    /\ GetEligibleControlConfigAssignment(h.env)
    /\ csAssign[h.env].id = h.assign
    /\ csAssign[h.env].mode # "pull_only"
    /\ csAssign[h.env].repo = h.repo

ValidateEligibleLeaseHolder(h) ==
    /\ GetEligibleControlConfigAssignment(h.env)
    /\ csAssign[h.env].id = h.assign /\ csAssign[h.env].repo = h.repo

LeaseIsFree(l) == l.env = CsNone \/ l.revoked \/ l.expired
GrantControlConfigRepositoryLease(h) ==
    [token |-> csLeases[h.repo].token + 1, env |-> h.env, assign |-> h.assign, revoked |-> FALSE, expired |-> FALSE]

CreateControlConfigLeaseOperation(o, h, result, token) ==
    csOps' = [csOps EXCEPT ![o] = [repo |-> h.repo, result |-> result, token |-> token]]

CallEnds(o) == csCalls' = [csCalls EXCEPT ![o] = CsNone]

AcquireLease(o) ==
    LET h == csCalls[o]
    IN /\ h # CsNone /\ csOps[o] = CsNone
       /\ AcquireAccepts(h) /\ csLeases[h.repo].token < csMax.token
       /\ IF LeaseIsFree(csLeases[h.repo])
          THEN /\ csLeases' = [csLeases EXCEPT ![h.repo] = GrantControlConfigRepositoryLease(h)]
               /\ CreateControlConfigLeaseOperation(o, h, "acquired", csLeases[h.repo].token + 1)
          ELSE /\ CreateControlConfigLeaseOperation(o, h, "busy", 0)
               /\ UNCHANGED csLeases
       /\ CallEnds(o)
       /\ UNCHANGED <<csRepos, csAssign, csCreds, csAccess, csTeam, csWarning, csMax>>

(* The lease id and the fencing token a call names are those of an earlier  *)
(* acquisition.                                                             *)
NamesLease(r, t) == csLeases[r].token = t /\ csLeases[r].env # CsNone /\ ~csLeases[r].revoked
RenewControlConfigRepositoryLease(r, t) == NamesLease(r, t) /\ ~csLeases[r].expired

ReleaseControlConfigRepositoryLease(r) == [CsNoLease EXCEPT !.token = csLeases[r].token]

RenewLease(o, t) ==
    LET h == csCalls[o]
    IN /\ h # CsNone /\ csOps[o] = CsNone
       /\ ValidateEligibleLeaseHolder(h)
       /\ CreateControlConfigLeaseOperation(o, h, IF RenewControlConfigRepositoryLease(h.repo, t) THEN "renewed" ELSE "lost", t)
       /\ CallEnds(o)
       /\ UNCHANGED <<csRepos, csAssign, csCreds, csLeases, csAccess, csTeam, csWarning, csMax>>

ReleaseLease(o, t) ==
    LET h == csCalls[o]
    IN /\ h # CsNone /\ csOps[o] = CsNone
       /\ ValidateEligibleLeaseHolder(h)
       /\ IF NamesLease(h.repo, t)
          THEN /\ csLeases' = [csLeases EXCEPT ![h.repo] = ReleaseControlConfigRepositoryLease(h.repo)]
               /\ CreateControlConfigLeaseOperation(o, h, "released", t)
          ELSE CreateControlConfigLeaseOperation(o, h, "lost", t) /\ UNCHANGED csLeases
       /\ CallEnds(o)
       /\ UNCHANGED <<csRepos, csAssign, csCreds, csAccess, csTeam, csWarning, csMax>>

(* --------------------------- repository access -------------------------- *)

(* The direction of an access call picks the repository from the assignment *)
(* as it is now.                                                            *)
AccessTargets(h) ==
    LET a == csAssign[h.env]
    IN {r \in {a.repo} : a.mode # "push_only"}
         \cup {r \in {IF a.push # CsNone THEN a.push ELSE h.repo} : a.mode # "pull_only"}

ReserveControlConfigRepositoryAccess(o, e, r) ==
    csAccess' = [csAccess EXCEPT ![o] = [CsNoAccess EXCEPT !.state = "pending", !.env = e, !.repo = r]]

(* The row is reserved without another look at consent. *)
ReserveAccess(o) ==
    LET h == csCalls[o]
    IN /\ h # CsNone /\ csAccess[o].state = "none"
       /\ csAssign[h.env].id = h.assign
       /\ \E r \in AccessTargets(h) \ {CsNone} :
            /\ GetActiveControlConfigRepository(r)
            /\ ReserveControlConfigRepositoryAccess(o, h.env, r)
       /\ UNCHANGED <<csRepos, csAssign, csCreds, csLeases, csOps, csCalls, csTeam, csWarning, csMax>>

(* The provider answered: the token is stored, and returned, only if the    *)
(* row is still pending.                                                    *)
CompleteControlConfigRepositoryAccess(o) ==
    /\ csAccess[o].state = "pending" /\ ~csAccess[o].revoked
    /\ csAccess' = [csAccess EXCEPT ![o].state = "issued"]
AccessIssued(o) ==
    /\ csCalls[o] # CsNone /\ CompleteControlConfigRepositoryAccess(o) /\ CallEnds(o)
    /\ UNCHANGED <<csRepos, csAssign, csCreds, csLeases, csOps, csTeam, csWarning, csMax>>

MarkControlConfigRepositoryAccessUncertain(o) ==
    csAccess' = [csAccess EXCEPT ![o].state = IF @ = "pending" /\ ~csAccess[o].revoked THEN "uncertain" ELSE @]
AccessUncertain(o) ==
    /\ csCalls[o] # CsNone /\ csAccess[o].state # "none"
    /\ MarkControlConfigRepositoryAccessUncertain(o) /\ CallEnds(o)
    /\ UNCHANGED <<csRepos, csAssign, csCreds, csLeases, csOps, csTeam, csWarning, csMax>>

ListControlConfigRepositoryAccessPendingProviderRevoke == {o \in CsAccessOps : csAccess[o].revoked /\ ~csAccess[o].retired}
MarkControlConfigRepositoryAccessProviderRevoked(o) == csAccess' = [csAccess EXCEPT ![o].retired = TRUE]
RevokeProviderAccess ==
    /\ \E o \in ListControlConfigRepositoryAccessPendingProviderRevoke : MarkControlConfigRepositoryAccessProviderRevoked(o)
    /\ UNCHANGED <<csRepos, csAssign, csCreds, csLeases, csOps, csCalls, csTeam, csWarning, csMax>>

(* ------------------------------ time and faults ------------------------- *)

CsExpires ==
    /\ \/ \E r \in CsRepos : /\ csLeases[r].env # CsNone /\ ~csLeases[r].expired
                            /\ csLeases' = [csLeases EXCEPT ![r].expired = TRUE]
                            /\ UNCHANGED csCreds
       \/ csCreds # {} /\ csCreds' = {} /\ UNCHANGED csLeases
    /\ UNCHANGED <<csRepos, csAssign, csOps, csAccess, csCalls, csTeam, csWarning, csMax>>

CallDropped(o) ==
    /\ csCalls[o] # CsNone /\ CallEnds(o)
    /\ UNCHANGED <<csRepos, csAssign, csCreds, csLeases, csOps, csAccess, csTeam, csWarning, csMax>>

CsNext ==
    \/ \E e \in CsEnvs :
         \/ \E pull \in CsRepos, push \in CsRepos, mode \in {"pull_only", "push_only", "bidirectional"} :
               AssignTargets(e, pull, push, mode)
         \/ AcceptConsent(e) \/ RemoveConsent(e) \/ ClearAssignment(e) \/ IssueCredential(e)
         \/ \E o \in CsLeaseOps \cup CsAccessOps : CallBegins(o, e)
    \/ \E r \in CsRepos : DisconnectRepository(r) \/ ConnectRepository(r) \/ SetTeamDefault(r)
    \/ AdoptTeamDefault \/ UnadoptTeamDefault \/ DeleteTeamDefault \/ MemberLeaves \/ MemberJoins
    \/ \E o \in CsLeaseOps : \/ AcquireLease(o)
                             \/ \E t \in 1 .. csMax.token : RenewLease(o, t) \/ ReleaseLease(o, t)
    \/ \E o \in CsAccessOps : ReserveAccess(o) \/ AccessIssued(o) \/ AccessUncertain(o)
    \/ \E o \in CsLeaseOps \cup CsAccessOps : CallDropped(o)
    \/ RevokeProviderAccess \/ ReconcileWarning \/ WarningDeployed \/ CsExpires

CsSpec == CsInit /\ [][CsNext]_csVars

(* ------------------------------ properties ------------------------------ *)

CsTypeOK ==
    /\ csRepos \in [CsRepos -> {"active", "disconnected"}]
    /\ csAssign \in [CsEnvs ->
         [id : 0 .. csMax.version, version : 0 .. csMax.version, repo : CsRepos \cup {CsNone},
          push : CsRepos \cup {CsNone}, mode : {"pull_only", "push_only", "bidirectional"},
          consent : {"not_required", "pending", "accepted", "revoked"}, warning : 0 .. csMax.warning,
          revoked : BOOLEAN, adopted : 0 .. csMax.default]]
    /\ csCreds \subseteq [env : CsEnvs, assign : 0 .. csMax.version, warning : 0 .. csMax.warning]
    /\ csLeases \in [CsRepos -> [token : 0 .. csMax.token, env : CsEnvs \cup {CsNone},
                                 assign : 0 .. csMax.version, revoked : BOOLEAN, expired : BOOLEAN]]
    /\ csTeam \in [version : 0 .. csMax.default, repo : CsRepos \cup {CsNone},
                    adopted : 0 .. csMax.default, member : BOOLEAN]
    /\ csWarning \in 1 .. csMax.warning

(* A writer lease that is neither revoked nor expired is held by the        *)
(* environment's current assignment of exactly that repository, with write  *)
(* mode and standing consent: reassignment, consent removal, a new warning, *)
(* disconnection and adoption all take the lease with them.                 *)
LeaseIsAuthorized ==
    \A r \in CsRepos : LET l == csLeases[r] IN
        l.env # CsNone /\ ~l.revoked /\ ~l.expired =>
          LET a == csAssign[l.env]
          IN /\ a.id = l.assign /\ a.repo = r /\ ~a.revoked
             /\ a.mode # "pull_only" /\ a.consent \in {"not_required", "accepted"}

(* Fencing tokens are never reused: no two acquisitions of one repository,  *)
(* by whichever machines and across releases, revocations and expiry, were  *)
(* given the same token, and the next one will be above them all.           *)
FencingTokensUnique ==
    LET acquired == {o \in CsLeaseOps : csOps[o] # CsNone /\ csOps[o].result = "acquired"}
    IN \A o1 \in acquired :
         /\ csOps[o1].token <= csLeases[csOps[o1].repo].token
         /\ \A o2 \in acquired \ {o1} :
              csOps[o1].repo = csOps[o2].repo => csOps[o1].token # csOps[o2].token

====
