---------------------------- MODULE EnvironmentVault ----------------------------
(* Teams and the encrypted environment vault (internal/teams, internal/environment).     *)
(*                                                                                        *)
(* An account keeps a password vault and, under a personal key epoch, encrypted personal  *)
(* scopes: one for the account and one override per machine.  A team keeps one encrypted  *)
(* scope under a team key epoch, and each member holds the key by a grant sealed to that  *)
(* member.  A host serves a projection built from selected scopes.  The server never      *)
(* sees a key: what it enforces is which epoch a scope may be written under, who is       *)
(* granted that epoch, and when a projection built earlier stops being served.            *)
(*                                                                                        *)
(* Every request runs in one transaction under advisory lock 160235 (teams.Lock,          *)
(* lockVaultScopes), so each is one step.  A request that is refused or replayed changes  *)
(* nothing and has no action.  Document digests and the generations that only fence a     *)
(* stale request (team, membership, vault and selection generations) are left out: a      *)
(* request carrying a stale one is refused.  One team; its name stands for its id.        *)
EXTENDS Naturals, FiniteSets

CONSTANTS
  EvAccounts,    \* accounts
  EvKeyed,       \* the accounts that use the environment vault
  EvMachines,    \* host machines
  EvOwnerOf,     \* [EvMachines -> EvKeyed]: the account a machine belongs to
  EvParts,       \* "members": membership; "team": team keys and projections of them;
                 \* "personal": personal scopes, their rotation and projections
  EvPermissions, \* the env permissions members are given
  EvBounds       \* bounds on the key epochs and scope revisions of a behaviour, the
                 \* machines it uses, and the parts it is for

EvAssumption ==
  /\ EvKeyed \subseteq EvAccounts
  /\ EvOwnerOf \in [EvMachines -> EvKeyed]
  /\ EvParts \subseteq {"members", "team", "personal"}
  /\ "write" \in EvPermissions /\ EvPermissions \subseteq {"read", "write"}
  /\ EvBounds \subseteq [epoch : Nat, revision : Nat, hosts : SUBSET EvMachines, parts : SUBSET EvParts]

VARIABLES
  evPart,      \* which part this behaviour exercises
  evMax,       \* the bound it keeps to
  evTeam,      \* teams row: state, owner
  evMember,    \* team_members rows: active, role
  evInvited,   \* pending invitation of each account: who created it, or nobody
  evPerms,     \* active env permissions of each account in team_resource_grants
  evTeamVault, \* environment_vault_teams row: key_epoch (0: no row), rotation_required
  evHeld,      \* grant_epoch of each account (0: none)
  evSealed,    \* environment_vault_team_grants row of each account
  evVault,     \* accounts with a password vault
  evPersonal,  \* environment_vault_personal_epochs: key_epoch, rotation_required
  evScope,     \* environment_vault_scopes: key_epoch, revision (0: no row)
  evStaged,    \* revision staged for each personal scope (0: none)
  evHost,      \* environment_vault_hosts: key registered, projection stored, its sources
  evWatch,     \* environment_vault_projection_sources of each machine
  evFresh,     \* applied_fence_generation equals the machine's fence generation
  evSpent      \* history: the epochs whose key someone outside still knows

evVars == <<evPart, evMax, evTeam, evMember, evInvited, evPerms, evTeamVault, evHeld, evSealed,
            evVault, evPersonal, evScope, evStaged, evHost, evWatch, evFresh, evSpent>>

teamVars == <<evTeam, evMember, evInvited>>
keyVars == <<evTeamVault, evHeld, evSealed>>
personalVars == <<evVault, evPersonal, evStaged>>

Nobody == "nobody"
TheTeam == "team"

(* Coordinates of scopes: the team's, an account's own, a machine override. *)
TeamScope == <<"team", TheTeam, Nobody>>
OwnScope(a) == <<"personal", a, Nobody>>
OverrideOf(m) == <<"personal", EvOwnerOf[m], m>>
ScopesOf(a) == {OwnScope(a)} \cup {OverrideOf(m) : m \in {n \in EvMachines : EvOwnerOf[n] = a}}
Coordinates == {TeamScope} \cup UNION {ScopesOf(a) : a \in EvKeyed}

NoScope == [epoch |-> 0, revision |-> 0]
NoHost == [registered |-> FALSE, stored |-> FALSE, built |-> {}]

EvTypeOK ==
  /\ evPart \in EvParts
  /\ evMax \in EvBounds
  /\ evTeam \in [state : {"none", "live", "deleted"}, owner : EvAccounts \cup {Nobody}]
  /\ evMember \in [EvAccounts -> [active : BOOLEAN, role : {"member", "admin"}]]
  /\ evInvited \in [EvAccounts -> EvAccounts \cup {Nobody}]
  /\ evPerms \in [EvAccounts -> SUBSET EvPermissions]
  /\ evTeamVault \in [epoch : 0..evMax.epoch, required : BOOLEAN]
  /\ evHeld \in [EvAccounts -> 0..evMax.epoch]
  /\ evSealed \in [EvAccounts -> {"none", "sealed", "acknowledged", "unreadable"}]
  /\ evVault \subseteq EvKeyed
  /\ evPersonal \in [EvKeyed -> [epoch : 1..evMax.epoch, required : BOOLEAN]]
  /\ evScope \in [Coordinates -> [epoch : 0..evMax.epoch, revision : 0..evMax.revision]]
  /\ evStaged \in [Coordinates -> 0..evMax.revision]
  /\ \A m \in EvMachines : /\ evHost[m].registered \in BOOLEAN
                           /\ evHost[m].stored \in BOOLEAN
                           /\ \A s \in evHost[m].built : s.at \in Coordinates
  /\ evWatch \in [EvMachines -> SUBSET Coordinates]
  /\ evFresh \in [EvMachines -> BOOLEAN]
  /\ evSpent \in [EvKeyed \cup {TheTeam} -> SUBSET (1..evMax.epoch)]

EvInit ==
  /\ evPart \in EvParts
  /\ evMax \in {b \in EvBounds : evPart \in b.parts}
  /\ evTeam = [state |-> "none", owner |-> Nobody]
  /\ evMember = [a \in EvAccounts |-> [active |-> FALSE, role |-> "member"]]
  /\ evInvited = [a \in EvAccounts |-> Nobody]
  /\ evPerms = [a \in EvAccounts |-> {}]
  /\ evTeamVault = [epoch |-> 0, required |-> FALSE]
  /\ evHeld = [a \in EvAccounts |-> 0]
  /\ evSealed = [a \in EvAccounts |-> "none"]
  /\ evVault = {}
  /\ evPersonal = [a \in EvKeyed |-> [epoch |-> 1, required |-> FALSE]]
  /\ evScope = [c \in Coordinates |-> NoScope]
  /\ evStaged = [c \in Coordinates |-> 0]
  /\ evHost = [m \in EvMachines |-> NoHost]
  /\ evWatch = [m \in EvMachines |-> {}]
  /\ evFresh = [m \in EvMachines |-> FALSE]
  /\ evSpent = [o \in EvKeyed \cup {TheTeam} |-> {}]

-----------------------------------------------------------------------------
(* Authority. *)

(* member, ReadTx: an account is a member of a live team. *)
TeamMember(a) == evTeam.state = "live" /\ evMember[a].active

RoleOf(a) == IF evTeam.owner = a THEN "owner" ELSE evMember[a].role

administrative(role) == role \in {"owner", "admin"}

(* mutate and check: the actor is a member of a team that is not deleted. *)
Acts(a) == TeamMember(a) /\ (evPart = "team" => a \in EvKeyed)

(* authorizedVaultMember: active, granted the team's current epoch, with a permission. *)
authorizedVaultMember(a) ==
  /\ TeamMember(a)
  /\ evTeamVault.epoch > 0
  /\ evHeld[a] = evTeamVault.epoch
  /\ evPerms[a] # {}

(* allowVaultWritesTx, personalVaultRotationRequiredTx. *)
allowVaultWritesTx(a) == ~evPersonal[a].required

(* allowVaultTeamWritesTx. *)
allowVaultTeamWritesTx == evTeamVault.epoch > 0 /\ ~evTeamVault.required

(* vaultMetadataTx: the account has a password vault. *)
vaultMetadataTx(a) == a \in evVault

(* authorizeVaultScopeTx *)
authorizeVaultScopeTx(a, c) ==
  IF c = TeamScope THEN authorizedVaultMember(a) ELSE c \in ScopesOf(a)

(* personalVaultEpochTx and the team's key_epoch: what a scope is written under. *)
EpochOf(a, c) == IF c = TeamScope THEN evTeamVault.epoch ELSE evPersonal[a].epoch

-----------------------------------------------------------------------------
(* Projection fences.  A fence generation only grows, and provisioning copies the current *)
(* one, so all that matters of the two numbers is whether they are equal.                 *)

(* invalidateVaultScopeTx: machines that watch a coordinate stop serving their bundle. *)
invalidateVaultScopeTx(written) ==
  evFresh' = [m \in EvMachines |-> evFresh[m] /\ evWatch[m] \cap written = {}]

(* InvalidateENVTx *)
InvalidateENVTx == invalidateVaultScopeTx({TeamScope})

(* Leaves the team's rotation flag alone: only projections are fenced. *)
EvFencesProjectionsOnly ==
  /\ evTeamVault' = evTeamVault
  /\ InvalidateENVTx

(* FenceENVTx: the team must rotate its key, and its projections stop being served. *)
FenceENVTx ==
  /\ evTeamVault' = [evTeamVault EXCEPT !.required = evTeamVault.epoch > 0]
  /\ InvalidateENVTx

(* FenceENVTx when the account held a key, InvalidateENVTx when it did not. *)
FenceIfHeld(a) ==
  IF evHeld[a] > 0 THEN FenceENVTx ELSE InvalidateENVTx /\ UNCHANGED evTeamVault

(* An account that knew the team's current key no longer should. *)
SpendsTeamKey(a) ==
  evSpent' = IF evHeld[a] > 0 /\ evHeld[a] = evTeamVault.epoch
             THEN [evSpent EXCEPT ![TheTeam] = @ \cup {evTeamVault.epoch}]
             ELSE evSpent

-----------------------------------------------------------------------------
(* Membership (teams.Service). *)

(* Create *)
TeamCreate(a) ==
  /\ evPart = "team" => a \in EvKeyed
  /\ evPart # "personal"
  /\ evTeam.state = "none"
  /\ evTeam' = [state |-> "live", owner |-> a]
  /\ evMember' = [evMember EXCEPT ![a] = [active |-> TRUE, role |-> "member"]]
  /\ UNCHANGED <<evPart, evInvited, evPerms, evScope, evHost, evWatch, evFresh, evSpent>>
  /\ UNCHANGED keyVars
  /\ UNCHANGED personalVars

(* The team's own state, scopes and keys are left alone. *)
OnlyMembership ==
  /\ UNCHANGED <<evPart, evPerms, evScope, evHost, evWatch, evFresh, evSpent>>
  /\ UNCHANGED keyVars
  /\ UNCHANGED personalVars

(* Invite: a fresh pending invitation of an account that is not a member. *)
Invite(a, b) ==
  /\ Acts(a)
  /\ administrative(RoleOf(a))
  /\ ~TeamMember(b)
  /\ evInvited[b] = Nobody
  /\ evInvited' = [evInvited EXCEPT ![b] = a]
  /\ UNCHANGED <<evTeam, evMember>>
  /\ OnlyMembership

(* CancelInvite *)
CancelInvite(a, b) ==
  /\ Acts(a)
  /\ administrative(RoleOf(a))
  /\ evInvited[b] # Nobody
  /\ evInvited' = [evInvited EXCEPT ![b] = Nobody]
  /\ UNCHANGED <<evTeam, evMember>>
  /\ OnlyMembership

(* Accept: the account joins, or joins again, as a plain member. *)
AcceptInvite(b) ==
  /\ evPart = "team" => b \in EvKeyed
  /\ evInvited[b] # Nobody
  /\ evTeam.state = "live"
  /\ ~TeamMember(b)
  /\ evMember' = [evMember EXCEPT ![b] = [active |-> TRUE, role |-> "member"]]
  /\ evInvited' = [evInvited EXCEPT ![b] = Nobody]
  /\ UNCHANGED evTeam
  /\ OnlyMembership

(* Invitations an account created, or that were sent to it, are cancelled. *)
CancelsInvitations(a) ==
  [b \in EvAccounts |-> IF b = a \/ evInvited[b] = a THEN Nobody ELSE evInvited[b]]

(* The invitations an account created are cancelled. *)
CancelsCreated(a) == [b \in EvAccounts |-> IF evInvited[b] = a THEN Nobody ELSE evInvited[b]]

(* Mutate "role": only the owner changes roles; a demoted admin's invitations end. *)
MutateRole(a, b, role) ==
  /\ Acts(a)
  /\ RoleOf(a) = "owner"
  /\ TeamMember(b)
  /\ b # evTeam.owner
  /\ evMember' = [evMember EXCEPT ![b].role = role]
  /\ evInvited' = IF role = "member" THEN CancelsCreated(b) ELSE evInvited
  /\ UNCHANGED evTeam
  /\ OnlyMembership

(* Mutate "transfer": the owner hands the team over and becomes a plain member. *)
MutateTransfer(a, b) ==
  /\ Acts(a)
  /\ RoleOf(a) = "owner"
  /\ TeamMember(b)
  /\ b # a
  /\ evTeam' = [evTeam EXCEPT !.owner = b]
  /\ evMember' = [evMember EXCEPT ![a].role = "member", ![b].role = "member"]
  /\ evInvited' = CancelsCreated(a)
  /\ OnlyMembership

(* revokeDepartingResourcesTx touches bindings, inbox requests and configuration         *)
(* assignments, which this module does not keep; RemoveMemberTx ends the member's grants, *)
(* the sealed key and the invitations, and fences the team's key if the member held it.   *)
RemoveMemberTx(b) ==
  /\ evMember' = [evMember EXCEPT ![b].active = FALSE]
  /\ evPerms' = [evPerms EXCEPT ![b] = {}]
  /\ evHeld' = [evHeld EXCEPT ![b] = 0]
  /\ evSealed' = [evSealed EXCEPT ![b] = "none"]
  /\ evInvited' = CancelsInvitations(b)
  /\ FenceIfHeld(b)
  /\ SpendsTeamKey(b)
  /\ UNCHANGED <<evPart, evTeam, evScope, evHost, evWatch>>
  /\ UNCHANGED personalVars

(* Mutate "remove": the owner is never removed, an admin removes plain members only. *)
MutateRemove(a, b) ==
  /\ Acts(a)
  /\ administrative(RoleOf(a))
  /\ TeamMember(b)
  /\ b # evTeam.owner
  /\ RoleOf(a) = "admin" => evMember[b].role = "member"
  /\ RemoveMemberTx(b)

(* Mutate "leave" *)
MutateLeave(a) ==
  /\ Acts(a)
  /\ RoleOf(a) # "owner"
  /\ RemoveMemberTx(a)

(* Mutate "delete": members, grants, keys and the team's scope go with the team. *)
MutateDelete(a) ==
  /\ Acts(a)
  /\ RoleOf(a) = "owner"
  /\ InvalidateENVTx
  /\ evTeam' = [evTeam EXCEPT !.state = "deleted"]
  /\ evMember' = [b \in EvAccounts |-> [evMember[b] EXCEPT !.active = FALSE]]
  /\ evInvited' = [b \in EvAccounts |-> Nobody]
  /\ evPerms' = [b \in EvAccounts |-> {}]
  /\ evHeld' = [b \in EvAccounts |-> 0]
  /\ evSealed' = [b \in EvAccounts |-> "none"]
  /\ evTeamVault' = [epoch |-> 0, required |-> FALSE]
  /\ evScope' = [evScope EXCEPT ![TeamScope] = NoScope]
  /\ UNCHANGED <<evPart, evHost, evWatch, evSpent>>
  /\ UNCHANGED personalVars

(* Grant: an administrator gives or takes an env permission.  Taking one also takes the   *)
(* member's sealed key, and the team must rotate if the member held it.                   *)
GrantPermission(a, b, p, active) ==
  /\ Acts(a)
  /\ administrative(RoleOf(a))
  /\ TeamMember(b)
  /\ evTeamVault.epoch > 0
  /\ \/ /\ active
        /\ evPerms' = [evPerms EXCEPT ![b] = @ \cup {p}]
        /\ InvalidateENVTx
        /\ UNCHANGED <<keyVars, evSpent>>
     \/ /\ ~active
        /\ evPerms' = [evPerms EXCEPT ![b] = @ \ {p}]
        /\ evHeld' = [evHeld EXCEPT ![b] = 0]
        /\ evSealed' = [evSealed EXCEPT ![b] = "none"]
        /\ FenceIfHeld(b)
        /\ SpendsTeamKey(b)
  /\ UNCHANGED <<evPart, evScope, evHost, evWatch>>
  /\ UNCHANGED teamVars
  /\ UNCHANGED personalVars

-----------------------------------------------------------------------------
(* Keys and scopes (environment.Service). *)

VaultPart == evPart # "members"

(* The scopes and accounts a behaviour of each part uses. *)
InPlay(c) == IF evPart = "team" THEN c = TeamScope ELSE c # TeamScope
Plays(a) == evPart = "personal" => \E m \in EvMachines : EvOwnerOf[m] = a

(* scopeSuccessor: the next revision, under the given epoch. *)
Succeeds(c, epoch) ==
  evScope[c].revision < evMax.revision /\ epoch <= evMax.epoch

Successor(c, epoch) == [epoch |-> epoch, revision |-> evScope[c].revision + 1]

(* writeVaultScopeTx: the scopes are replaced and their watchers fenced. *)
writeVaultScopeTx(written, epoch) ==
  /\ evScope' = [c \in Coordinates |-> IF c \in written THEN Successor(c, epoch) ELSE evScope[c]]
  /\ invalidateVaultScopeTx(written)

(* commitVaultKeyMutationTx and the trigger expire_environment_personal_rotation: a new   *)
(* vault document ends the staging that named the previous one.                           *)
commitVaultKeyMutationTx(a) ==
  evStaged' = [c \in Coordinates |-> IF c \in ScopesOf(a) THEN 0 ELSE evStaged[c]]

(* PutPasswordVault: the first document, or a successor, which may carry another sharing  *)
(* key; a key sealed to the earlier one and not yet taken can then no longer be listed.   *)
PutPasswordVault(a, reshares) ==
  /\ VaultPart
  /\ a \notin evVault => ~reshares
  /\ evVault' = evVault \cup {a}
  /\ evSealed' = IF reshares /\ evSealed[a] = "sealed"
                 THEN [evSealed EXCEPT ![a] = "unreadable"] ELSE evSealed
  /\ commitVaultKeyMutationTx(a)
  /\ UNCHANGED <<evPart, evPerms, evTeamVault, evHeld, evPersonal, evScope, evHost, evWatch,
                 evFresh, evSpent>>
  /\ UNCHANGED teamVars

(* PutVaultScope *)
PutVaultScope(a, c) ==
  /\ VaultPart
  /\ allowVaultWritesTx(a)
  /\ c = TeamScope => allowVaultTeamWritesTx /\ TeamMember(a) /\ "write" \in evPerms[a]
  /\ authorizeVaultScopeTx(a, c)
  /\ vaultMetadataTx(a)
  /\ Succeeds(c, EpochOf(a, c))
  /\ writeVaultScopeTx({c}, EpochOf(a, c))
  /\ UNCHANGED <<evPart, evPerms, evHost, evWatch, evSpent>>
  /\ UNCHANGED teamVars
  /\ UNCHANGED keyVars
  /\ UNCHANGED personalVars

(* CreateVaultTeam: a new team, or an existing one of this owner, gets its first key. *)
CreateVaultTeam(a) ==
  /\ evPart = "team"
  /\ allowVaultWritesTx(a)
  /\ \/ evTeam.state = "none"
     \/ evTeam.state = "live" /\ evTeam.owner = a
  /\ vaultMetadataTx(a)
  /\ evTeamVault.epoch = 0
  /\ Succeeds(TeamScope, 1)
  /\ evTeam' = [state |-> "live", owner |-> a]
  /\ evMember' = [evMember EXCEPT ![a].active = TRUE]
  /\ evPerms' = [evPerms EXCEPT ![a] = @ \cup {"write"}]
  /\ evTeamVault' = [epoch |-> 1, required |-> FALSE]
  /\ evHeld' = [evHeld EXCEPT ![a] = 1]
  /\ evSealed' = [evSealed EXCEPT ![a] = "sealed"]
  /\ writeVaultScopeTx({TeamScope}, 1)
  /\ commitVaultKeyMutationTx(a)
  /\ UNCHANGED <<evPart, evInvited, evVault, evPersonal, evHost, evWatch, evSpent>>

(* GrantVaultTeamMember: an authorized administrator seals the current key to a member. *)
GrantVaultTeamMember(a, b) ==
  /\ VaultPart
  /\ allowVaultWritesTx(a)
  /\ authorizedVaultMember(a)
  /\ administrative(RoleOf(a))
  /\ TeamMember(b)
  /\ evPerms[b] # {}
  /\ ~evTeamVault.required
  /\ vaultMetadataTx(a) /\ vaultMetadataTx(b)
  /\ evHeld' = [evHeld EXCEPT ![b] = evTeamVault.epoch]
  /\ evSealed' = [evSealed EXCEPT ![b] = "sealed"]
  /\ UNCHANGED <<evPart, evPerms, evTeamVault, evScope, evHost, evWatch, evFresh, evSpent>>
  /\ UNCHANGED teamVars
  /\ UNCHANGED personalVars

(* vaultTeamRotationAllowed: an administrator who holds the key rotates it; the owner may *)
(* reset a key that is lost.  Members the request removes must be removable by the actor. *)
vaultTeamRotationAllowed(a, removed, reset) ==
  /\ TeamMember(a)
  /\ administrative(RoleOf(a))
  /\ IF reset THEN RoleOf(a) = "owner" ELSE authorizedVaultMember(a)
  /\ \A b \in removed : /\ b # a /\ b # evTeam.owner
                        /\ evMember[b].active \/ evTeamVault.required
                        /\ RoleOf(a) = "admin" => evMember[b].role = "member"

(* Members who keep the key: active, with a permission, not removed. *)
Remaining(removed) == {b \in EvAccounts : TeamMember(b) /\ evPerms[b] # {}} \ removed

(* RotateVaultTeam: one step removes members, replaces the scope under the next epoch and *)
(* seals the new key to every remaining member.                                           *)
RotateVaultTeam(a, removed, reset) ==
  /\ VaultPart
  /\ evTeamVault.epoch > 0
  /\ vaultTeamRotationAllowed(a, removed, reset)
  /\ vaultMetadataTx(a)
  /\ \A b \in Remaining(removed) : vaultMetadataTx(b)
  /\ Succeeds(TeamScope, evTeamVault.epoch + 1)
  /\ evMember' = [b \in EvAccounts |->
                    IF b \in removed THEN [evMember[b] EXCEPT !.active = FALSE] ELSE evMember[b]]
  /\ evPerms' = [b \in EvAccounts |-> IF b \in removed THEN {} ELSE evPerms[b]]
  /\ LET gone == {r \in removed : evMember[r].active}
     IN  evInvited' = [b \in EvAccounts |->
                         IF b \in gone \/ evInvited[b] \in gone THEN Nobody ELSE evInvited[b]]
  /\ evTeamVault' = [epoch |-> evTeamVault.epoch + 1, required |-> FALSE]
  /\ evHeld' = [b \in EvAccounts |->
                  IF b \in Remaining(removed) THEN evTeamVault.epoch + 1 ELSE 0]
  /\ evSealed' = [b \in EvAccounts |-> IF b \in Remaining(removed) THEN "sealed" ELSE "none"]
  /\ writeVaultScopeTx({TeamScope}, evTeamVault.epoch + 1)
  /\ commitVaultKeyMutationTx(a)
  /\ UNCHANGED <<evPart, evTeam, evVault, evPersonal, evHost, evWatch, evSpent>>

(* ListVaultGrants offers a sealed key of the current epoch that is not yet acknowledged;  *)
(* AcknowledgeVaultGrant records that the member has put it in their vault.               *)
ListVaultGrants(a) ==
  /\ authorizedVaultMember(a)
  /\ vaultMetadataTx(a)
  /\ evSealed[a] = "sealed"

AcknowledgeVaultGrant(a) ==
  /\ VaultPart
  /\ ListVaultGrants(a)
  /\ evSealed' = [evSealed EXCEPT ![a] = "acknowledged"]
  /\ UNCHANGED <<evPart, evPerms, evTeamVault, evHeld, evScope, evHost, evWatch, evFresh, evSpent>>
  /\ UNCHANGED teamVars
  /\ UNCHANGED personalVars

-----------------------------------------------------------------------------
(* Personal rotation. *)

(* StagePersonalVaultScope: the successor of one existing scope is kept aside. *)
StagePersonalVaultScope(a, c) ==
  /\ VaultPart
  /\ vaultMetadataTx(a)
  /\ evScope[c].revision > 0
  /\ Succeeds(c, evPersonal[a].epoch + 1)
  /\ evStaged[c] = 0
  /\ evStaged' = [evStaged EXCEPT ![c] = evScope[c].revision + 1]
  /\ UNCHANGED <<evPart, evPerms, evVault, evPersonal, evScope, evHost, evWatch, evFresh, evSpent>>
  /\ UNCHANGED teamVars
  /\ UNCHANGED keyVars

(* AbortPersonalVaultRotation *)
AbortPersonalVaultRotation(a) ==
  /\ VaultPart
  /\ \E c \in ScopesOf(a) : evStaged[c] > 0
  /\ commitVaultKeyMutationTx(a)
  /\ UNCHANGED <<evPart, evPerms, evVault, evPersonal, evScope, evHost, evWatch, evFresh, evSpent>>
  /\ UNCHANGED teamVars
  /\ UNCHANGED keyVars

(* The personal scopes the account has: a rotation must replace every one. *)
StoredScopes(a) == {c \in ScopesOf(a) : evScope[c].revision > 0}

(* Only the scopes named by the staging are replaced. *)
EvStagedScopesOnly(a) == {c \in ScopesOf(a) : evStaged[c] > 0}

RotatedScopes(a) == StoredScopes(a)

(* Every scope to be replaced is staged, and the staging still succeeds it. *)
StagingComplete(a) == \A c \in RotatedScopes(a) : evStaged[c] = evScope[c].revision + 1

(* mutatePersonalVault: every personal scope moves to the next epoch in one step and the  *)
(* account's hosts stop serving what they have.  A reset also gives up the team keys.     *)
mutatePersonalVault(a, reset) ==
  /\ vaultMetadataTx(a)
  /\ evPersonal[a].epoch < evMax.epoch
  /\ \A c \in RotatedScopes(a) : Succeeds(c, evPersonal[a].epoch + 1)
  /\ evScope' = [c \in Coordinates |->
                   IF c \in RotatedScopes(a) THEN Successor(c, evPersonal[a].epoch + 1)
                   ELSE evScope[c]]
  /\ evPersonal' = [evPersonal EXCEPT ![a] = [epoch |-> @.epoch + 1, required |-> FALSE]]
  /\ evFresh' = [m \in EvMachines |-> evFresh[m] /\ EvOwnerOf[m] # a]
  /\ evHeld' = IF reset THEN [evHeld EXCEPT ![a] = 0] ELSE evHeld
  /\ evSealed' = IF reset THEN [evSealed EXCEPT ![a] = "none"] ELSE evSealed
  /\ commitVaultKeyMutationTx(a)
  /\ UNCHANGED <<evPart, evPerms, evTeamVault, evVault, evHost, evWatch, evSpent>>
  /\ UNCHANGED teamVars

RotatePersonalVault(a) == VaultPart /\ StagingComplete(a) /\ mutatePersonalVault(a, FALSE)

ResetPersonalVault(a) == VaultPart /\ mutatePersonalVault(a, TRUE)

(* RequireVaultRotationTx, called when a client session or a machine of the account is    *)
(* revoked: the device may have known the personal key and every team key the account     *)
(* was granted.                                                                           *)
RequireVaultRotationTx(a) ==
  /\ VaultPart
  /\ LET newly == a \in evVault /\ ~evPersonal[a].required
         affected == /\ TeamMember(a)
                     /\ evTeamVault.epoch > 0 /\ ~evTeamVault.required
                     /\ evHeld[a] = evTeamVault.epoch
     IN  /\ evPersonal' = IF newly THEN [evPersonal EXCEPT ![a].required = TRUE] ELSE evPersonal
         /\ evTeamVault' = IF affected THEN [evTeamVault EXCEPT !.required = TRUE] ELSE evTeamVault
         /\ evFresh' = [m \in EvMachines |-> /\ evFresh[m]
                                             /\ newly => EvOwnerOf[m] # a
                                             /\ affected => TeamScope \notin evWatch[m]]
         /\ evSpent' = [o \in DOMAIN evSpent |->
                          IF o = a /\ a \in evVault THEN evSpent[o] \cup {evPersonal[a].epoch}
                          ELSE IF o = TheTeam /\ evHeld[a] > 0 /\ evHeld[a] = evTeamVault.epoch
                          THEN evSpent[o] \cup {evTeamVault.epoch} ELSE evSpent[o]]
  /\ UNCHANGED <<evPart, evPerms, evHeld, evSealed, evVault, evScope, evStaged, evHost, evWatch>>
  /\ UNCHANGED teamVars

-----------------------------------------------------------------------------
(* Host projections. *)

(* RegisterVaultHostKey: a new host key, or a new installation, ends the stored bundle. *)
RegisterVaultHostKey(m) ==
  /\ VaultPart
  /\ vaultMetadataTx(EvOwnerOf[m])
  /\ evHost' = [evHost EXCEPT ![m] = [registered |-> TRUE, stored |-> FALSE, built |-> {}]]
  /\ evFresh' = [evFresh EXCEPT ![m] = FALSE]
  /\ UNCHANGED <<evPart, evPerms, evScope, evWatch, evSpent>>
  /\ UNCHANGED teamVars
  /\ UNCHANGED keyVars
  /\ UNCHANGED personalVars

(* The scopes a projection is built from: those selected, and the machine's override when *)
(* there is one.                                                                          *)
SourcesOf(m, selected) ==
  selected \cup (IF evScope[OverrideOf(m)].revision > 0 THEN {OverrideOf(m)} ELSE {})

(* The coordinates a projection watches: its sources, and the override even when it does  *)
(* not exist yet.                                                                         *)
Watched(m, selected) == SourcesOf(m, selected) \cup {OverrideOf(m)}

(* ProvisionVaultHost: the caller's claims about every source are checked against the     *)
(* stored scopes; the bundle then carries the fence in force.                             *)
ProvisionVaultHost(m, selected) ==
  /\ VaultPart
  /\ allowVaultWritesTx(EvOwnerOf[m])
  /\ TeamScope \in selected => allowVaultTeamWritesTx
  /\ \A c \in selected : /\ authorizeVaultScopeTx(EvOwnerOf[m], c)
                         /\ evScope[c].revision > 0
  /\ evHost[m].registered
  /\ vaultMetadataTx(EvOwnerOf[m])
  /\ evHost' = [evHost EXCEPT ![m].stored = TRUE,
                  ![m].built = {[at |-> c, of |-> evScope[c]] : c \in SourcesOf(m, selected)}]
  /\ evWatch' = [evWatch EXCEPT ![m] = Watched(m, selected)]
  /\ evFresh' = [evFresh EXCEPT ![m] = TRUE]
  /\ UNCHANGED <<evPart, evPerms, evScope, evSpent>>
  /\ UNCHANGED teamVars
  /\ UNCHANGED keyVars
  /\ UNCHANGED personalVars

(* readVaultHostTx: what a host is answered. *)
BundleReady(m) == evHost[m].stored /\ evFresh[m]

EvMembersNext ==
  \E a \in EvAccounts :
    \/ TeamCreate(a)
    \/ AcceptInvite(a)
    \/ MutateLeave(a)
    \/ MutateDelete(a)
    \/ \E b \in IF evPart = "team" THEN EvKeyed ELSE EvAccounts :
         \/ Invite(a, b)
         \/ CancelInvite(a, b)
         \/ \E role \in {"admin", "member"} : MutateRole(a, b, role)
         \/ MutateRemove(a, b)
         \/ MutateTransfer(a, b)
         \/ \E p \in EvPermissions, active \in BOOLEAN : GrantPermission(a, b, p, active)

EvVaultNext ==
  \E a \in {k \in EvKeyed : Plays(k)} :
    \/ \E reshares \in BOOLEAN : PutPasswordVault(a, reshares)
    \/ \E c \in {d \in Coordinates : InPlay(d)} : PutVaultScope(a, c)
    \/ CreateVaultTeam(a)
    \/ \E b \in EvKeyed : GrantVaultTeamMember(a, b)
    \/ \E removed \in SUBSET EvKeyed, reset \in BOOLEAN : RotateVaultTeam(a, removed, reset)
    \/ AcknowledgeVaultGrant(a)
    \/ \E c \in ScopesOf(a) : StagePersonalVaultScope(a, c)
    \/ AbortPersonalVaultRotation(a)
    \/ RotatePersonalVault(a)
    \/ ResetPersonalVault(a)
    \/ RequireVaultRotationTx(a)

EvHostNext ==
  \E m \in evMax.hosts :
    \/ RegisterVaultHostKey(m)
    \/ \E selected \in SUBSET {c \in {OwnScope(EvOwnerOf[m]), TeamScope} : InPlay(c)} :
         ProvisionVaultHost(m, selected)

EvNext == (EvMembersNext \/ EvVaultNext \/ EvHostNext) /\ UNCHANGED evMax

EvSpec == EvInit /\ [][EvNext]_evVars

-----------------------------------------------------------------------------
(* A bundle that a host is answered as ready (readVaultHostTx) was built from the scopes   *)
(* stored now, the machine's override included if it exists, none of them under a key      *)
(* that must be rotated, and its owner is still authorized for each: whatever else changed *)
(* a scope, a membership, a permission or a device fenced the machine.                     *)
ReadyProjectionIsCurrent ==
  \A m \in EvMachines : BundleReady(m) =>
    /\ \A s \in evHost[m].built : evScope[s.at] = s.of /\ authorizeVaultScopeTx(EvOwnerOf[m], s.at)
    /\ evScope[OverrideOf(m)].revision > 0 =>
         \E s \in evHost[m].built : s.at = OverrideOf(m)
    /\ ~evPersonal[EvOwnerOf[m]].required
    /\ \A s \in evHost[m].built : s.at = TeamScope => ~evTeamVault.required

(* After a departure, a permission taken away or a revoked device, no scope is written     *)
(* under an epoch whose key went with it: PutVaultScope waits for the rotation.            *)
NothingWrittenUnderSpentKey ==
  \A c \in Coordinates :
    evScope'[c].revision > evScope[c].revision =>
      evScope'[c].epoch \notin evSpent[IF c = TeamScope THEN TheTeam ELSE c[2]]

(* All scopes of an owner are under one epoch, the owner's current one: a rotation, which   *)
(* is staged scope by scope over several requests while others keep writing, leaves no      *)
(* scope behind under a key that is then discarded.                                         *)
ScopesShareTheEpoch ==
  \A c \in Coordinates : evScope[c].revision > 0 =>
    evScope[c].epoch = IF c = TeamScope THEN evTeamVault.epoch ELSE evPersonal[c[2]].epoch

(* A pending invitation was created by someone who may still invite: a demotion, a         *)
(* departure or a transfer of the team cancels what the account had sent.                  *)
InvitationHasAuthority ==
  \A b \in EvAccounts : evInvited[b] # Nobody =>
    TeamMember(evInvited[b]) /\ administrative(RoleOf(evInvited[b]))

(* A live team has an owner who is a member, whatever roles, removals and rotations did.   *)
TeamKeepsItsOwner ==
  evTeam.state = "live" => evMember[evTeam.owner].active
=============================================================================
