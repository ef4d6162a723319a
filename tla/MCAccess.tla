------------------------------- MODULE MCAccess -------------------------------
(***************************************************************************)
(* Access for TLC: the identities and sessions of peer devices and the     *)
(* network they form, the sign-ins of browsers and command lines, what     *)
(* they may reach on hosted projects and machines, and the environment     *)
(* variables accounts and teams share.                                     *)
(*                                                                         *)
(* Each module describes its part of the system by itself, and what the    *)
(* other parts do to it by actions of its own, so the parts are checked    *)
(* side by side: every behaviour exercises one of them, chosen in the      *)
(* initial state, and the parts take turns with the same variables.        *)
(***************************************************************************)
EXTENDS Naturals, TLC

CONSTANTS
    Parts,  \* the parts the behaviours exercise
    PoolA, PoolB,  \* interchangeable model values
    IdKeys, IdCerts, IdMaxGen, PkClients, PkHost, PkKeys, PkCerts, PkOps,
    PkMaxGen, PkNone, PsMax, PnHosts, PnMaxPeers, PnMaxKey, PnMaxGen,
    RsRegions, RsTimes, RsScores, RsMaxClientGen, BsSessions, BsRequests,
    BsMaxToken, DaUsers, DaGrants, DaSessions, DaTokens, DaMachine,
    DaMaxSlow, DaNone, HaAccess, HaRequests, MsParts, MsUsers, MsSessions,
    MsClientKeys, MsMachines, MsHostKeys, MsSets, MsOps, MsPorts, MsLimit,
    MsMaxGen, MsMaxObs, MsNone, EvAccounts, EvKeyed, EvMachines,
    EvOwnerOf, EvParts, EvPermissions, EvBounds

VARIABLES
    part,  \* the part this behaviour exercises
    v1, v2, v3, v4, v5, v6, v7, v8, v9, v10, v11, v12, v13, v14, v15, v16,
    v17  \* its variables

Pk == INSTANCE PeerIdentity WITH pkRoot <- v1, pkClient <- v2, pkHost <- v3,
        pkKey <- v4, pkCert <- v5, pkRequest <- v6, pkCalls <- v7,
        PkKeys <- IdKeys, PkCerts <- IdCerts, PkMaxGen <- IdMaxGen
Ps == INSTANCE PeerSessions WITH pkRoot <- v1, pkClient <- v2, pkHost <- v3,
        pkKey <- v4, pkCert <- v5, pkRequest <- v6, pkCalls <- v7,
        psIntent <- v8, psReach <- v9, psPoll <- v10, psToNotify <- v11
Pn == INSTANCE PeerNetwork WITH pnCross <- v1, pnRow <- v2, pnUp <- v3,
        pnAccess <- v4, pnHeld <- v5
Rs == INSTANCE RelaySelection WITH rsState <- v1, rsTrail <- v2,
        rsAttempt <- v3
Bs == INSTANCE BrowserSessions WITH bsRow <- v1, bsJar <- v2, bsReq <- v3,
        bsDrawn <- v4, bsEnded <- v5, bsRevived <- v6
Ha == INSTANCE HostedAccess WITH daUser <- v1, daGrant <- v2,
        daSession <- v3, daToken <- v4, daMachine <- v5, daCalls <- v6,
        haAccess <- v7, haConn <- v8, haProject <- v9, haCleanup <- v10,
        haRoute <- v11, haRetry <- v12, haHelper <- v13
Ms == INSTANCE ManagedSSH WITH msPart <- v1, msOp <- v2, msSession <- v3,
        msKey <- v4, msAllowed <- v5, msFile <- v6, msMachine <- v7,
        msTarget <- v8, msSet <- v9, msOwner <- v10
Ev == INSTANCE EnvironmentVault WITH evPart <- v1, evMax <- v2, evTeam <- v3,
        evMember <- v4, evInvited <- v5, evPerms <- v6, evTeamVault <- v7,
        evHeld <- v8, evSealed <- v9, evVault <- v10, evPersonal <- v11,
        evScope <- v12, evStaged <- v13, evHost <- v14, evWatch <- v15,
        evFresh <- v16, evSpent <- v17

ASSUME Pk!PkAssumption
ASSUME Ps!PsAssumption
ASSUME Pn!PnAssumption
ASSUME Rs!RsAssumption
ASSUME Bs!BsAssumption
ASSUME Ha!DaAssumption
ASSUME Ms!MsAssumption
ASSUME Ev!EvAssumption

\* The account a machine belongs to.
OwnerOf == [m \in EvMachines |-> CHOOSE a \in EvKeyed : TRUE]

\* Keys that are replaced and replaced again, and what hosts are handed.
Keys == [epoch |-> 2, revision |-> 2, hosts |-> {}, parts |-> EvParts]
Hosts == [epoch |-> 1, revision |-> 2, hosts |-> EvMachines, parts |-> {"team"}]
Overrides == [epoch |-> 2, revision |-> 2, hosts |-> EvMachines, parts |-> {"personal"}]
VaultBounds == {Keys, Hosts, Overrides}

accessVars == <<part, v1, v2, v3, v4, v5, v6, v7, v8, v9, v10, v11, v12, v13, v14, v15, v16, v17>>

Symmetry == Permutations(PoolA) \cup Permutations(PoolB)

\* The variables a part does not need are 0.
AccessInit ==
    /\ part \in Parts
    /\ \/ part = "identity" /\ Pk!PkInit
          /\ v8 = 0 /\ v9 = 0 /\ v10 = 0 /\ v11 = 0 /\ v12 = 0 /\ v13 = 0 /\ v14 = 0 /\ v15 = 0
          /\ v16 = 0 /\ v17 = 0
       \/ part = "peers" /\ Ps!PsInit
          /\ v12 = 0 /\ v13 = 0 /\ v14 = 0 /\ v15 = 0 /\ v16 = 0 /\ v17 = 0
       \/ part = "network" /\ Pn!PnInit
          /\ v6 = 0 /\ v7 = 0 /\ v8 = 0 /\ v9 = 0 /\ v10 = 0 /\ v11 = 0 /\ v12 = 0 /\ v13 = 0
          /\ v14 = 0 /\ v15 = 0 /\ v16 = 0 /\ v17 = 0
       \/ part = "selection" /\ Rs!RsInit
          /\ v4 = 0 /\ v5 = 0 /\ v6 = 0 /\ v7 = 0 /\ v8 = 0 /\ v9 = 0 /\ v10 = 0 /\ v11 = 0
          /\ v12 = 0 /\ v13 = 0 /\ v14 = 0 /\ v15 = 0 /\ v16 = 0 /\ v17 = 0
       \/ part = "browser" /\ Bs!BsInit
          /\ v7 = 0 /\ v8 = 0 /\ v9 = 0 /\ v10 = 0 /\ v11 = 0 /\ v12 = 0 /\ v13 = 0 /\ v14 = 0
          /\ v15 = 0 /\ v16 = 0 /\ v17 = 0
       \/ part = "hosted" /\ Ha!HaInit
          /\ v14 = 0 /\ v15 = 0 /\ v16 = 0 /\ v17 = 0
       \/ part = "ssh" /\ Ms!MsInit
          /\ v11 = 0 /\ v12 = 0 /\ v13 = 0 /\ v14 = 0 /\ v15 = 0 /\ v16 = 0 /\ v17 = 0
       \/ part = "vault" /\ Ev!EvInit

AccessNext ==
    /\ UNCHANGED part
    /\ \/ part = "identity" /\ Pk!PkNext /\ UNCHANGED <<v8, v9, v10, v11, v12, v13, v14, v15, v16, v17>>
       \/ part = "peers" /\ Ps!PsNext /\ UNCHANGED <<v12, v13, v14, v15, v16, v17>>
       \/ part = "network" /\ Pn!PnNext /\ UNCHANGED <<v6, v7, v8, v9, v10, v11, v12, v13, v14, v15, v16, v17>>
       \/ part = "selection" /\ Rs!RsNext /\ UNCHANGED <<v4, v5, v6, v7, v8, v9, v10, v11, v12, v13, v14, v15, v16, v17>>
       \/ part = "browser" /\ Bs!BsNext /\ UNCHANGED <<v7, v8, v9, v10, v11, v12, v13, v14, v15, v16, v17>>
       \/ part = "hosted" /\ Ha!HaNext /\ UNCHANGED <<v14, v15, v16, v17>>
       \/ part = "ssh" /\ Ms!MsNext /\ UNCHANGED <<v11, v12, v13, v14, v15, v16, v17>>
       \/ part = "vault" /\ Ev!EvNext

AccessSpec == AccessInit /\ [][AccessNext]_accessVars

-----------------------------------------------------------------------------
(* Every part of access keeps its rows, in-flight requests and counters    *)
(* within their types.                                                     *)
AccessTypeOK ==
    /\ part = "identity" => Pk!PkTypeOK
    /\ part = "peers" => Ps!PkTypeOK /\ Ps!PsTypeOK
    /\ part = "network" => Pn!PnTypeOK
    /\ part = "selection" => Rs!RsTypeOK
    /\ part = "browser" => Bs!BsTypeOK
    /\ part = "hosted" => Ha!HaTypeOK
    /\ part = "ssh" => Ms!MsTypeOK
    /\ part = "vault" => Ev!EvTypeOK

(* Removing the machine leaves no identity of it behind, whatever was      *)
(* under way: its certificates and pending requests are revoked and stay   *)
(* so, its sessions are ended, and no key it or one of its sessions        *)
(* enrolled is trusted.                                                    *)
RemovedDeviceHasNoIdentity == part = "identity" => Pk!RemovedDeviceHasNoIdentity

(* One authenticated session owns one signing identity: whatever the order *)
(* of its bootstraps, no two keys are bound to it.                         *)
SessionOwnsOneKey == part = "identity" => Pk!SessionOwnsOneKey

(* A request yields one certificate: a fulfilled request is not signed     *)
(* again, even after its certificate was revoked.                          *)
RequestYieldsOneCertificate == part = "identity" => Pk!RequestYieldsOneCertificate

(* Once the machine is removed no attempt to reach it is open, whoever     *)
(* reserved it and whether or not the machine already holds it, and none   *)
(* is reserved afterwards.                                                 *)
RemovedDeviceHasNoIntent == part = "peers" => Ps!RemovedDeviceHasNoIntent

(* The edges are told of every withdrawal: an unexpired attempt that is    *)
(* not on the revocation list has an active session, unrevoked             *)
(* certificates, trusted keys and a machine that still exists.             *)
UnlistedAttemptIsAuthorized == part = "peers" => Ps!UnlistedAttemptIsAuthorized

(* A configuration the relays still honour tells the truth: both ends of a *)
(* withdrawn access session fall below their floors, whichever accounts    *)
(* they belong to, and within one account a peer's rotated key or revoked  *)
(* certificate does the same, so no endpoint keeps using what              *)
(* Configuration would no longer sign.                                     *)
HonouredConfigurationIsTrue == part = "network" => Pn!HonouredConfigurationIsTrue

(* No flapping: the selection leaves a region that both vectors still      *)
(* score only after uninterrupted attempts found the new one better by the *)
(* margin at three observations three seconds apart over at least ten      *)
(* seconds.                                                                *)
SwitchIsSustained == part = "selection" => Rs!SwitchIsSustained

(* A logout that found its session is final: no request, whether sent      *)
(* before or after it, is authenticated by that session or given new       *)
(* cookies of it, although a request may pass requireAuth before the       *)
(* logout and rotate the session or refresh its CSRF token after it        *)
(* (auth.go RotateSession).                                                *)
RevokedSessionStaysOut == part = "browser" => Bs!RevokedSessionStaysOut

(* A device grant is good for one client session, of the user who approved *)
(* it, however often and however concurrently the CLI polls (device.go     *)
(* Poll).                                                                  *)
GrantYieldsOneSession == part = "hosted" => Ha!GrantYieldsOneSession

(* Whatever ended a client session - logout, a replayed refresh token, the *)
(* user, the removal of its machine or the suspension of its account -     *)
(* none of its tokens is left to use, and a live family has one refresh    *)
(* token that rotates (device.go Refresh and revokeTx).                    *)
FamilyHasOneHead == part = "hosted" => Ha!FamilyHasOneHead

(* A grant approved before its user was suspended yields no session while  *)
(* the account is suspended (the status check of device.go Poll).          *)
SuspendedUserGetsNoSession == part = "hosted" => Ha!SuspendedUserGetsNoSession

(* The access sessions of a revoked client session are revoked with it,    *)
(* also when the process stops before the downstream call.                 *)
EarlierAccessEndsWithClient == part = "hosted" => Ha!EarlierAccessEndsWithClient

(* A row is marked as propagated only after the helper confirmed its       *)
(* revocation, however the passes of the retry are cut short (access.go    *)
(* RetryPendingHelperRevocations).                                         *)
MarkedIsConfirmed == part = "hosted" => Ha!MarkedIsConfirmed

(* A CLI session's key ends with the session, also when a registration is  *)
(* under way while the session is revoked (repository.go RegisterClient    *)
(* locks the session that the trigger of migration 106 acts for).          *)
KeyEndsWithSession == part = "ssh" => Ms!KeyEndsWithSession

(* A pending set always has the active set of its own installation to      *)
(* replace, so a user can promote it, whatever re-enrollments and repeated *)
(* observations came before (repository.go ObserveHost and PromoteHost).   *)
PendingAwaitsActive == part = "ssh" => Ms!PendingAwaitsActive

(* Within one installation the trusted host keys change only when a user   *)
(* promotes a set that was waiting.                                        *)
TrustChangesByPromotion == part = "ssh" => Ms!TrustChangesByPromotion

(* A bundle that a host is answered as ready (readVaultHostTx) was built   *)
(* from the scopes stored now, the machine's override included if it       *)
(* exists, none of them under a key that must be rotated, and its owner is *)
(* still authorized for each.                                              *)
ReadyProjectionIsCurrent == part = "vault" => Ev!ReadyProjectionIsCurrent

(* All scopes of an owner are under one epoch, the owner's current one: a  *)
(* rotation, which is staged scope by scope over several requests while    *)
(* others keep writing, leaves no scope behind under a key that is then    *)
(* discarded.                                                              *)
ScopesShareTheEpoch == part = "vault" => Ev!ScopesShareTheEpoch

(* A pending invitation was created by someone who may still invite: a     *)
(* demotion, a departure or a transfer of the team cancels what the        *)
(* account had sent.                                                       *)
InvitationHasAuthority == part = "vault" => Ev!InvitationHasAuthority

(* A live team has an owner who is a member, whatever roles, removals and  *)
(* rotations did.                                                          *)
TeamKeepsItsOwner == part = "vault" => Ev!TeamKeepsItsOwner

(* After a departure, a permission taken away or a revoked device, no      *)
(* scope is written under an epoch whose key went with it.                 *)
NothingWrittenUnderSpentKey == part = "vault" => Ev!NothingWrittenUnderSpentKey

(* A device has what its owner gave it and no more: a removed device keeps *)
(* no identity and no attempt, a session owns one key and a request yields *)
(* one certificate, an attempt no edge is told about is authorized,        *)
(* honoured configurations are true, and SSH keys end with their session   *)
(* (peeridentity, peersessions, managedssh).                               *)
DevicePromises ==
    /\ AccessTypeOK
    /\ RemovedDeviceHasNoIdentity
    /\ SessionOwnsOneKey
    /\ RequestYieldsOneCertificate
    /\ RemovedDeviceHasNoIntent
    /\ UnlistedAttemptIsAuthorized
    /\ HonouredConfigurationIsTrue
    /\ KeyEndsWithSession
    /\ PendingAwaitsActive

(* An account's sessions and vaults follow its authority: a revoked        *)
(* session stays out, a grant yields one session and a family one head,    *)
(* access ends with its client, a ready projection is built from the       *)
(* scopes in force, which share one epoch, and a team keeps an owner and   *)
(* only invitations of those who may invite (auth, access, environment,    *)
(* teams).                                                                 *)
AccountPromises ==
    /\ RevokedSessionStaysOut
    /\ GrantYieldsOneSession
    /\ FamilyHasOneHead
    /\ SuspendedUserGetsNoSession
    /\ EarlierAccessEndsWithClient
    /\ MarkedIsConfirmed
    /\ ReadyProjectionIsCurrent
    /\ ScopesShareTheEpoch
    /\ InvitationHasAuthority
    /\ TeamKeepsItsOwner

(* No step switches relays without a sustained advantage, changes trusted  *)
(* host keys without a promotion, or writes a vault scope under a key that *)
(* left with a member (selector.go, PromoteHost, PutVaultScope).           *)
AccessSteps ==
    [][/\ SwitchIsSustained
       /\ TrustChangesByPromotion
       /\ NothingWrittenUnderSpentKey]_accessVars
===============================================================================
