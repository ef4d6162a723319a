---------------------------- MODULE HostedAccess ----------------------------
(***************************************************************************)
(* CLI authorization and the access to a hosted project it opens.          *)
(*                                                                         *)
(* First (auth/device.go and dbsqlc/device_auth.sql.go) the device grant a *)
(* CLI polls and a user decides, and the client session it yields with its *)
(* rotating refresh tokens.  Every method is one transaction that locks    *)
(* the row it reads.  A token names an access and a refresh token drawn    *)
(* together; a request may present any token ever drawn, so a lost answer  *)
(* and a late or repeated request need no action of their own.  Refused    *)
(* requests change nothing and are left out.                               *)
(*                                                                         *)
(* Then (access/access.go and dbsqlc/access.sql.go) the access sessions    *)
(* granted to those client sessions.  A connect authenticates, looks the   *)
(* project and its helper route up, signs credentials and stores an access *)
(* session, each a step of its own; revocations run beside it, and the     *)
(* metering worker retries the revocations the helper has not confirmed.   *)
(* The signer is configured, as app.go always does, so the branches for a  *)
(* service without one are left out.                                       *)
(***************************************************************************)
EXTENDS Naturals, FiniteSets

CONSTANTS
  DaUsers, DaGrants, DaSessions, DaTokens,
  DaMachine,    \* the user machine sessions may be bound to
  DaMaxSlow,    \* bound: times a poll is told to slow down
  DaNone

DaAssumption == DaMaxSlow \in Nat

VARIABLES
  daUser,      \* [DaUsers -> status]
  daGrant,     \* device_grants
  daSession,   \* cli_client_sessions
  daToken,     \* cli_access_tokens and cli_refresh_tokens
  daMachine,   \* the machine row is not deleted
  daCalls      \* client sessions whose downstream revocation is under way

daVars == <<daUser, daGrant, daSession, daToken, daMachine, daCalls>>

\* early: the next poll is not due yet; late: expires_at has passed.
NoDeviceGrant == [state |-> "none", user |-> DaNone, early |-> FALSE, late |-> FALSE, slow |-> 0]

\* grant: the device grant the session came from (none: an enrollment).
NoClientSession == [state |-> "none", user |-> DaNone, grant |-> DaNone, machine |-> DaNone]

NoClientToken == [session |-> DaNone, access |-> "none", refresh |-> "none"]

DaInit ==
  /\ daUser = [u \in DaUsers |-> "active"]
  /\ daGrant = [g \in DaGrants |-> NoDeviceGrant]
  /\ daSession = [s \in DaSessions |-> NoClientSession]
  /\ daToken = [t \in DaTokens |-> NoClientToken]
  /\ daMachine = TRUE
  /\ daCalls = {}

OpenGrant(g) == daGrant[g].state \in {"pending", "approved"}

---------------------------------------------------------------------------
\* Queries on device_grants.

CreateDeviceGrant(g) ==
  /\ daGrant[g].state = "none"
  /\ daGrant' = [daGrant EXCEPT ![g].state = "pending"]

ApproveDeviceGrant(g, u) ==
  /\ daGrant[g].state = "pending"
  /\ daGrant' = [daGrant EXCEPT ![g].state = "approved", ![g].user = u]

DenyDeviceGrant(g, u) ==
  /\ daGrant[g].state = "pending"
  /\ daGrant' = [daGrant EXCEPT ![g].state = "denied", ![g].user = u]

DenyApprovedDeviceGrant(g) ==
  /\ daGrant[g].state = "approved"
  /\ daGrant' = [daGrant EXCEPT ![g].state = "denied"]

ExpireDeviceGrant(g) ==
  /\ OpenGrant(g)
  /\ daGrant' = [daGrant EXCEPT ![g].state = "expired"]

ExpireDeviceGrantWithoutVersion(g) ==
  /\ OpenGrant(g)
  /\ daGrant' = [daGrant EXCEPT ![g].state = "expired"]

SlowDeviceGrantPoll(g) ==
  /\ daGrant[g].slow < DaMaxSlow
  /\ daGrant' = [daGrant EXCEPT ![g].slow = @ + 1]

AdvanceDeviceGrantPoll(g) == [daGrant EXCEPT ![g].early = TRUE]

ConsumeDeviceGrant(g) ==
  /\ daGrant[g].state = "approved"
  /\ daGrant' = [AdvanceDeviceGrantPoll(g) EXCEPT ![g].state = "consumed"]

GetDeviceGrantForPoll(g) == daGrant[g]

GetDeviceGrantForDecision(g) == daGrant[g]

GetUserStatus(u) == daUser[u]

---------------------------------------------------------------------------
\* Queries on client sessions and tokens.

CreateClientSession(s, u, g, m) ==
  /\ daSession[s].state = "none"
  /\ daSession' = [daSession EXCEPT ![s] =
                     [state |-> "active", user |-> u, grant |-> g, machine |-> m]]

\* CreateClientAccessToken and CreateClientRefreshToken of one answer.
CreateClientRefreshToken(tokens, t, s) ==
  [tokens EXCEPT ![t] = [session |-> s, access |-> "live", refresh |-> "active"]]

MarkClientRefreshTokenRotated(tokens, t) == [tokens EXCEPT ![t].refresh = "rotated"]

\* FOR UPDATE of the token and its session.
GetClientRefreshTokenForUpdate(t) == daToken[t]

FindClientSessionByToken(t) == daToken[t].session

RevokeClientSession(sids) ==
  [s \in DaSessions |-> IF s \in sids THEN [daSession[s] EXCEPT !.state = "revoked"] ELSE daSession[s]]

RevokeClientAccessTokens(tokens, sids) ==
  [t \in DaTokens |-> IF tokens[t].session \in sids
                      THEN [tokens[t] EXCEPT !.access = "revoked"] ELSE tokens[t]]

RevokeClientRefreshTokens(tokens, sids) ==
  [t \in DaTokens |-> IF tokens[t].session \in sids
                      THEN [tokens[t] EXCEPT !.refresh = "revoked"] ELSE tokens[t]]

GetClientSessionOwnerForUpdate(s) == daSession[s].user

BindCLIClientSessionToUserMachine(s) ==
  /\ daSession[s].state = "active" /\ daSession[s].machine \in {DaNone, DaMachine}
  /\ daMachine
  /\ daSession' = [daSession EXCEPT ![s].machine = DaMachine]

OfMachine == {s \in DaSessions : daSession[s].machine = DaMachine}

RevokeCLIClientSessionsForUserMachine ==
  daSession' = RevokeClientSession({s \in OfMachine : daSession[s].state = "active"})

RevokeCLIClientAccessTokensForUserMachine(tokens) ==
  [t \in DaTokens |-> IF tokens[t].session \in OfMachine
                      THEN [tokens[t] EXCEPT !.access = "revoked"] ELSE tokens[t]]

RevokeCLIClientRefreshTokensForUserMachine(tokens) ==
  [t \in DaTokens |-> IF tokens[t].session \in OfMachine
                      THEN [tokens[t] EXCEPT !.refresh = "revoked"] ELSE tokens[t]]

\* A bearer is accepted while its access token, session and user all stand.
AuthenticateClientAccessToken(t) ==
  /\ daToken[t].access = "live"
  /\ daSession[daToken[t].session].state = "active"
  /\ daUser[daSession[daToken[t].session].user] = "active"

---------------------------------------------------------------------------
\* DeviceService.

Authorize(g) ==
  /\ CreateDeviceGrant(g)
  /\ UNCHANGED <<daUser, daSession, daToken, daMachine, daCalls>>

\* The order of the checks is the code's: expiry, terminal states, the
\* user's status, the poll interval, and only then the tokens.
Poll(g) ==
  LET grant == GetDeviceGrantForPoll(g) IN
  /\ \/ /\ grant.late
        /\ ExpireDeviceGrant(g)
        /\ UNCHANGED <<daSession, daToken>>
     \/ /\ ~grant.late /\ grant.state = "approved" /\ GetUserStatus(grant.user) # "active"
        /\ DenyApprovedDeviceGrant(g)
        /\ UNCHANGED <<daSession, daToken>>
     \/ /\ ~grant.late /\ OpenGrant(g) /\ grant.early
        /\ grant.state = "approved" => GetUserStatus(grant.user) = "active"
        /\ SlowDeviceGrantPoll(g)
        /\ UNCHANGED <<daSession, daToken>>
     \/ /\ ~grant.late /\ grant.state = "pending" /\ ~grant.early
        /\ daGrant' = AdvanceDeviceGrantPoll(g)
        /\ UNCHANGED <<daSession, daToken>>
     \/ /\ ~grant.late /\ grant.state = "approved" /\ ~grant.early
        /\ GetUserStatus(grant.user) = "active"
        /\ \E s \in DaSessions, t \in DaTokens :
             /\ daToken[t].session = DaNone
             /\ CreateClientSession(s, grant.user, g, DaNone)
             /\ daToken' = CreateClientRefreshToken(daToken, t, s)
        /\ ConsumeDeviceGrant(g)
  /\ UNCHANGED <<daUser, daMachine, daCalls>>

Decide(g, u) ==
  /\ GetUserStatus(u) = "active"
  /\ \/ GetDeviceGrantForDecision(g).late /\ ExpireDeviceGrantWithoutVersion(g)
     \/ ~GetDeviceGrantForDecision(g).late /\ (ApproveDeviceGrant(g, u) \/ DenyDeviceGrant(g, u))
  /\ UNCHANGED <<daUser, daSession, daToken, daMachine, daCalls>>

\* Ends the session and every token of its family.
revokeTx(s) ==
  /\ daSession' = RevokeClientSession({s})
  /\ daToken' = RevokeClientRefreshTokens(RevokeClientAccessTokens(daToken, {s}), {s})

\* A refresh token that is not active revokes its whole family.
Refresh(t) ==
  LET stored == GetClientRefreshTokenForUpdate(t) IN
  /\ stored.session # DaNone
  /\ IF stored.refresh # "active"
     THEN /\ revokeTx(stored.session)
          /\ daCalls' = daCalls \cup {stored.session}
     ELSE /\ \E n \in DaTokens :
               /\ daToken[n].session = DaNone
               /\ daToken' = CreateClientRefreshToken(MarkClientRefreshTokenRotated(daToken, t), n, stored.session)
          /\ UNCHANGED <<daSession, daCalls>>
  /\ UNCHANGED <<daUser, daGrant, daMachine>>

RevokeToken(t) ==
  /\ daToken[t].session # DaNone
  /\ revokeTx(FindClientSessionByToken(t))
  /\ daCalls' = daCalls \cup {FindClientSessionByToken(t)}
  /\ UNCHANGED <<daUser, daGrant, daMachine>>

RevokeClient(s, u) ==
  /\ daSession[s].state # "none"
  /\ GetClientSessionOwnerForUpdate(s) = u
  /\ revokeTx(s)
  /\ daCalls' = daCalls \cup {s}
  /\ UNCHANGED <<daUser, daGrant, daMachine>>

---------------------------------------------------------------------------
\* The machine side: an installation's own session, and the machine's end.

persistInstallationCLISessionTx(s, t, u) ==
  /\ daMachine
  /\ daToken[t].session = DaNone
  /\ CreateClientSession(s, u, DaNone, DaMachine)
  /\ daToken' = CreateClientRefreshToken(daToken, t, s)
  /\ UNCHANGED <<daUser, daGrant, daMachine, daCalls>>

BindsClientToMachine(s) ==
  /\ BindCLIClientSessionToUserMachine(s)
  /\ UNCHANGED <<daUser, daGrant, daToken, daMachine, daCalls>>

RemovesMachine ==
  /\ daMachine
  /\ RevokeCLIClientSessionsForUserMachine
  /\ daToken' = RevokeCLIClientRefreshTokensForUserMachine(RevokeCLIClientAccessTokensForUserMachine(daToken))
  /\ daMachine' = FALSE
  /\ UNCHANGED <<daUser, daGrant, daCalls>>

\* An operator suspends or restores a user; the trigger of migration 039
\* ends the user's sessions in the same transaction.
UserStatusChanges(u) ==
  LET mine == {s \in DaSessions : daSession[s].user = u} IN
  /\ \/ /\ daUser[u] = "active"
        /\ daUser' = [daUser EXCEPT ![u] = "suspended"]
        /\ daSession' = RevokeClientSession({s \in mine : daSession[s].state = "active"})
        /\ daToken' = RevokeClientRefreshTokens(RevokeClientAccessTokens(daToken, mine), mine)
     \/ /\ daUser[u] = "suspended"
        /\ daUser' = [daUser EXCEPT ![u] = "active"]
        /\ UNCHANGED <<daSession, daToken>>
  /\ UNCHANGED <<daGrant, daMachine, daCalls>>

\* Time passes for a grant.
GrantAges(g) ==
  /\ OpenGrant(g) /\ ~daGrant[g].late
  /\ daGrant' = IF daGrant[g].early THEN [daGrant EXCEPT ![g].early = FALSE]
                ELSE [daGrant EXCEPT ![g].late = TRUE]
  /\ UNCHANGED <<daUser, daSession, daToken, daMachine, daCalls>>

DaStep ==
  \/ \E g \in DaGrants : Authorize(g) \/ Poll(g) \/ GrantAges(g)
  \/ \E g \in DaGrants, u \in DaUsers : Decide(g, u)
  \/ \E t \in DaTokens : Refresh(t) \/ RevokeToken(t)
  \/ \E s \in DaSessions, u \in DaUsers : RevokeClient(s, u)
  \/ \E s \in DaSessions, t \in DaTokens, u \in DaUsers : persistInstallationCLISessionTx(s, t, u)
  \/ \E s \in DaSessions : BindsClientToMachine(s)
  \/ RemovesMachine
  \/ \E u \in DaUsers : UserStatusChanges(u)

---------------------------------------------------------------------------
\* The state has its shape.
DaTypeOK ==
  /\ \A g \in DaGrants : daGrant[g].state \in {"none", "pending", "approved", "denied", "expired", "consumed"}
  /\ \A s \in DaSessions : daSession[s].state \in {"none", "active", "revoked"}
  /\ \A t \in DaTokens : /\ daToken[t].access \in {"none", "live", "revoked"}
                         /\ daToken[t].refresh \in {"none", "active", "rotated", "revoked"}
  /\ daCalls \subseteq DaSessions

\* A device grant is good for one client session, of the user who approved
\* it, however often and however concurrently the CLI polls (device.go Poll).
GrantYieldsOneSession ==
  \A s \in DaSessions : daSession[s].grant # DaNone =>
    /\ daGrant[daSession[s].grant].state = "consumed"
    /\ daGrant[daSession[s].grant].user = daSession[s].user
    /\ \A o \in DaSessions \ {s} : daSession[o].grant # daSession[s].grant

\* Whatever ended a client session - logout, a replayed refresh token, the
\* user, the removal of its machine or the suspension of its account - none
\* of its tokens is left to use, and a live family has one refresh token that
\* rotates (device.go Refresh and revokeTx).
FamilyHasOneHead ==
  \A s \in DaSessions :
    /\ daSession[s].state = "revoked" =>
         \A t \in DaTokens : daToken[t].session = s =>
           daToken[t].access = "revoked" /\ daToken[t].refresh = "revoked"
    /\ Cardinality({t \in DaTokens : daToken[t].session = s /\ daToken[t].refresh = "active"}) <= 1

\* A grant approved before its user was suspended yields no session while the
\* account is suspended (the status check of device.go Poll).
SuspendedUserGetsNoSession ==
  \A s \in DaSessions : daSession[s].grant # DaNone /\ daSession[s].state = "active" =>
    daUser[daSession[s].user] = "active"

---------------------------------------------------------------------------
(* Access to a hosted project.                                             *)

CONSTANTS HaAccess, HaRequests

VARIABLES
  haAccess,    \* access_sessions
  haConn,      \* [HaRequests -> a connect under way]
  haProject,   \* "running", "stopped" or "deleted"
  haCleanup,   \* the handler that stopped the project still has to revoke
  haRoute,     \* the helper route is active
  haRetry,     \* access sessions of the retry pass under way
  haHelper     \* access sessions whose revocation the helper confirmed

haVars == <<haAccess, haConn, haProject, haCleanup, haRoute, haRetry, haHelper>>
accessVars == <<daVars, haVars>>

\* late: the client session was already revoked when the row was stored.
NoAccessSession ==
  [state |-> "none", client |-> DaNone, user |-> DaNone, marked |-> FALSE, late |-> FALSE]

NoConnect == [step |-> "idle", client |-> DaNone, user |-> DaNone]

HaInit ==
  /\ DaInit
  /\ haAccess = [a \in HaAccess |-> NoAccessSession]
  /\ haConn = [r \in HaRequests |-> NoConnect]
  /\ haProject = "running"
  /\ haCleanup = FALSE
  /\ haRoute = FALSE
  /\ haRetry = {}
  /\ haHelper = {}

---------------------------------------------------------------------------
\* Queries on access_sessions.

CreateAccessSession(a, conn) ==
  /\ haAccess[a].state = "none"
  /\ haAccess' = [haAccess EXCEPT ![a] =
       [state |-> "active", client |-> conn.client, user |-> conn.user,
        marked |-> FALSE, late |-> daSession[conn.client].state = "revoked"]]

HaEnds(rows) ==
  [a \in HaAccess |-> IF a \in rows /\ haAccess[a].state = "active"
                      THEN [haAccess[a] EXCEPT !.state = "revoked"] ELSE haAccess[a]]

RevokeClientAccessSessions(s) == haAccess' = HaEnds({a \in HaAccess : haAccess[a].client = s})

RevokeUserAccessSessions(u) == haAccess' = HaEnds({a \in HaAccess : haAccess[a].user = u})

RevokeProjectAccessSessions == haAccess' = HaEnds(HaAccess)

ListPendingHelperRevocations ==
  {a \in HaAccess : haAccess[a].state = "revoked" /\ ~haAccess[a].marked}

MarkAccessSessionHelperRevocationPropagated(a) ==
  haAccess' = [haAccess EXCEPT ![a].marked = (haAccess[a].state = "revoked")]

\* Migration 010: a client session that is revoked takes its access sessions
\* along, in the transaction that revokes it.
RevokeAccessOnClientRevocation ==
  haAccess' = HaEnds({a \in HaAccess :
    /\ haAccess[a].client # DaNone
    /\ daSession[haAccess[a].client].state = "active"
    /\ daSession'[haAccess[a].client].state = "revoked"})

---------------------------------------------------------------------------
\* Connect.

requireAnyAuth(r) ==
  /\ haConn[r].step = "idle"
  /\ \E t \in DaTokens :
       /\ daToken[t].session # DaNone /\ AuthenticateClientAccessToken(t)
       /\ haConn' = [haConn EXCEPT ![r] =
            [step |-> "authenticated", client |-> daToken[t].session,
             user |-> daSession[daToken[t].session].user]]
  /\ UNCHANGED <<haAccess, haProject, haCleanup, haRoute, haRetry, haHelper>>

\* The project is read and its state, credits and config are checked; a
\* refused connect ends here.
Connect(r) ==
  /\ haConn[r].step = "authenticated"
  /\ haConn' = IF haProject # "deleted" THEN [haConn EXCEPT ![r].step = "checked"]
               ELSE [haConn EXCEPT ![r] = NoConnect]
  /\ UNCHANGED <<haAccess, haProject, haCleanup, haRoute, haRetry, haHelper>>

\* A stopped project is started; the client is told to come back while the
\* helper's route is not active.
connectCanonicalHosted(r) ==
  /\ haConn[r].step = "checked"
  /\ haConn' = IF haRoute THEN [haConn EXCEPT ![r].step = "routed"]
               ELSE [haConn EXCEPT ![r] = NoConnect]
  /\ haProject' = IF haProject = "stopped" THEN "running" ELSE haProject
  /\ UNCHANGED <<haAccess, haCleanup, haRoute, haRetry, haHelper>>

\* The credentials are signed and the session is stored.
StoresAccessSession(r) ==
  /\ haConn[r].step = "routed"
  /\ \E a \in HaAccess : CreateAccessSession(a, haConn[r])
  /\ haConn' = [haConn EXCEPT ![r] = NoConnect]
  /\ UNCHANGED <<haProject, haCleanup, haRoute, haRetry, haHelper>>

---------------------------------------------------------------------------
\* Revocations.

\* The call DeviceService makes after its transaction committed.
RevokeClientSessions(s) ==
  /\ s \in daCalls
  /\ RevokeClientAccessSessions(s)
  /\ daCalls' = daCalls \ {s}
  /\ UNCHANGED <<daUser, daGrant, daSession, daToken, daMachine>>
  /\ UNCHANGED <<haConn, haProject, haCleanup, haRoute, haRetry, haHelper>>

\* The process stops before it made the call.
ClientCallDropped(s) ==
  /\ s \in daCalls
  /\ daCalls' = daCalls \ {s}
  /\ UNCHANGED <<daUser, daGrant, daSession, daToken, daMachine, haVars>>

\* A browser's logout ends the user's access sessions.
RevokeUserSessions(u) ==
  /\ daUser[u] = "active"
  /\ RevokeUserAccessSessions(u)
  /\ UNCHANGED <<haConn, haProject, haCleanup, haRoute, haRetry, haHelper>>

\* The project is stopped or deleted, and the handler then ends its sessions.
ProjectStops(state) ==
  /\ haProject = "running" \/ (haProject = "stopped" /\ state = "deleted")
  /\ haProject' = state /\ haCleanup' = TRUE
  /\ UNCHANGED <<haAccess, haConn, haRoute, haRetry, haHelper>>

RevokeProjectSessions ==
  /\ haCleanup
  /\ RevokeProjectAccessSessions
  /\ haCleanup' = FALSE
  /\ UNCHANGED <<haConn, haProject, haRoute, haRetry, haHelper>>

\* The process stops before the handler revoked.
ProjectCallDropped ==
  /\ haCleanup
  /\ haCleanup' = FALSE
  /\ UNCHANGED <<haAccess, haConn, haProject, haRoute, haRetry, haHelper>>

\* The helper's route comes up, or goes down.
HelperRouteChanges ==
  /\ haRoute \/ haProject = "running"
  /\ haRoute' = ~haRoute
  /\ UNCHANGED <<haAccess, haConn, haProject, haCleanup, haRetry, haHelper>>

---------------------------------------------------------------------------
\* The metering worker's pass over unconfirmed revocations.

RetryPendingHelperRevocations ==
  /\ haRetry = {}
  /\ ListPendingHelperRevocations # {}
  /\ haRetry' = ListPendingHelperRevocations
  /\ UNCHANGED <<haAccess, haConn, haProject, haCleanup, haRoute, haHelper>>

\* revokeHelperSessions on one row: the call fails, or succeeds and the row
\* is marked, or the mark is lost with the process.
revokeHelperSessions(a) ==
  /\ a \in haRetry
  /\ \/ UNCHANGED <<haHelper, haAccess>>
     \/ haHelper' = haHelper \cup {a} /\ UNCHANGED haAccess
     \/ haHelper' = haHelper \cup {a} /\ MarkAccessSessionHelperRevocationPropagated(a)
  /\ haRetry' = haRetry \ {a}
  /\ UNCHANGED <<haConn, haProject, haCleanup, haRoute>>

HaStep ==
  \/ \E r \in HaRequests : requireAnyAuth(r) \/ Connect(r) \/ connectCanonicalHosted(r) \/ StoresAccessSession(r)
  \/ \E u \in DaUsers : RevokeUserSessions(u)
  \/ \E state \in {"stopped", "deleted"} : ProjectStops(state)
  \/ RevokeProjectSessions \/ ProjectCallDropped \/ HelperRouteChanges
  \/ RetryPendingHelperRevocations
  \/ \E a \in HaAccess : revokeHelperSessions(a)

HaNext ==
  \/ /\ DaStep
     /\ RevokeAccessOnClientRevocation
     /\ UNCHANGED <<haConn, haProject, haCleanup, haRoute, haRetry, haHelper>>
  \/ HaStep /\ UNCHANGED daVars
  \/ \E s \in DaSessions : RevokeClientSessions(s) \/ ClientCallDropped(s)

HaSpec == HaInit /\ [][HaNext]_accessVars

---------------------------------------------------------------------------
\* The state has its shape.
HaTypeOK ==
  /\ DaTypeOK
  /\ \A a \in HaAccess : haAccess[a].state \in {"none", "active", "revoked"}
  /\ \A r \in HaRequests : haConn[r].step \in {"idle", "authenticated", "checked", "routed"}
  /\ haProject \in {"running", "stopped", "deleted"} /\ haCleanup \in BOOLEAN /\ haRoute \in BOOLEAN
  /\ haRetry \subseteq HaAccess /\ haHelper \subseteq HaAccess

\* The access sessions of a revoked client session are revoked with it, also
\* when the process stops before the downstream call; the only exception is a
\* connect that was authenticated before the revocation and stored its
\* session after it (access.go CreateAccessSession checks no client session).
EarlierAccessEndsWithClient ==
  \A a \in HaAccess :
    /\ haAccess[a].state = "active" /\ haAccess[a].client # DaNone
    /\ daSession[haAccess[a].client].state = "revoked"
    => haAccess[a].late

\* A row is marked as propagated only after the helper confirmed its
\* revocation, however the passes of the retry are cut short (access.go
\* RetryPendingHelperRevocations).
MarkedIsConfirmed ==
  \A a \in HaAccess : haAccess[a].marked => haAccess[a].state = "revoked" /\ a \in haHelper
============================================================================
