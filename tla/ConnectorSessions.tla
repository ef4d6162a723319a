------------------------- MODULE ConnectorSessions -------------------------
(* Tunnel connectors and their control sessions: enrollment and its        *)
(* exchange for a credential generation and a reserved process generation, *)
(* the durable session rows behind every control connection, and the drain *)
(* and revoke operations the dispatcher delivers over the current session. *)
(*                                                                         *)
(* internal/tunnelv1/resources_repository.go holds the requests of the API *)
(* and internal/connectorprotocol/{sql_store,persistence,session,          *)
(* drain_dispatcher,transport}.go the control sessions.  A transaction is  *)
(* one step; what a connection holds in memory (cnLink) and what the       *)
(* database holds (cnSess and the rest) change in separate steps.  The     *)
(* tunnel stays live and the host's machine stays usable throughout; any   *)
(* server replica may serve a connection, so the in-memory registry of one *)
(* replica is left to ConnectorChannel.                                    *)
EXTENDS Naturals, FiniteSets

CONSTANTS CnConnectors,     \* connectors, one per host of the tunnel
          CnEnrollments,    \* enrollments that may be issued
          CnOps,            \* operation ids of the API's requests
          CnSessions,       \* control connections: one hello, one session id
          CnMaxCred,        \* bound on a connector's credential generation
          CnMaxProc,        \* bound on the process generations presented
          CnMaxConfig,      \* bound on the tunnel's configuration generation
          CnScopes,         \* how much of each of the above a behaviour uses
          CnNone

CnAssumption == /\ CnMaxCred \in Nat \ {0} /\ CnMaxProc \in Nat \ {0}
                /\ CnMaxConfig \in Nat \ {0}
                /\ CnScopes \subseteq [enrollments : SUBSET CnEnrollments, ops : SUBSET CnOps,
                                 sessions : SUBSET CnSessions, configs : 1..CnMaxConfig]
                /\ CnNone \notin CnOps \cup CnSessions \cup CnConnectors

VARIABLES cnScope,    \* the bounds this behaviour keeps to
          cnConn,     \* tunnel_connectors
          cnCred,     \* tunnel_connector_credential_generations
          cnEnr,      \* tunnel_connector_enrollments
          cnOps,      \* operations, with the activation reserved for each
          cnSess,     \* tunnel_connector_sessions
          cnSeen,     \* nonces of the hellos reserved so far
          cnLink,     \* the connections, as the serving process sees them
          cnConfig    \* tunnel_config_generations.activation_state

cnVars == <<cnScope, cnConn, cnCred, cnEnr, cnOps, cnSess, cnSeen, cnLink, cnConfig>>

NoConnectorRow == [desired |-> "none", drain |-> "accepting", rot |-> 0, last |-> CnNone]
NoCredential == [state |-> "none", op |-> CnNone]
NoEnrollment == [host |-> CnNone, state |-> "none"]
NoOperation == [kind |-> "none", conn |-> CnNone, state |-> "none", proc |-> 0]
NoSession == [state |-> "none", applied |-> 0, lease |-> FALSE]
NoLink == [phase |-> "none", conn |-> CnNone, proc |-> 0, cred |-> 0, gen |-> 0,
           mem |-> "awaiting_snapshot", drain |-> CnNone, sent |-> "none"]

LiveSession == {"authenticating", "ready", "draining"}
OpenOperation == {"pending", "running", "uncertain"}
Settled == {"succeeded", "failed"}

CnInit == /\ cnScope \in CnScopes
          /\ cnConn = [c \in CnConnectors |-> NoConnectorRow]
          /\ cnCred = [c \in CnConnectors |-> [g \in 1..CnMaxCred |-> NoCredential]]
          /\ cnEnr = [e \in CnEnrollments |-> NoEnrollment]
          /\ cnOps = [o \in CnOps |-> NoOperation]
          /\ cnSess = [s \in CnSessions |-> NoSession]
          /\ cnSeen = {}
          /\ cnLink = [s \in CnSessions |-> NoLink]
          /\ cnConfig = [g \in 1..CnMaxConfig |-> IF g = 1 THEN "pending" ELSE "none"]

HighestOf(S) == CHOOSE n \in S \cup {0} : \A m \in S : m <= n
SessionsOf(c) == {s \in CnSessions : cnSess[s].state # "none" /\ cnLink[s].conn = c}

---------------------------------------------------------------------------
(* The API: enrollment, exchange, drain and revoke.                        *)

CreateTunnelConnectorEnrollmentV1(e, c) ==
    cnEnr' = [cnEnr EXCEPT ![e] = [host |-> c, state |-> "issued"]]

\* The operation of an issued enrollment completes in the same transaction; its
\* token is never stored, so a repeated request is refused.
IssueConnectorEnrollment(e, c) ==
    /\ cnEnr[e] = NoEnrollment
    /\ CreateTunnelConnectorEnrollmentV1(e, c)
    /\ UNCHANGED <<cnConn, cnCred, cnOps, cnSess, cnSeen, cnLink, cnConfig>>

IssueEnrollment(e) == \E c \in CnConnectors : IssueConnectorEnrollment(e, c)

EnrollmentExpires(e) ==
    /\ cnEnr[e].state = "issued"
    /\ cnEnr' = [cnEnr EXCEPT ![e].state = "expired"]
    /\ UNCHANGED <<cnConn, cnCred, cnOps, cnSess, cnSeen, cnLink, cnConfig>>

GetTunnelConnectorByHostForUpdateV1(c) == cnConn[c]

CreateTunnelConnectorV1(c) ==
    [desired |-> "active", drain |-> "accepting", rot |-> 1, last |-> CnNone]

ReactivateTunnelConnectorV1(c) ==
    [cnConn[c] EXCEPT !.desired = "active", !.drain = "accepting", !.rot = @ + 1]

MarkTunnelConnectorCredentialOverlapV1(c, g) ==
    [h \in 1..CnMaxCred |->
        IF h < g /\ cnCred[c][h].state = "active"
        THEN [cnCred[c][h] EXCEPT !.state = "overlap"] ELSE cnCred[c][h]]

CreateTunnelConnectorCredentialGenerationV1(c, g, o) ==
    cnCred' = [cnCred EXCEPT ![c] =
        [MarkTunnelConnectorCredentialOverlapV1(c, g) EXCEPT
            ![g] = [state |-> "active", op |-> o]]]

MarkTunnelConnectorEnrollmentConsumedV1(e) ==
    cnEnr' = [cnEnr EXCEPT ![e].state = "consumed"]

\* One past every process generation a session or an activation of the connector
\* has had.
reserveConnectorActivation(c) ==
    HighestOf({cnLink[s].proc : s \in SessionsOf(c)}
                \cup {cnOps[o].proc : o \in {x \in CnOps : cnOps[x].conn = c}}) + 1

\* A repeated exchange finds its operation and its activation and changes nothing.
ExchangeConnectorEnrollment(e, o) ==
    LET c == cnEnr[e].host IN
    /\ cnEnr[e].state = "issued"
    /\ cnOps[o] = NoOperation
    /\ GetTunnelConnectorByHostForUpdateV1(c).desired \in {"none", "revoked"}
    /\ cnConn[c].rot < CnMaxCred
    /\ reserveConnectorActivation(c) <= CnMaxProc
    /\ cnConn' = [cnConn EXCEPT ![c] = IF @ = NoConnectorRow
                                         THEN CreateTunnelConnectorV1(c)
                                         ELSE ReactivateTunnelConnectorV1(c)]
    /\ CreateTunnelConnectorCredentialGenerationV1(c, cnConn[c].rot + 1, o)
    /\ MarkTunnelConnectorEnrollmentConsumedV1(e)
    /\ cnOps' = [cnOps EXCEPT ![o] = [kind |-> "exchange", conn |-> c, state |-> "running",
                                      proc |-> reserveConnectorActivation(c)]]
    /\ UNCHANGED <<cnSess, cnSeen, cnLink, cnConfig>>

ExchangeEnrollment(e) == \E o \in cnScope.ops : ExchangeConnectorEnrollment(e, o)

DrainTunnelConnectorV1(c) ==
    cnConn' = [cnConn EXCEPT ![c] = IF @.desired = "active"
                                      THEN [@ EXCEPT !.desired = "draining", !.drain = "draining"]
                                      ELSE @]

RevokeTunnelConnectorV1(c) ==
    cnConn' = [cnConn EXCEPT ![c].desired = "revoked", ![c].drain = "forced_closed"]

\* The request's operation stays running until the drain has been delivered.
mutateConnector(c, o, kind) ==
    /\ cnOps[o] = NoOperation
    /\ cnConn[c].desired \notin {"none", "revoked"}
    /\ \/ kind = "drain" /\ DrainTunnelConnectorV1(c)
       \/ kind = "revoke" /\ RevokeTunnelConnectorV1(c)
    /\ cnOps' = [cnOps EXCEPT ![o] = [kind |-> kind, conn |-> c, state |-> "running", proc |-> 0]]
    /\ UNCHANGED <<cnCred, cnEnr, cnSess, cnSeen, cnLink, cnConfig>>

DrainConnector(c, o) == mutateConnector(c, o, "drain")
RevokeConnector(c, o) == mutateConnector(c, o, "revoke")

\* A configuration change of the tunnel adds the next generation.
ConfigurationChanges ==
    \E g \in 2..cnScope.configs :
        /\ cnConfig[g] = "none" /\ cnConfig[g - 1] # "none"
        /\ cnConfig' = [cnConfig EXCEPT ![g] = "pending"]
        /\ UNCHANGED <<cnConn, cnCred, cnEnr, cnOps, cnSess, cnSeen, cnLink>>

\* A credential generation passes its valid_until.
CredentialLapses(c, g) ==
    /\ cnCred[c][g].state \in {"active", "overlap"}
    /\ cnCred' = [cnCred EXCEPT ![c][g].state = "lapsed"]
    /\ UNCHANGED <<cnConn, cnEnr, cnOps, cnSess, cnSeen, cnLink, cnConfig>>

---------------------------------------------------------------------------
(* Accepting a connection: authenticate, read the snapshot, create the row. *)

loadProofMaterial(c, g) ==
    /\ cnConn[c].desired \notin {"none", "revoked"}
    /\ cnCred[c][g].state \in {"active", "overlap"}

reserveControlReplay(s) == s \notin cnSeen /\ cnSeen' = cnSeen \cup {s}

AuthenticateConnector(s, c, g, p) ==
    /\ cnLink[s].phase = "none"
    /\ loadProofMaterial(c, g)
    /\ reserveControlReplay(s)
    /\ cnLink' = [cnLink EXCEPT ![s] = [NoLink EXCEPT !.phase = "authenticated",
                                          !.conn = c, !.cred = g, !.proc = p]]
    /\ UNCHANGED <<cnConn, cnCred, cnEnr, cnOps, cnSess, cnConfig>>

NewestConfig == HighestOf({g \in 1..CnMaxConfig : cnConfig[g] # "none"})

ReadSnapshot(s) ==
    /\ cnLink[s].phase = "authenticated"
    /\ cnLink' = [cnLink EXCEPT ![s].phase = "admitted", ![s].gen = NewestConfig]
    /\ UNCHANGED <<cnConn, cnCred, cnEnr, cnOps, cnSess, cnSeen, cnConfig>>

\* The connector and its credential are checked again under the row locks, and
\* the process generation must be newer than that of every stored session.
Admissible(s) ==
    LET l == cnLink[s] IN
    /\ loadProofMaterial(l.conn, l.cred)
    /\ \A t \in SessionsOf(l.conn) : cnLink[t].proc < l.proc

ReplacesSessions(s) ==
    [t \in CnSessions |->
        IF t = s THEN [state |-> "authenticating", applied |-> 0, lease |-> TRUE]
        ELSE IF t \in SessionsOf(cnLink[s].conn) /\ cnSess[t].state \in LiveSession
             THEN [cnSess[t] EXCEPT !.state = "disconnected"]
             ELSE cnSess[t]]

createConnectorSession(s) ==
    /\ cnSess' = ReplacesSessions(s)
    /\ cnConn' = [cnConn EXCEPT ![cnLink[s].conn].last = s]

Accept(s) ==
    /\ cnLink[s].phase = "admitted"
    /\ \/ /\ Admissible(s)
          /\ createConnectorSession(s)
          /\ cnLink' = [cnLink EXCEPT ![s].phase = "open"]
       \/ /\ ~Admissible(s)
          /\ cnLink' = [cnLink EXCEPT ![s].phase = "gone"]
          /\ UNCHANGED <<cnConn, cnSess>>
    /\ UNCHANGED <<cnCred, cnEnr, cnOps, cnSeen, cnConfig>>

---------------------------------------------------------------------------
(* Frames of an open connection: memory first, then the row.               *)

lockSession(s) == cnSess[s].state \in LiveSession /\ cnSess[s].lease

\* Whatever the database refuses closes the connection: failClosed.
failClosed(s) ==
    /\ cnLink' = [cnLink EXCEPT ![s].phase = "closing"]
    /\ UNCHANGED <<cnConn, cnOps, cnSess, cnConfig>>

AnyExchange(s) ==
    {o \in CnOps : /\ cnOps[o].kind = "exchange" /\ cnOps[o].conn = cnLink[s].conn
                   /\ cnOps[o].state \in OpenOperation}

\* The open exchange whose credential generation the session authenticated with.
SourceOperation(s) ==
    {o \in AnyExchange(s) : cnCred[cnLink[s].conn][cnLink[s].cred].op = o}

updateConnectorOperation(s, state) ==
    cnOps' = [o \in CnOps |-> IF o \in SourceOperation(s)
                                THEN [cnOps[o] EXCEPT !.state = state] ELSE cnOps[o]]
updateConnectorOperationFailure(s) == updateConnectorOperation(s, "failed")
updateConnectorOperationRecovery(s) == updateConnectorOperation(s, "running")

RecordApplied(s, status) ==
    \/ /\ status = "applied"
       /\ cnSess' = [cnSess EXCEPT ![s].applied = cnLink[s].gen]
       /\ updateConnectorOperation(s, "running")
    \/ /\ status = "rejected"
       /\ updateConnectorOperationFailure(s)
       /\ UNCHANGED cnSess
    \/ /\ status = "snapshot_required"
       /\ updateConnectorOperationRecovery(s)
       /\ UNCHANGED cnSess

SnapshotAcknowledged(s, status) ==
    cnLink' = [cnLink EXCEPT ![s].mem = IF status = "applied" THEN "awaiting_ready" ELSE @,
                             ![s].phase = IF status = "applied" THEN @ ELSE "closing"]

\* A negative acknowledgement is recorded and then ends the connection.
HandleAck(s, status) ==
    /\ cnLink[s].phase = "open" /\ cnLink[s].mem = "awaiting_snapshot"
    /\ \/ /\ lockSession(s)
          /\ RecordApplied(s, status)
          /\ SnapshotAcknowledged(s, status)
          /\ UNCHANGED <<cnConn, cnConfig>>
       \/ ~lockSession(s) /\ failClosed(s)
    /\ UNCHANGED <<cnCred, cnEnr, cnSeen>>

Activates(g) ==
    cnConfig' = [h \in 1..CnMaxConfig |->
                    IF h = g THEN "active"
                    ELSE IF cnConfig[h] = "active" THEN "superseded" ELSE cnConfig[h]]

RecordReady(s) ==
    LET l == cnLink[s] IN
    /\ Activates(l.gen)
    /\ cnSess' = [cnSess EXCEPT ![s].state = "ready", ![s].applied = l.gen]
    /\ cnConn' = [cnConn EXCEPT ![l.conn].drain = IF @ = "draining" THEN @ ELSE "accepting"]
    /\ updateConnectorOperation(s, "succeeded")

\* In memory too, even while a drain is under way.
BecomesReady(s) == cnLink' = [cnLink EXCEPT ![s].mem = "ready"]

HandleReadiness(s) ==
    /\ cnLink[s].phase = "open" /\ cnLink[s].mem # "awaiting_snapshot"
    /\ \/ /\ lockSession(s)
          /\ cnConfig[cnLink[s].gen] \in {"pending", "active"}
          /\ RecordReady(s)
          /\ BecomesReady(s)
       \/ /\ \/ ~lockSession(s)
             \/ cnConfig[cnLink[s].gen] \notin {"pending", "active"}
          /\ failClosed(s)
    /\ UNCHANGED <<cnCred, cnEnr, cnSeen>>

\* A heartbeat only moves the lease deadline: the row must be live and its
\* credential usable.
RecordHeartbeat(s) ==
    /\ lockSession(s)
    /\ cnCred[cnLink[s].conn][cnLink[s].cred].state \in {"active", "overlap"}

RenewConnector(s) == lockSession(s) /\ loadProofMaterial(cnLink[s].conn, cnLink[s].cred)
RecordRenewal(s) == lockSession(s)

\* A heartbeat or a renewal the database refuses.
HandleHeartbeat(s) == ~RecordHeartbeat(s) /\ failClosed(s)
Renew(s) == (~RenewConnector(s) \/ ~RecordRenewal(s)) /\ failClosed(s)

KeepAliveRefused(s) ==
    /\ cnLink[s].phase = "open"
    /\ HandleHeartbeat(s) \/ Renew(s)
    /\ UNCHANGED <<cnCred, cnEnr, cnSeen>>

\* No heartbeat arrived before the deadline.
LeaseExpires(s) ==
    /\ cnSess[s].state \in LiveSession /\ cnSess[s].lease
    /\ cnSess' = [cnSess EXCEPT ![s].lease = FALSE]
    /\ UNCHANGED <<cnConn, cnCred, cnEnr, cnOps, cnSeen, cnLink, cnConfig>>

---------------------------------------------------------------------------
(* The drain dispatcher.                                                   *)

ListConnectorDrainOperations ==
    {x \in CnOps \X CnSessions :
        LET o == cnOps[x[1]] IN
        /\ o.kind \in {"drain", "revoke"} /\ o.state \in OpenOperation
        /\ cnConn[o.conn].last = x[2]
        /\ cnSess[x[2]].state \in {"ready", "draining"}
        /\ cnSess[x[2]].lease /\ cnSess[x[2]].applied > 0}

\* The session takes one drain in its life; a second operation waits for another.
BeginDrain(s, o) ==
    /\ cnLink[s].mem = "ready" /\ cnLink[s].drain = CnNone
    /\ cnLink' = [cnLink EXCEPT ![s].drain = o, ![s].mem = "draining", ![s].sent = "begun"]

DispatchDrain(s, o) ==
    /\ <<o, s>> \in ListConnectorDrainOperations
    /\ cnLink[s].phase = "open" /\ cnLink[s].gen = cnSess[s].applied
    /\ BeginDrain(s, o)
    /\ UNCHANGED <<cnConn, cnCred, cnEnr, cnOps, cnSess, cnSeen, cnConfig>>

DrainStateOf(status) ==
    CASE status = "completed" -> "drained" [] status = "forced" -> "forced_closed"
      [] status = "rejected" -> "accepting" [] OTHER -> "draining"

updateDrainOperation(o, status) ==
    cnOps' = [cnOps EXCEPT ![o].state =
        CASE status = "completed" -> "succeeded"
          [] status = "forced" -> IF cnOps[o].kind = "revoke" THEN "succeeded" ELSE "failed"
          [] status = "rejected" -> "failed"
          [] OTHER -> "running"]

TerminalConnector(c) == cnConn[c].desired = "revoked" \/ cnConn[c].drain = "forced_closed"

RecordDrain(s, status) ==
    LET o == cnLink[s].drain
        c == cnLink[s].conn
        t == TerminalConnector(c) IN
    IF cnOps[o].state \in Settled THEN UNCHANGED <<cnConn, cnOps, cnSess>>
    ELSE /\ cnSess' = [cnSess EXCEPT ![s].state =
                         IF status = "rejected" /\ ~t THEN "ready" ELSE "draining"]
         /\ cnConn' = [cnConn EXCEPT
                ![c].desired = IF t \/ status = "rejected" THEN @ ELSE "draining",
                ![c].drain = IF t THEN @ ELSE DrainStateOf(status)]
         /\ updateDrainOperation(o, status)

lockDrainOperation(s) ==
    /\ lockSession(s)
    /\ cnOps[cnLink[s].drain].state \in Settled \/ cnConn[cnLink[s].conn].last = s

\* BeginDrain records the drain it began before the frame is sent.
DrainRecorded(s) ==
    /\ cnLink[s].phase = "open" /\ cnLink[s].sent = "begun"
    /\ \/ /\ lockDrainOperation(s)
          /\ RecordDrain(s, "accepted")
          /\ cnLink' = [cnLink EXCEPT ![s].sent = "sent"]
          /\ UNCHANGED cnConfig
       \/ ~lockDrainOperation(s) /\ failClosed(s)
    /\ UNCHANGED <<cnCred, cnEnr, cnSeen>>

DrainAcknowledged(s, status) ==
    cnLink' = [cnLink EXCEPT ![s].sent = IF status = "progress" THEN @ ELSE "done",
                             ![s].phase = IF status = "rejected" THEN "closing" ELSE @]

\* A rejection is recorded and then ends the connection.
HandleDrainAck(s, status) ==
    /\ cnLink[s].phase = "open" /\ cnLink[s].sent = "sent"
    /\ \/ /\ lockDrainOperation(s)
          /\ RecordDrain(s, status)
          /\ DrainAcknowledged(s, status)
          /\ UNCHANGED cnConfig
       \/ ~lockDrainOperation(s) /\ failClosed(s)
    /\ UNCHANGED <<cnCred, cnEnr, cnSeen>>

---------------------------------------------------------------------------
(* The end of a connection.                                                *)

\* The peer hangs up or the server shuts the stream down.
Disconnects(s) ==
    /\ cnLink[s].phase = "open"
    /\ cnLink' = [cnLink EXCEPT ![s].phase = "closing"]
    /\ UNCHANGED <<cnConn, cnCred, cnEnr, cnOps, cnSess, cnSeen, cnConfig>>

\* The open drain and revoke operations of the connector and the exchange of
\* this session's credential, when this is the connector's current session.
markDisconnectedOperations(s) ==
    {o \in CnOps :
        /\ cnOps[o].conn = cnLink[s].conn /\ cnOps[o].state \in OpenOperation
        /\ cnOps[o].kind \in {"drain", "revoke"} \/ o \in SourceOperation(s)
        /\ cnConn[cnLink[s].conn].last = s}

RecordDisconnected(s) ==
    /\ cnLink[s].phase = "closing"
    /\ cnSess' = [cnSess EXCEPT ![s].state = "disconnected"]
    /\ cnOps' = [o \in CnOps |-> IF o \in markDisconnectedOperations(s)
                                   THEN [cnOps[o] EXCEPT !.state = "uncertain"] ELSE cnOps[o]]
    /\ cnLink' = [cnLink EXCEPT ![s].phase = "gone"]
    /\ UNCHANGED <<cnConn, cnCred, cnEnr, cnSeen, cnConfig>>

\* The serving process dies, or the bounded cleanup fails: nothing is recorded.
LinkLost(s) ==
    /\ cnLink[s].phase \notin {"none", "gone"}
    /\ cnLink' = [cnLink EXCEPT ![s].phase = "gone"]
    /\ UNCHANGED <<cnConn, cnCred, cnEnr, cnOps, cnSess, cnSeen, cnConfig>>

---------------------------------------------------------------------------
CnNext ==
    /\ \/ \E e \in cnScope.enrollments :
             \/ EnrollmentExpires(e)
             \/ IssueEnrollment(e) \/ ExchangeEnrollment(e)
       \/ \E c \in CnConnectors :
             \/ \E o \in cnScope.ops : DrainConnector(c, o) \/ RevokeConnector(c, o)
             \/ \E g \in 1..CnMaxCred : CredentialLapses(c, g)
       \/ ConfigurationChanges
       \/ \E s \in cnScope.sessions :
             \/ \E c \in CnConnectors, g \in 1..CnMaxCred, p \in 1..CnMaxProc :
                   AuthenticateConnector(s, c, g, p)
             \/ ReadSnapshot(s) \/ Accept(s)
             \/ \E status \in {"applied", "rejected", "snapshot_required"} : HandleAck(s, status)
             \/ HandleReadiness(s) \/ KeepAliveRefused(s) \/ LeaseExpires(s)
             \/ \E o \in cnScope.ops : DispatchDrain(s, o)
             \/ DrainRecorded(s)
             \/ \E status \in {"progress", "completed", "forced", "rejected"} : HandleDrainAck(s, status)
             \/ Disconnects(s) \/ RecordDisconnected(s) \/ LinkLost(s)
    /\ UNCHANGED cnScope

CnSpec == CnInit /\ [][CnNext]_cnVars

---------------------------------------------------------------------------
CnTypeOK ==
    /\ \A c \in CnConnectors :
          /\ cnConn[c].desired \in {"none", "active", "draining", "revoked"}
          /\ cnConn[c].drain \in {"accepting", "draining", "drained", "forced_closed"}
          /\ cnConn[c].rot \in 0..CnMaxCred /\ cnConn[c].last \in CnSessions \cup {CnNone}
          /\ \A g \in 1..CnMaxCred :
                /\ cnCred[c][g].state \in {"none", "active", "overlap", "lapsed"}
                /\ cnCred[c][g].op \in CnOps \cup {CnNone}
    /\ \A o \in CnOps : /\ cnOps[o].kind \in {"none", "exchange", "drain", "revoke"}
                        /\ cnOps[o].state \in OpenOperation \cup Settled \cup {"none"}
    /\ \A s \in CnSessions :
          /\ cnSess[s].state \in LiveSession \cup {"none", "disconnected"}
          /\ cnLink[s].phase \in {"none", "authenticated", "admitted", "open", "closing", "gone"}
          /\ cnLink[s].mem \in {"awaiting_snapshot", "awaiting_ready", "ready", "draining"}
          /\ cnLink[s].sent \in {"none", "begun", "sent", "done"}

(* However connections of one connector overlap across replicas, at most    *)
(* one stored session is live, it is the one the connector row names, and   *)
(* no stored session has a newer process generation (createConnectorSession *)
(* disconnects the older ones and refuses a stale process).                 *)
OneLiveSession ==
    \A s \in CnSessions :
        cnSess[s].state \in LiveSession =>
            /\ cnConn[cnLink[s].conn].last = s
            /\ \A t \in SessionsOf(cnLink[s].conn) \ {s} :
                  /\ cnSess[t].state \notin LiveSession
                  /\ cnLink[t].proc < cnLink[s].proc

(* A settled operation never changes again, whatever late acknowledgement,  *)
(* readiness or disconnection of any session arrives ("Terminal operation   *)
(* rows are immutable", RecordDrain; markDisconnectedOperations moves open  *)
(* operations only).                                                        *)
SettledOperationsStay ==
    \A o \in CnOps : cnOps[o].state \in Settled => cnOps'[o] = cnOps[o]

(* An exchange succeeds only when a session that authenticated with the     *)
(* credential that very exchange created becomes ready, so concurrent or    *)
(* repeated enrollments of one host never complete each other's operation   *)
(* (ExchangeConnectorEnrollment's source_operation_id).                     *)
ExchangeProvedByOwnCredential ==
    \A o \in CnOps :
       (cnOps[o].kind = "exchange" /\ cnOps[o].state # "succeeded"
          /\ cnOps'[o].state = "succeeded")
       => \E s \in CnSessions :
             /\ cnSess'[s].state = "ready" /\ cnSess'[s].applied > 0
             /\ cnCred[cnLink[s].conn][cnLink[s].cred].op = o

(* Recording the end of a connection that a newer process generation has    *)
(* already replaced changes no operation ("A stale close from an older      *)
(* process generation never changes a newer session's work").               *)
StaleCloseChangesNoWork ==
    \A s \in CnSessions :
       (cnLink[s].phase = "closing" /\ cnLink'[s].phase = "gone"
          /\ cnConn[cnLink[s].conn].last # s)
       => cnOps' = cnOps

=============================================================================
