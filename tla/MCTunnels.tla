------------------------------- MODULE MCTunnels ------------------------------
(***************************************************************************)
(* Tunnels and previews for TLC: the routes and domains of a tunnel, the   *)
(* certificates of its names, its connectors' sessions and credentials,    *)
(* and the preview leases and the carriers that serve them.                *)
(*                                                                         *)
(* Each module describes its part of the system by itself, and what the    *)
(* other parts do to it by actions of its own, so the parts are checked    *)
(* side by side: every behaviour exercises one of them, chosen in the      *)
(* initial state, and the parts take turns with the same variables.        *)
(***************************************************************************)
EXTENDS Naturals, TLC

CONSTANTS
    Parts,  \* the parts the behaviours exercise
    PoolA, PoolB, PoolC,  \* interchangeable model values
    TcWorkers, TcOwners, TcCerts, TcNodes, TcMaxLease, TcBounds, TcNone,
    TrTunnels, TrRoutes, TrDomains, TrHosts, TrPorts, TrKeys, TrMaxGen,
    TrMaxChecks, TrGrace, TrGiveUp, TrParts, TrNone, CnConnectors,
    CnEnrollments, CnOps, CnSessions, CnMaxCred, CnMaxProc, CnMaxConfig,
    CnScopes, CnNone, RtConnectors, RtOps, RtMaxGen, RtMaxProc, RtNone,
    PvLeases, PvAccounts, PvDomains, PvHosts, PvRequests, PvWorkers,
    PvParts, PvMaxGen, PvGrace, PvNone, PaRequests, PaBounds, PaNone

VARIABLES
    part,  \* the part this behaviour exercises
    v1, v2, v3, v4, v5, v6, v7, v8, v9, v10, v11, v12  \* its variables

Tc == INSTANCE TunnelCert WITH tcMax <- v1, tcLeaf <- v2, tcDomain <- v3,
        tcLease <- v4, tcCert <- v5, tcRow <- v6, tcStale <- v7,
        tcLock <- v8, tcReady <- v9, tcEpoch <- v10, tcRev <- v11, tcW <- v12
Tr == INSTANCE TunnelResources WITH trTunnel <- v1, trRoute <- v2,
        trConfig <- v3, trDomain <- v4, trOp <- v5, trSeen <- v6,
        trPart <- v7
Cn == INSTANCE ConnectorSessions WITH cnScope <- v1, cnConn <- v2,
        cnCred <- v3, cnEnr <- v4, cnOps <- v5, cnSess <- v6, cnSeen <- v7,
        cnLink <- v8, cnConfig <- v9
Rt == INSTANCE CredentialRotation WITH rtConn <- v1, rtCred <- v2,
        rtSession <- v3, rtOp <- v4, rtOver <- v5, rtTarget <- v6
Pv == INSTANCE PreviewLeases WITH pvLease <- v1, pvDomain <- v2,
        pvCall <- v3, pvCheck <- v4, pvPart <- v5
Pa == INSTANCE PreviewAttachment WITH paMax <- v1, paLease <- v2,
        paProc <- v3, paNode <- v4, paRow <- v5, paOutbox <- v6,
        paCall <- v7, paHandle <- v8, paEdge <- v9, paProven <- v10

ASSUME Tc!TcAssumption
ASSUME Tr!TrAssumption
ASSUME Cn!CnAssumption
ASSUME Rt!RtAssumption
ASSUME Pv!PvAssumption
ASSUME Pa!PaAssumption

\* A host that enrolls, is revoked and enrolls again, and one whose connections
\* overlap while the configuration changes.
Reenrolling == [enrollments |-> CnEnrollments, ops |-> CnOps,
                sessions |-> CnSessions \ PoolB, configs |-> 1]
Overlapping == [enrollments |-> {CHOOSE e \in CnEnrollments : TRUE}, ops |-> PoolA,
                sessions |-> PoolB, configs |-> 2]
SessionScopes == {Reenrolling, Overlapping}

\* A lease that is renewed, an edge that restarts, and a host that reconnects.
Renewing == [lease |-> 2, proc |-> 1, epoch |-> 1, gen |-> 3]
Restarting == [lease |-> 1, proc |-> 1, epoch |-> 2, gen |-> 4]
Crossing == [lease |-> 1, proc |-> 2, epoch |-> 1, gen |-> 2]
CarrierBounds == {Renewing, Restarting, Crossing}

\* Two goroutines at work on a durable domain, previews whose domain changes,
\* and the platform's domain: edges that restart, an operator who revokes.
OneGoroutine == {CHOOSE w \in TcWorkers : TRUE}
Durable == [kind |-> "durable", crew |-> TcWorkers, revoked |-> FALSE, gen |-> 2, epoch |-> 1]
Preview == [kind |-> "preview", crew |-> OneGoroutine, revoked |-> FALSE, gen |-> 3, epoch |-> 1]
Platform == [kind |-> "platform", crew |-> OneGoroutine, revoked |-> FALSE, gen |-> 1, epoch |-> 2]
Operated == [Platform EXCEPT !.revoked = TRUE, !.epoch = 1]
CertificateBounds == {Durable, Preview, Platform, Operated}

tunnelVars == <<part, v1, v2, v3, v4, v5, v6, v7, v8, v9, v10, v11, v12>>

Symmetry == Permutations(PoolA) \cup Permutations(PoolB) \cup Permutations(PoolC)

\* The variables a part does not need are 0.
TunnelInit ==
    /\ part \in Parts
    /\ \/ part = "certificates" /\ Tc!TcInit
       \/ part = "resources" /\ Tr!TrInit
          /\ v8 = 0 /\ v9 = 0 /\ v10 = 0 /\ v11 = 0 /\ v12 = 0
       \/ part = "sessions" /\ Cn!CnInit
          /\ v10 = 0 /\ v11 = 0 /\ v12 = 0
       \/ part = "rotation" /\ Rt!RtInit
          /\ v7 = 0 /\ v8 = 0 /\ v9 = 0 /\ v10 = 0 /\ v11 = 0 /\ v12 = 0
       \/ part = "leases" /\ Pv!PvInit
          /\ v6 = 0 /\ v7 = 0 /\ v8 = 0 /\ v9 = 0 /\ v10 = 0 /\ v11 = 0 /\ v12 = 0
       \/ part = "carriers" /\ Pa!PaInit
          /\ v11 = 0 /\ v12 = 0

TunnelNext ==
    /\ UNCHANGED part
    /\ \/ part = "certificates" /\ Tc!TcNext
       \/ part = "resources" /\ Tr!TrNext /\ UNCHANGED <<v8, v9, v10, v11, v12>>
       \/ part = "sessions" /\ Cn!CnNext /\ UNCHANGED <<v10, v11, v12>>
       \/ part = "rotation" /\ Rt!RtNext /\ UNCHANGED <<v7, v8, v9, v10, v11, v12>>
       \/ part = "leases" /\ Pv!PvNext /\ UNCHANGED <<v6, v7, v8, v9, v10, v11, v12>>
       \/ part = "carriers" /\ Pa!PaNext /\ UNCHANGED <<v11, v12>>

TunnelSpec == TunnelInit /\ [][TunnelNext]_tunnelVars

-----------------------------------------------------------------------------
(* Every part of the tunnels keeps its rows, in-flight calls and counters  *)
(* within their types.                                                     *)
TunnelTypeOK ==
    /\ part = "certificates" => Tc!TcTypeOK
    /\ part = "resources" => Tr!TrTypeOK
    /\ part = "sessions" => Cn!CnTypeOK
    /\ part = "rotation" => Rt!RtTypeOK
    /\ part = "leases" => Pv!PvTypeOK
    /\ part = "carriers" => Pa!PaTypeOK

(* No certificate of a preview outlives its lease: after the lease ended   *)
(* none of its rows is staged or active, also one a worker was             *)
(* distributing.                                                           *)
CertificatesEndWithLease == part = "certificates" => Tc!CertificatesEndWithLease

(* A certificate gives way only to one that is already served: when an     *)
(* active certificate becomes superseded, its successor becomes active in  *)
(* the same step and every target its worker captured (at least one) has   *)
(* acknowledged it.                                                        *)
ReplacementIsServedFirst == part = "certificates" => Tc!ReplacementIsServedFirst

(* Publication is fenced by the domain generation and, for a preview, by   *)
(* the lease: the reference of a durable or preview domain only ever       *)
(* changes to a certificate that is active at that moment and was issued   *)
(* for exactly the generation being replaced, whatever other workers did   *)
(* since the read.                                                         *)
PublishesCurrentCertificate == part = "certificates" => Tc!PublishesCurrentCertificate

(* Changing a tunnel's audience never turns a private TCP route into a     *)
(* publication, whatever order routes are added, disabled, re-enabled and  *)
(* patched in.                                                             *)
NoSilentPublication == part = "resources" => Tr!NoSilentPublication

(* What a connector is handed is never behind what the API has accepted:   *)
(* the newest configuration generation carries the tunnel's generation,    *)
(* access mode and state and lists exactly its active routes, each as it   *)
(* is now (createResourceConfigGeneration in every mutation).              *)
ConfigIsCurrent == part = "resources" => Tr!ConfigIsCurrent

(* Nothing the public can name leads to two places: no two live routes     *)
(* hold one public port, no two active routes of a tunnel match the same   *)
(* requests, and no two live bindings claim one hostname.                  *)
PublicNamesAreUnshared == part = "resources" => Tr!PublicNamesAreUnshared

(* A lookup that raced a request proves nothing: a binding becomes         *)
(* verified, and its certificate is asked for, only from the row exactly   *)
(* as the reconciler read it before looking the name up (reconcileOne).    *)
ProofIsOfThisRow == part = "resources" => Tr!ProofIsOfThisRow

(* However connections of one connector overlap across replicas, at most   *)
(* one stored session is live, it is the one the connector row names, and  *)
(* no stored session has a newer process generation                        *)
(* (createConnectorSession disconnects the older ones and refuses a stale  *)
(* process).                                                               *)
OneLiveSession == part = "sessions" => Cn!OneLiveSession

(* A settled operation never changes again, whatever late acknowledgement, *)
(* readiness or disconnection of any session arrives ("Terminal operation  *)
(* rows are immutable", RecordDrain.                                       *)
SettledOperationsStay == part = "sessions" => Cn!SettledOperationsStay

(* An exchange succeeds only when a session that authenticated with the    *)
(* credential that very exchange created becomes ready, so concurrent or   *)
(* repeated enrollments of one host never complete each other's operation  *)
(* (ExchangeConnectorEnrollment's source_operation_id).                    *)
ExchangeProvedByOwnCredential == part = "sessions" => Cn!ExchangeProvedByOwnCredential

(* Recording the end of a connection that a newer process generation has   *)
(* already replaced changes no operation ("A stale close from an older     *)
(* process generation never changes a newer session's work").              *)
StaleCloseChangesNoWork == part = "sessions" => Cn!StaleCloseChangesNoWork

(* "Readers never observe a connector without an active key": exactly one  *)
(* credential generation of a connector is active and it is the one        *)
(* tunnel_connectors names, through overlapping and failing rotations.     *)
OneActiveCredential == part = "rotation" => Rt!OneActiveCredential

(* A lease that was stopped, that expired or whose owner was lost has      *)
(* given back every hostname and certificate, also of domains its          *)
(* readiness or an earlier renewal left behind at an older generation      *)
(* (WithdrawPreviewDomainsV1 and RevokePreviewCertificatesTx in the        *)
(* terminal transaction).                                                  *)
EndedLeaseHoldsNothing == part = "leases" => Pv!EndedLeaseHoldsNothing

(* A withdrawn hostname stays out of other accounts' reach until its       *)
(* quarantine has lapsed, and a live hostname has one binding              *)
(* (enforce_preview_tunnel_domain_hostname_claim_v1).                      *)
QuarantineKeepsOthersOut == part = "leases" => Pv!QuarantineKeepsOthersOut

(* "This prevents a delayed DNS response from updating a renewed or        *)
(* stopped preview" (previewdomain/reconciler.go:37-38).                   *)
ProofIsForLeaseInForce == part = "leases" => Pv!ProofIsForLeaseInForce

(* A row is shown as edge-ready or ready only when an edge process         *)
(* reported exactly this carrier, session and edge epoch, since the row    *)
(* last went back to pending.                                              *)
ReadinessIsOfThisCarrier == part = "carriers" => Pa!ReadinessIsOfThisCarrier

(* A detach command counts as delivered only when the edge process it      *)
(* names does not carry the preview, and it never carries it again.        *)
DetachedStaysGone == part = "carriers" => Pa!DetachedStaysGone

(* An attachment is admitted only by the registered process of the node    *)
(* its binding names.                                                      *)
AdmittedByRegisteredProcess == part = "carriers" => Pa!AdmittedByRegisteredProcess

(* A preview ends as a whole: certificates, hostnames and carriers go with *)
(* its lease, quarantined names stay out of reach, a detached carrier      *)
(* never returns, and readiness is of the carrier the row names            *)
(* (preview_lease_v1.go, outbox.go, sql_store.go).                         *)
LeasePromises ==
    /\ TunnelTypeOK
    /\ CertificatesEndWithLease
    /\ EndedLeaseHoldsNothing
    /\ QuarantineKeepsOthersOut
    /\ ReadinessIsOfThisCarrier
    /\ DetachedStaysGone

(* Connectors are handed what the API accepted, no private route is        *)
(* published and no public name is shared, and a connector has one live    *)
(* session and one active credential (resources_repository.go,             *)
(* connectorprotocol/sql_store.go).                                        *)
TunnelPromises ==
    /\ NoSilentPublication
    /\ ConfigIsCurrent
    /\ PublicNamesAreUnshared
    /\ OneLiveSession
    /\ OneActiveCredential

(* No step replaces a certificate before its successor is served,          *)
(* publishes a stale one, accepts a proof of a row, lease or carrier that  *)
(* has changed since it was asked for, reopens a settled operation or lets *)
(* an old connection change a newer one's work (coordinator.go,            *)
(* reconciler.go, RecordDrain, RecordDisconnect).                          *)
TunnelSteps ==
    [][/\ ReplacementIsServedFirst
       /\ PublishesCurrentCertificate
       /\ ProofIsOfThisRow
       /\ SettledOperationsStay
       /\ ExchangeProvedByOwnCredential
       /\ StaleCloseChangesNoWork
       /\ ProofIsForLeaseInForce
       /\ AdmittedByRegisteredProcess]_tunnelVars
===============================================================================
