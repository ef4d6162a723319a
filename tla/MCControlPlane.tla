---------------------------- MODULE MCControlPlane ----------------------------
(***************************************************************************)
(* The control plane for TLC: the provider operations of hosted            *)
(* environments under overlapping workers and late calls, the helpers that *)
(* enroll, the configuration they synchronise, and the edge and relay      *)
(* nodes that serve them.                                                  *)
(*                                                                         *)
(* Each module describes its part of the system by itself, and what the    *)
(* other parts do to it by actions of its own, so the parts are checked    *)
(* side by side: every behaviour exercises one of them, chosen in the      *)
(* initial state, and the parts take turns with the same variables.        *)
(***************************************************************************)
EXTENDS ProviderOperation, HelperEnrollment, TLC

CONSTANTS
    Parts,  \* the parts the behaviours exercise
    PoolA, PoolB, PoolC,  \* interchangeable model values
    CsEnvs, CsHosted, CsRepos, CsLeaseOps, CsAccessOps, CsBounds, CsNone,
    CtRemotes, CtMaxVersion, CtMaxRevision, CtMaxTime, CtMaxReports,
    CtMaxGen, CtNone, ErNodes, ErRoutes, ErAdmissions, ErRouteOps,
    ErMaxRevision, ErMaxGen, ErNone, RnEpochs, RnPeers, RnDenied,
    RnMaxGen, RnMaxConfig, RnNone, TaNodes, TaDomains, TaMaxAsn, TaScopes

VARIABLES
    part,  \* the part this behaviour exercises
    v1, v2, v3, v4, v5, v6, v7, v8, v9, v10  \* its variables

Cs == INSTANCE ConfigSync WITH csRepos <- v1, csAssign <- v2, csCreds <- v3,
        csLeases <- v4, csOps <- v5, csAccess <- v6, csCalls <- v7,
        csTeam <- v8, csWarning <- v9, csMax <- v10
Ct == INSTANCE ConfigStatus WITH ctAssign <- v1, ctGen <- v2, ctStatus <- v3,
        ctHistory <- v4, ctResolutions <- v5, ctWorker <- v6,
        ctReports <- v7, ctPage <- v8, ctLanded <- v9
Er == INSTANCE EdgeRoutes WITH erEnv <- v1, erNodes <- v2, erConn <- v3,
        erRoutes <- v4, erOps <- v5, erEdge <- v6
Rn == INSTANCE RelayNodes WITH rnNode <- v1, rnGranted <- v2, rnPeer <- v3,
        rnTicket <- v4, rnProcs <- v5, rnAnswer <- v6
Ta == INSTANCE TunnelEdgeAssignment WITH taScope <- v1, taDomain <- v2,
        taNodes <- v3, taRoute <- v4, taSession <- v5, taConfig <- v6,
        taAsn <- v7

ASSUME Cs!CsAssumption
ASSUME Ct!CtAssumption
ASSUME Er!ErAssumption
ASSUME Rn!RnAssumption
ASSUME Ta!TaAssumption

\* Two edges whose domains and health do not change, and one whose do.
TwoEdges == [nodes |-> {1, 2}, changes |-> 0]
OneEdge == [nodes |-> {1}, changes |-> 1]
EdgeScopes == {TwoEdges, OneEdge}

\* Leases that are taken again and again, and warnings that change under them.
Leasing == [version |-> 3, token |-> 2, warning |-> 1, default |-> 1]
Warning == [version |-> 2, token |-> 1, warning |-> 2, default |-> 1]
ConfigBounds == {Leasing, Warning}

controlVars == <<part, v1, v2, v3, v4, v5, v6, v7, v8, v9, v10, vars, heVars>>

Symmetry == Permutations(PoolA) \cup Permutations(PoolB) \cup Permutations(PoolC)

\* The variables a part does not need are 0.
ControlInit ==
    /\ part \in Parts
    /\ Init /\ (part # "provider" => kind = "create")
    /\ HeInit
    /\ \/ part = "config" /\ Cs!CsInit
       \/ part = "status" /\ Ct!CtInit
          /\ v10 = 0
       \/ part = "routes" /\ Er!ErInit
          /\ v7 = 0 /\ v8 = 0 /\ v9 = 0 /\ v10 = 0
       \/ part = "relays" /\ Rn!RnInit
          /\ v7 = 0 /\ v8 = 0 /\ v9 = 0 /\ v10 = 0
       \/ part = "assignment" /\ Ta!TaInit
          /\ v8 = 0 /\ v9 = 0 /\ v10 = 0
       \/ part \in {"provider", "helpers"}
          /\ v1 = 0 /\ v2 = 0 /\ v3 = 0 /\ v4 = 0 /\ v5 = 0 /\ v6 = 0 /\ v7 = 0 /\ v8 = 0
          /\ v9 = 0 /\ v10 = 0

ControlNext ==
    /\ UNCHANGED part
    /\ IF part = "provider" THEN Next ELSE UNCHANGED vars
    /\ IF part = "helpers" THEN HeNext ELSE UNCHANGED heVars
    /\ \/ part = "config" /\ Cs!CsNext
       \/ part = "status" /\ Ct!CtNext /\ UNCHANGED <<v10>>
       \/ part = "routes" /\ Er!ErNext /\ UNCHANGED <<v7, v8, v9, v10>>
       \/ part = "relays" /\ Rn!RnNext /\ UNCHANGED <<v7, v8, v9, v10>>
       \/ part = "assignment" /\ Ta!TaNext /\ UNCHANGED <<v8, v9, v10>>
       \/ part \in {"provider", "helpers"} /\ UNCHANGED <<v1, v2, v3, v4, v5, v6, v7, v8, v9, v10>>

ControlSpec == ControlInit /\ [][ControlNext]_controlVars

-----------------------------------------------------------------------------
(* Every part of the control plane keeps its rows, in-flight calls and     *)
(* counters within their types.                                            *)
ControlTypeOK ==
    /\ HeTypeOK
    /\ part = "config" => Cs!CsTypeOK
    /\ part = "status" => Ct!CtTypeOK
    /\ part = "routes" => Er!ErTypeOK
    /\ part = "relays" => Rn!RnTypeOK
    /\ part = "assignment" => Ta!TaTypeOK

(* A writer lease that is neither revoked nor expired is held by the       *)
(* environment's current assignment of exactly that repository, with write *)
(* mode and standing consent.                                              *)
LeaseIsAuthorized == part = "config" => Cs!LeaseIsAuthorized

(* Fencing tokens are never reused: no two acquisitions of one repository, *)
(* by whichever machines and across releases, revocations and expiry, were *)
(* given the same token, and the next one will be above them all.          *)
FencingTokensUnique == part = "config" => Cs!FencingTokensUnique

(* The history never runs ahead of the status: no accepted report is newer *)
(* than the row the owner sees, and the history's row of the current       *)
(* revision shows what the status shows, however reports were reordered or *)
(* repeated (config_status.go Record).                                     *)
HistoryEndsAtStatus == part = "status" => Ct!HistoryEndsAtStatus

(* A resolution the worker acknowledged stays applied with the revision it *)
(* landed: an owner's late request from an old page does not ask for it    *)
(* again, and no second acknowledgement rewrites it (config_conflict.go    *)
(* Request, Acknowledge).                                                  *)
LandedStaysLanded == part = "status" => Ct!LandedStaysLanded

(* A revision that is approved for pulling is one that the machine         *)
(* reported under the very assignment that pulls it.                       *)
ApprovalIsOfThisAssignment == part = "status" => Ct!ApprovalIsOfThisAssignment

(* A route that clients are sent to was reported since the connector last  *)
(* lost its node.                                                          *)
ActiveRouteIsReportedSinceLoss == part = "routes" => Er!ActiveRouteIsReportedSinceLoss

(* A detaching route becomes detached by an observation only when the node *)
(* that served it has stopped.                                             *)
DetachedByNodeIsUnserved == part = "routes" => Er!DetachedByNodeIsUnserved

(* A node generation is granted to one process, however starts are retried *)
(* and however processes race for the node (relay_nodes.go                 *)
(* StartRelayNode).                                                        *)
RelayGenerationHasOneProcess == part = "relays" => Rn!RelayGenerationHasOneProcess

(* When the process applies an answer, every carrier that had lost its     *)
(* authority when the observation was handled is gone, and no carrier      *)
(* whose authority still stands is dropped.                                *)
RevocationsAreExact == part = "relays" => Rn!RevocationsAreExact

(* "ready edge processes in distinct failure domains"                      *)
(* (tunnel_edge_reconciliation.go ReconcileTunnelEdgeRouteAssignments).    *)
EdgesInDistinctDomains == part = "assignment" => Ta!EdgesInDistinctDomains

(* The active assignment of an edge gives way only to an active            *)
(* replacement on the same edge, or because what it was bound to is gone.  *)
ActiveGivesWayToReplacement == part = "assignment" => Ta!ActiveGivesWayToReplacement

(* Config repositories: every row is well formed, only an authorized       *)
(* assignment holds the writer lease, tokens are never given out twice,    *)
(* and the status, its history and the resolutions agree however reports   *)
(* are repeated and reordered (config_lease.go, config_status.go,          *)
(* config_conflict.go).                                                    *)
ConfigPromises ==
    /\ ControlTypeOK
    /\ LeaseIsAuthorized
    /\ FencingTokensUnique
    /\ HistoryEndsAtStatus
    /\ LandedStaysLanded

(* Edges and relays: a route clients are sent to was reported since its    *)
(* connector last lost a node, a relay generation belongs to one process,  *)
(* and a connector's edges are in distinct failure domains (edge.go,       *)
(* relay_nodes.go, tunnel_edge_reconciliation.go).                         *)
EdgePromises ==
    /\ ActiveRouteIsReportedSinceLoss
    /\ RelayGenerationHasOneProcess
    /\ EdgesInDistinctDomains

(* No step of the control plane takes back a settled secret deletion,      *)
(* approves a revision the current assignment did not report, detaches a   *)
(* route its node still serves, drops or keeps the wrong carriers at a     *)
(* relay, or takes an active edge away before its replacement              *)
(* (FailProviderOperation, ApprovePullRevision, ObserveRoutes,             *)
(* ObserveRelayNode, ActivateTunnelEdgeRouteAssignmentV1).                 *)
ControlSteps ==
    [][/\ KeepsSettledSecret
       /\ ApprovalIsOfThisAssignment
       /\ DetachedByNodeIsUnserved
       /\ RevocationsAreExact
       /\ ActiveGivesWayToReplacement]_controlVars
===============================================================================
