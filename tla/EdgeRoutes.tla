---------------------------- MODULE EdgeRoutes ----------------------------
(* The routes of an environment's runtime connector over the edge: the      *)
(* owner's route intents, the edge nodes that register, beat and go stale,  *)
(* the connector's admission to a node under a generation, and the route    *)
(* observations by which a node tells what it serves.                       *)
(*                                                                          *)
(* One environment with one connector.  An edge process is external: it     *)
(* fetches its desired routes, serves them, and reports what it serves; a   *)
(* report is under way until it is applied or lost, and the process waits   *)
(* for it.  A node that died may still have a report under way.             *)
EXTENDS Naturals, FiniteSets

CONSTANTS
    ErNodes,        \* edge nodes of the connector's pool
    ErRoutes,       \* ids of routes
    ErAdmissions,   \* operation ids of admission requests
    ErRouteOps,     \* operation keys of route intents
    ErMaxRevision,  \* bound on a route's desired revision
    ErMaxGen,       \* bound on connector generations
    ErNone

ErAssumption == ErMaxRevision \in Nat \ {0} /\ ErMaxGen \in Nat \ {0}

VARIABLES
    erEnv,      \* control_environments.desired_state
    erNodes,    \* control_tunnel_nodes: state, and whether the heartbeat is overdue
    erConn,     \* control_connector_generations row of the runtime connector;
                \* losses counts how often its node was lost
    erRoutes,   \* control_routes
    erOps,      \* control_route_operations: the intent a key stands for
    erEdge      \* per node: the routes its process serves, its report under way
erVars == <<erEnv, erNodes, erConn, erRoutes, erOps, erEdge>>

NoRoute == [desired |-> "none", drev |-> 0, arev |-> 0, anode |-> ErNone, agen |-> 0, aloss |-> 0]
NoConnector == [state |-> "none", gen |-> 0, node |-> ErNone, op |-> ErNone, losses |-> 0]
Wanted == {"attached", "replacing"}

ErInit ==
    /\ erEnv = "active"
    /\ erNodes = [n \in ErNodes |-> [state |-> "none", ready |-> FALSE, late |-> FALSE]]
    /\ erConn = NoConnector
    /\ erRoutes = [r \in ErRoutes |-> NoRoute]
    /\ erOps = [k \in ErRouteOps |-> ErNone]
    /\ erEdge = [n \in ErNodes |-> [holds |-> {}, report |-> ErNone]]

(* ------------------------------ route intents --------------------------- *)

GetControlRouteOperation(k) == erOps[k] # ErNone
ReserveControlRouteOperation(k, intent) == erOps' = [erOps EXCEPT ![k] = intent]

CreateControlRoute(r) ==
    /\ erRoutes[r] = NoRoute
    /\ erRoutes' = [erRoutes EXCEPT ![r] = [NoRoute EXCEPT !.desired = "attached", !.drev = 1]]

(* A key that is known answers its stored result and changes nothing. *)
CreateRoute(k, r) ==
    /\ erEnv = "active" /\ ~GetControlRouteOperation(k)
    /\ CreateControlRoute(r)
    /\ ReserveControlRouteOperation(k, <<r, "create">>)
    /\ UNCHANGED <<erEnv, erNodes, erConn, erEdge>>

AdvanceControlRouteRevision(r, state, expected) ==
    /\ erRoutes[r].drev = expected
    /\ erRoutes' = [erRoutes EXCEPT ![r].desired = state, ![r].drev = @ + 1]

(* The expected revision is the one the caller saw; another one conflicts. *)
Transition(k, r, state) ==
    /\ erEnv = "active" /\ ~GetControlRouteOperation(k)
    /\ erRoutes[r].drev \in 1..(ErMaxRevision - 1)
    /\ AdvanceControlRouteRevision(r, state, erRoutes[r].drev)
    /\ ReserveControlRouteOperation(k, <<r, state>>)
    /\ UNCHANGED <<erEnv, erNodes, erConn, erEdge>>

(* ensureHelperRoute: a pairing wants some attached helper route. *)
GetHelperRouteForEnvironment == \E r \in ErRoutes : erRoutes[r].desired \in Wanted
ReactivateHelperRouteForEnvironment(r) ==
    erRoutes' = [erRoutes EXCEPT ![r].desired = "attached", ![r].drev = @ + 1]
EnsureHelperRoute(r) ==
    /\ erEnv = "active" /\ ~GetHelperRouteForEnvironment
    /\ IF \A s \in ErRoutes : erRoutes[s] = NoRoute
       THEN CreateControlRoute(r)
       ELSE erRoutes[r].drev \in 1..(ErMaxRevision - 1) /\ ReactivateHelperRouteForEnvironment(r)
    /\ UNCHANGED <<erEnv, erNodes, erConn, erOps, erEdge>>

(* RevokeMachineEnvironmentTx, as far as the connector and routes go. *)
RevokeControlConnectorForEnvironment ==
    erConn' = IF erConn.state \in {"pending", "admitted"} THEN [erConn EXCEPT !.state = "revoked"] ELSE erConn
RevokeControlRoutesForEnvironment ==
    erRoutes' = [r \in ErRoutes |->
       IF erRoutes[r].desired \in Wanted
       THEN [erRoutes[r] EXCEPT !.desired = IF @ # "none" /\ erRoutes[r].anode # ErNone THEN "detaching" ELSE "detached",
                                !.drev = @ + 1]
       ELSE erRoutes[r]]
RevokeEnvironment ==
    /\ erEnv = "active" /\ \A r \in ErRoutes : erRoutes[r].drev < ErMaxRevision
    /\ erEnv' = "revoked"
    /\ RevokeControlConnectorForEnvironment
    /\ RevokeControlRoutesForEnvironment
    /\ UNCHANGED <<erNodes, erOps, erEdge>>

(* --------------------------------- nodes -------------------------------- *)

(* The process that registers is new: it serves nothing yet. *)
RegisterControlTunnelNode(n) ==
    erNodes' = [erNodes EXCEPT ![n].state = "registered", ![n].ready = FALSE, ![n].late = FALSE]
RegisterNode(n) ==
    /\ erNodes[n].state \in {"none", "offline", "draining"}
    /\ RegisterControlTunnelNode(n)
    /\ erEdge' = [erEdge EXCEPT ![n].holds = {}]
    /\ UNCHANGED <<erEnv, erConn, erRoutes, erOps>>

HeartbeatControlTunnelNode(n, ready, draining) ==
    /\ erNodes[n].state \in {"registered", "ready", "draining"}
    /\ erNodes' = [erNodes EXCEPT ![n] =
         [@ EXCEPT !.state = IF draining THEN "draining" ELSE IF @ = "registered" /\ ready THEN "ready" ELSE @,
                   !.ready = ready /\ ~draining /\ erNodes[n].state # "draining",
                   !.late = FALSE]]
Heartbeat(n, ready, draining) ==
    /\ HeartbeatControlTunnelNode(n, ready, draining)
    /\ UNCHANGED <<erEnv, erConn, erRoutes, erOps, erEdge>>

(* The heartbeat of a node becomes overdue. *)
BeatOverdue(n) ==
    /\ erNodes[n].state \in {"registered", "ready", "draining"}
    /\ erNodes' = [erNodes EXCEPT ![n].late = TRUE]
    /\ UNCHANGED <<erEnv, erConn, erRoutes, erOps, erEdge>>

ListStaleControlTunnelNodesForUpdate == {n \in ErNodes : erNodes[n].state \in {"registered", "ready"} /\ erNodes[n].late}
MarkControlTunnelNodeOffline(n) ==
    erNodes' = [erNodes EXCEPT ![n].state = "offline", ![n].ready = FALSE]

(* Mutant: the connectors of a lost node keep their generation. *)
FencesInPlace(n) ==
    erConn' = IF erConn.node = n /\ erConn.state \in {"pending", "admitted"}
              THEN [erConn EXCEPT !.state = "pending", !.node = ErNone, !.op = ErNone, !.losses = @ + 1] ELSE erConn

FenceControlConnectorsForNode(n) ==
    erConn' = IF erConn.node = n /\ erConn.state \in {"pending", "admitted"}
              THEN [erConn EXCEPT !.state = "pending", !.gen = @ + 1, !.node = ErNone, !.op = ErNone, !.losses = @ + 1] ELSE erConn
AdvanceControlRoutesForNodeLoss(n) ==
    erRoutes' = [r \in ErRoutes |->
       IF erRoutes[r].anode = n /\ erRoutes[r].desired \in Wanted
       THEN [erRoutes[r] EXCEPT !.drev = @ + 1, !.arev = 0, !.anode = ErNone, !.agen = 0, !.aloss = 0]
       ELSE erRoutes[r]]
ReconcileStaleNode(n) ==
    /\ n \in ListStaleControlTunnelNodesForUpdate
    /\ erConn.gen < ErMaxGen /\ \A r \in ErRoutes : erRoutes[r].drev < ErMaxRevision
    /\ MarkControlTunnelNodeOffline(n)
    /\ FenceControlConnectorsForNode(n)
    /\ AdvanceControlRoutesForNodeLoss(n)
    /\ UNCHANGED <<erEnv, erOps, erEdge>>

(* ------------------------------- connector ------------------------------ *)

(* EnrollmentService.Exchange binds the connector to the machine. *)
BindControlConnectorMachine ==
    erConn' = IF erConn = NoConnector THEN [erConn EXCEPT !.state = "pending", !.gen = 1]
              ELSE [erConn EXCEPT !.state = "pending"]
ExchangeBinds ==
    /\ erEnv = "active"
    /\ BindControlConnectorMachine
    /\ UNCHANGED <<erEnv, erNodes, erRoutes, erOps, erEdge>>

(* EnrollmentService.ReplaceHelper; the admission key is left in the row. *)
AdvanceControlConnectorGeneration ==
    erConn' = [erConn EXCEPT !.state = "pending", !.gen = @ + 1, !.node = ErNone]
ReplaceHelperAdvances ==
    /\ erEnv = "active" /\ erConn # NoConnector /\ erConn.gen < ErMaxGen
    /\ AdvanceControlConnectorGeneration
    /\ UNCHANGED <<erEnv, erNodes, erRoutes, erOps, erEdge>>

ListControlRoutesForEnvironmentAdmission == {r \in ErRoutes : erRoutes[r].desired \in Wanted}
EnsureControlConnectorMachine == IF erConn = NoConnector THEN [erConn EXCEPT !.state = "pending", !.gen = 1] ELSE erConn
SelectReadyControlTunnelNode(n) == erNodes[n].state = "ready" /\ erNodes[n].ready /\ ~erNodes[n].late
SetControlConnectorAdmission(row, n, op) ==
    erConn' = [row EXCEPT !.state = "admitted", !.node = n, !.op = op]

(* A repeated request for the stored key answers the stored credential. *)
IssueConnectorAdmission(op, n) ==
    LET row == EnsureControlConnectorMachine
    IN /\ ListControlRoutesForEnvironmentAdmission # {}
       /\ row.state # "revoked" /\ row.op # op
       /\ SelectReadyControlTunnelNode(n)
       /\ SetControlConnectorAdmission(row, n, op)
       /\ UNCHANGED <<erEnv, erNodes, erRoutes, erOps, erEdge>>

(* ------------------------------ observations ---------------------------- *)

ListControlRoutesForNode(n) ==
    {r \in ErRoutes : erConn.node = n /\ erRoutes[r].desired \in Wanted /\ erConn.state \in {"pending", "admitted"}}

(* The process (external) fetches its routes and serves them, with the      *)
(* connector that was admitted to it.                                       *)
FetchRoutes(n) ==
    /\ erNodes[n].state \in {"registered", "ready", "draining"} /\ erEdge[n].report = ErNone
    /\ erEdge' = [erEdge EXCEPT ![n].holds =
         {[route |-> r, rev |-> erRoutes[r].drev, gen |-> erConn.gen] : r \in ListControlRoutesForNode(n)}]
    /\ UNCHANGED <<erEnv, erNodes, erConn, erRoutes, erOps>>

SendObservations(n) ==
    /\ erNodes[n].state \in {"registered", "ready", "draining"} /\ erEdge[n].report = ErNone
    /\ erEdge' = [erEdge EXCEPT ![n].report = [routes |-> erEdge[n].holds, losses |-> erConn.losses]]
    /\ UNCHANGED <<erEnv, erNodes, erConn, erRoutes, erOps>>

LoseObservations(n) ==
    /\ erEdge[n].report # ErNone
    /\ erEdge' = [erEdge EXCEPT ![n].report = ErNone]
    /\ UNCHANGED <<erEnv, erNodes, erConn, erRoutes, erOps>>

ApplyControlRouteObservation(n, o) ==
    LET row == erRoutes[o.route]
    IN /\ row.drev = o.rev /\ row.desired \in Wanted /\ row.arev <= o.rev
       /\ erConn.node = n /\ erConn.gen = o.gen /\ erConn.state \in {"pending", "admitted"}

ListDetachingControlRoutesForNode(n) == {r \in ErRoutes : erRoutes[r].desired = "detaching" /\ erRoutes[r].anode = n}

FinalizeDetachedControlRoutes(n, seen) == ListDetachingControlRoutesForNode(n) \ seen

(* EdgeService.ObserveRoutes: one observation that does not fit rolls the   *)
(* whole report back.                                                       *)
ObserveRoutes(n) ==
    LET report == erEdge[n].report
        seen == {o.route : o \in report.routes}
        done == FinalizeDetachedControlRoutes(n, seen)
        At(r) == CHOOSE o \in report.routes : o.route = r
    IN /\ report # ErNone
       /\ \A o \in report.routes : ApplyControlRouteObservation(n, o)
       /\ erRoutes' = [r \in ErRoutes |->
            IF r \in seen
            THEN [erRoutes[r] EXCEPT !.arev = At(r).rev, !.anode = n, !.agen = At(r).gen, !.aloss = report.losses]
            ELSE IF r \in done
            THEN [erRoutes[r] EXCEPT !.desired = "detached", !.arev = erRoutes[r].drev, !.anode = ErNone, !.agen = 0, !.aloss = 0]
            ELSE erRoutes[r]]
       /\ erEdge' = [erEdge EXCEPT ![n].report = ErNone]
       /\ UNCHANGED <<erEnv, erNodes, erConn, erOps>>

(* The route a client of the machine is sent to. *)
GetActiveHelperRouteForEnvironment(r) ==
    /\ erEnv = "active" /\ erConn.state = "admitted"
    /\ erRoutes[r].desired \in Wanted /\ erRoutes[r].arev >= erRoutes[r].drev
    /\ erRoutes[r].agen = erConn.gen /\ erRoutes[r].anode = erConn.node
    /\ erConn.node # ErNone /\ erNodes[erConn.node].state = "ready" /\ erNodes[erConn.node].ready

ErNext ==
    \/ RevokeEnvironment \/ ExchangeBinds \/ ReplaceHelperAdvances
    \/ \E k \in ErRouteOps, r \in ErRoutes :
         \/ CreateRoute(k, r)
         \/ \E state \in {"attached", "detaching", "detached", "replacing"} : Transition(k, r, state)
    \/ \E r \in ErRoutes : EnsureHelperRoute(r)
    \/ \E n \in ErNodes :
         \/ RegisterNode(n) \/ BeatOverdue(n) \/ ReconcileStaleNode(n)
         \/ FetchRoutes(n) \/ SendObservations(n) \/ LoseObservations(n) \/ ObserveRoutes(n)
         \/ \E ready, draining \in BOOLEAN : Heartbeat(n, ready, draining)
         \/ \E op \in ErAdmissions : IssueConnectorAdmission(op, n)

ErSpec == ErInit /\ [][ErNext]_erVars

(* ------------------------------- properties ----------------------------- *)

(* The types of the rows. *)
ErTypeOK ==
    /\ erEnv \in {"active", "revoked"}
    /\ \A n \in ErNodes : erNodes[n].state \in {"none", "registered", "ready", "draining", "offline"}
    /\ erConn.state \in {"none", "pending", "admitted", "revoked"} /\ erConn.node \in ErNodes \cup {ErNone}
    /\ \A r \in ErRoutes :
         /\ erRoutes[r].desired \in {"none", "attached", "replacing", "detaching", "detached"}
         /\ erRoutes[r].arev <= erRoutes[r].drev /\ erRoutes[r].drev <= ErMaxRevision

(* A route that clients are sent to was reported since the connector last   *)
(* lost its node: a report that was under way when the connector was fenced *)
(* never makes the route look served again, on that node or on another      *)
(* (node_reconciliation.go ReconcileStaleNodes, edge.go ObserveRoutes).     *)
ActiveRouteIsReportedSinceLoss ==
    \A r \in ErRoutes : GetActiveHelperRouteForEnvironment(r) => erRoutes[r].aloss = erConn.losses

(* A detaching route becomes detached by an observation only when the node  *)
(* that served it has stopped: until then the route keeps naming the node   *)
(* (edge.go ObserveRoutes, FinalizeDetachedControlRoute).                   *)
DetachedByNodeIsUnserved ==
    \A r \in ErRoutes :
      erRoutes[r].desired = "detaching" /\ erRoutes'[r].desired = "detached" /\ UNCHANGED erOps
        => \A o \in erEdge[erRoutes[r].anode].holds : o.route # r
=============================================================================
