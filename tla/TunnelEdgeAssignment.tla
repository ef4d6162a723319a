------------------------ MODULE TunnelEdgeAssignment ------------------------
(* The publication of one tunnel route of one connector to edge processes:  *)
(* the reconciler stages immutable assignments on at most two edges, the    *)
(* edges report what they observe, and a ready report promotes the staged   *)
(* assignment and drains the one it replaces.                               *)
EXTENDS Naturals, Sequences, FiniteSets, FiniteSetsExt

CONSTANTS
    TaNodes,      \* edge nodes, a set of naturals: the order of their ids
    TaDomains,    \* failure domains of the nodes
    TaMaxAsn,     \* bound on assignment generations
    TaScopes      \* bounds of a behaviour: the nodes that come up, and how many
                  \* processes, sessions, configurations and routes are replaced

TaAssumption == TaNodes \subseteq Nat /\ TaMaxAsn \in Nat
                /\ TaScopes \subseteq [nodes : SUBSET TaNodes, changes : Nat]

VARIABLES
    taScope,     \* the bounds this behaviour keeps to
    taDomain,    \* failure domain of each node, fixed
    taNodes,     \* control_tunnel_nodes
    taRoute,     \* route and tunnel: generation and desired state
    taSession,   \* the connector's last session
    taConfig,    \* configuration generation the connector applied
    taAsn        \* tunnel_edge_route_assignments, by assignment generation
taVars == <<taScope, taDomain, taNodes, taRoute, taSession, taConfig, taAsn>>

TaInit ==
    /\ taScope \in TaScopes
    /\ taDomain \in [TaNodes -> TaDomains]
    /\ taNodes = [n \in TaNodes |-> [epoch |-> 1, state |-> "down"]]
    /\ taRoute = [gen |-> 1, active |-> TRUE]
    /\ taSession = [id |-> 1, state |-> "authenticating"]
    /\ taConfig = 1
    /\ taAsn = <<>>

(* Changes of what assignments are bound to, so far. *)
Changes == FoldSet(LAMBDA n, sum : sum + taNodes[n].epoch - 1, taSession.id + taConfig + taRoute.gen - 3, TaNodes)

Live(a) == a.state \in {"staged", "active"}
Connected == taSession.state \in {"authenticating", "ready"}
(* A node is up, up with its capacity used, late with its heartbeat, or down. *)
Usable(n) == taNodes[n].state \in {"up", "full"}

(* The immutable tuple of an assignment made now. *)
Binding(n) == [node |-> n, epoch |-> taNodes[n].epoch, sess |-> taSession.id, cfg |-> taConfig, rgen |-> taRoute.gen]
BindingOf(a) == [node |-> a.node, epoch |-> a.epoch, sess |-> a.sess, cfg |-> a.cfg, rgen |-> a.rgen]
Drained(a) == [a EXCEPT !.state = "draining", !.observed = "draining"]

(* ----------------------------- the reconciler --------------------------- *)

RetireUnavailableTunnelEdgeAssignmentsV1 ==
    LET serves(a) == Usable(a.node) /\ Connected /\ taRoute.active /\ BindingOf(a) = Binding(a.node)
    IN  [i \in DOMAIN taAsn |-> IF Live(taAsn[i]) /\ ~serves(taAsn[i]) THEN Drained(taAsn[i]) ELSE taAsn[i]]

Retained(asns, n) == \E i \in DOMAIN asns : asns[i].node = n /\ asns[i].epoch = taNodes[n].epoch /\ Live(asns[i])

RanksBefore(asns, n, m) ==
    \/ Retained(asns, n) /\ ~Retained(asns, m)
    \/ (Retained(asns, n) <=> Retained(asns, m)) /\ n < m

(* At most two nodes, the best of each failure domain, without one that     *)
(* already carries the current binding.                                     *)
ListReadyTunnelEdgeRouteCandidatesV1(asns) ==
    LET open == {n \in TaNodes : taNodes[n].state = "up" \/ (taNodes[n].state = "full" /\ Retained(asns, n))}
        best == {n \in open : \A m \in open \ {n} : taDomain[m] = taDomain[n] => RanksBefore(asns, n, m)}
        top == {n \in best : Cardinality({m \in best \ {n} : RanksBefore(asns, m, n)}) < 2}
    IN  IF taRoute.active /\ Connected
        THEN {n \in top : \A i \in DOMAIN asns : ~(Live(asns[i]) /\ BindingOf(asns[i]) = Binding(n))}
        ELSE {}

GetTunnelEdgeRouteAssignmentBindingV1(asns, n) ==
    \E i \in DOMAIN asns : Live(asns[i])
        /\ [BindingOf(asns[i]) EXCEPT !.rgen = 0] = [Binding(n) EXCEPT !.rgen = 0]

SupersedeStaleStagedTunnelEdgeRouteAssignmentV1(asns, n) ==
    [i \in DOMAIN asns |->
       IF asns[i].node = n /\ asns[i].state = "staged" /\ BindingOf(asns[i]) # Binding(n)
       THEN Drained(asns[i]) ELSE asns[i]]

NextTunnelEdgeRouteAssignmentGenerationV1(asns) == Len(asns) + 1

StageTunnelEdgeRouteAssignmentV1(asns, n) ==
    [i \in 1..NextTunnelEdgeRouteAssignmentGenerationV1(asns) |->
       IF i \in DOMAIN asns THEN asns[i]
       ELSE [node |-> n, epoch |-> taNodes[n].epoch, sess |-> taSession.id, cfg |-> taConfig, rgen |-> taRoute.gen,
             state |-> "staged", observed |-> "pending"]]

StageOn(n, asns) ==
    IF GetTunnelEdgeRouteAssignmentBindingV1(asns, n) THEN asns
    ELSE StageTunnelEdgeRouteAssignmentV1(SupersedeStaleStagedTunnelEdgeRouteAssignmentV1(asns, n), n)

(* One serializable pass: retire, select, then stage in order of node id. *)
ReconcileTunnelEdgeRouteAssignments ==
    LET retired == RetireUnavailableTunnelEdgeAssignmentsV1
        candidates == ListReadyTunnelEdgeRouteCandidatesV1(retired)
        first == Min(candidates)
    IN  /\ Len(taAsn) + Cardinality(candidates) <= TaMaxAsn
        /\ taAsn' = CASE candidates = {} -> retired
                      [] Cardinality(candidates) = 1 -> StageOn(first, retired)
                      [] OTHER -> StageOn(Max(candidates), StageOn(first, retired))
        /\ UNCHANGED <<taScope, taDomain, taNodes, taRoute, taSession, taConfig>>

(* ------------------------------- the edges ------------------------------ *)

ListTunnelEdgeRouteAssignmentsForNodeV1(n) ==
    {i \in DOMAIN taAsn :
       LET a == taAsn[i] IN
       /\ a.node = n /\ a.epoch = taNodes[n].epoch
       /\ \/ a.state = "draining"
          \/ /\ Live(a) /\ taNodes[n].state # "down" /\ taRoute.active /\ Connected
             /\ a.sess = taSession.id /\ a.cfg = taConfig
             /\ a.state = "active" => taSession.state = "ready"}

ApplyTunnelEdgeRouteObservationV1(a, observed) ==
    IF observed = "ready"
    THEN /\ Live(a) /\ taRoute.active /\ Usable(a.node)
         /\ taSession.state = "ready" /\ BindingOf(a) = Binding(a.node)
    ELSE a.state \in {"staged", "active", "draining"}

(* Mutant: promoting an assignment drains the connector's other edges too. *)
ActivatesAlone(asns, i) ==
    [j \in DOMAIN asns |->
       IF j = i THEN [asns[j] EXCEPT !.state = "active", !.observed = "ready"]
       ELSE IF asns[j].state = "active" THEN Drained(asns[j]) ELSE asns[j]]

ActivateTunnelEdgeRouteAssignmentV1(asns, i) ==
    [j \in DOMAIN asns |->
       IF j = i THEN [asns[j] EXCEPT !.state = "active", !.observed = "ready"]
       ELSE IF asns[j].state = "active" /\ asns[j].node = asns[i].node THEN Drained(asns[j]) ELSE asns[j]]

FinalizeDrainingTunnelEdgeRouteAssignmentV1(a) == a.state = "draining" /\ a.observed \in {"draining", "ready"}
GetTunnelEdgeRouteAssignmentForObservationV1(a) == a.state = "detached"

Conflict == <<>>

(* One observation of a batch; a conflict rolls the whole batch back. *)
ObserveAssignment(asns, o) ==
    IF asns = Conflict THEN Conflict
    ELSE LET a == asns[o.gen] IN
         CASE o.state = "detached" /\ FinalizeDrainingTunnelEdgeRouteAssignmentV1(a) ->
                [asns EXCEPT ![o.gen].state = "detached", ![o.gen].observed = "detached"]
           [] o.state = "detached" /\ ~FinalizeDrainingTunnelEdgeRouteAssignmentV1(a)
                                   /\ GetTunnelEdgeRouteAssignmentForObservationV1(a) -> asns
           [] o.state = "ready" /\ ApplyTunnelEdgeRouteObservationV1(a, "ready") ->
                ActivateTunnelEdgeRouteAssignmentV1(asns, o.gen)
           [] o.state \notin {"ready", "detached"} /\ ApplyTunnelEdgeRouteObservationV1(a, o.state) ->
                [asns EXCEPT ![o.gen].observed = o.state]
           [] OTHER -> Conflict

(* "failed" stands for "degraded" too: they are stored alike. *)
ObservedStates == {"ready", "draining", "failed", "detached"}

(* The first report of an assignment follows the list that showed it. *)
Reportable(n, g) == taAsn[g].node = n /\ (taAsn[g].observed = "pending" => g \in ListTunnelEdgeRouteAssignmentsForNodeV1(n))

(* A report of one assignment, or of a replacement and what it replaces. It *)
(* may be late: any process of the node may have sent it.                   *)
ObserveTunnelRoutes(n, first, second) ==
    /\ first.gen # second.gen /\ Reportable(n, first.gen)
    /\ second.gen # 0 => Reportable(n, second.gen)
    /\ LET one == ObserveAssignment(taAsn, first)
           both == IF second.gen = 0 THEN one ELSE ObserveAssignment(one, second)
       IN  both # Conflict /\ taAsn' = both
    /\ UNCHANGED <<taScope, taDomain, taNodes, taRoute, taSession, taConfig>>

(* --------------------- what the assignments depend on ------------------- *)

NodeRestarts(n) ==
    /\ Changes < taScope.changes
    /\ taNodes' = [taNodes EXCEPT ![n] = [epoch |-> @.epoch + 1, state |-> "down"]]
    /\ UNCHANGED <<taScope, taDomain, taRoute, taSession, taConfig, taAsn>>

NodeBeats(n, state) ==
    /\ taNodes[n].state # state
    /\ taNodes' = [taNodes EXCEPT ![n].state = state]
    /\ UNCHANGED <<taScope, taDomain, taRoute, taSession, taConfig, taAsn>>

NodeIsLate(n) ==
    /\ Usable(n)
    /\ taNodes' = [taNodes EXCEPT ![n].state = "late"]
    /\ UNCHANGED <<taScope, taDomain, taRoute, taSession, taConfig, taAsn>>

SessionReplaced ==
    /\ Changes < taScope.changes
    /\ taSession' = [id |-> taSession.id + 1, state |-> "authenticating"]
    /\ UNCHANGED <<taScope, taDomain, taNodes, taRoute, taConfig, taAsn>>

(* The session becomes ready, misses heartbeats and resumes, or closes. *)
SessionMoves(state) ==
    /\ taSession.state \notin {state, "closed"}
    /\ taSession' = [taSession EXCEPT !.state = state]
    /\ UNCHANGED <<taScope, taDomain, taNodes, taRoute, taConfig, taAsn>>

ConfigApplied ==
    /\ Changes < taScope.changes
    /\ taConfig' = taConfig + 1
    /\ UNCHANGED <<taScope, taDomain, taNodes, taRoute, taSession, taAsn>>

RouteChanges(active) ==
    /\ Changes < taScope.changes
    /\ taRoute' = [gen |-> taRoute.gen + 1, active |-> active]
    /\ UNCHANGED <<taScope, taDomain, taNodes, taSession, taConfig, taAsn>>

TaNext ==
    \/ ReconcileTunnelEdgeRouteAssignments
    \/ SessionReplaced
    \/ ConfigApplied
    \/ \E active \in BOOLEAN : RouteChanges(active)
    \/ \E state \in {"ready", "stale", "closed"} : SessionMoves(state)
    \/ \E n \in taScope.nodes :
         \/ NodeRestarts(n)
         \/ NodeIsLate(n)
         \/ \E state \in {"up", "full"} : NodeBeats(n, state)
         \/ \E g \in DOMAIN taAsn, h \in DOMAIN taAsn \cup {0}, s, t \in ObservedStates :
              ObserveTunnelRoutes(n, [gen |-> g, state |-> s], [gen |-> h, state |-> t])

TaSpec == TaInit /\ [][TaNext]_taVars

(* ------------------------------- properties ----------------------------- *)

(* The types of the assignments, with the table's check on ready rows. *)
TaTypeOK ==
    /\ Len(taAsn) <= TaMaxAsn
    /\ \A i \in DOMAIN taAsn :
         /\ taAsn[i].node \in TaNodes
         /\ taAsn[i].state \in {"staged", "active", "draining", "detached"}
         /\ taAsn[i].observed = "ready" => Live(taAsn[i])

(* "ready edge processes in distinct failure domains"                       *)
(* (tunnel_edge_reconciliation.go ReconcileTunnelEdgeRouteAssignments): the *)
(* staged and active assignments of a connector are never on two edges of   *)
(* one failure domain, through edges that fill up, come and go.             *)
EdgesInDistinctDomains ==
    \A i, j \in DOMAIN taAsn :
      Live(taAsn[i]) /\ Live(taAsn[j]) /\ taAsn[i].node # taAsn[j].node
        => taDomain[taAsn[i].node] # taDomain[taAsn[j].node]

(* The active assignment of an edge gives way only to an active replacement *)
(* on the same edge, or because what it was bound to is gone: no report     *)
(* about one edge withdraws the route from another (control_plane.sql       *)
(* ActivateTunnelEdgeRouteAssignmentV1, ObserveRoutes).                     *)
ActiveGivesWayToReplacement ==
    \A i \in DOMAIN taAsn : taAsn[i].state = "active" /\ taAsn'[i].state # "active" =>
      \/ \E j \in DOMAIN taAsn' : taAsn'[j].node = taAsn[i].node /\ taAsn'[j].state = "active"
      \/ ~Usable(taAsn[i].node) \/ ~Connected \/ ~taRoute.active
      \/ BindingOf(taAsn[i]) # Binding(taAsn[i].node)
=============================================================================
