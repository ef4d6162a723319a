-------------------------- MODULE TunnelResources --------------------------
(***************************************************************************)
(* Durable tunnels with their routes, public TCP ports, custom domains,    *)
(* configuration generations and idempotent operations, as the tunnelv1    *)
(* service and its SQL repository keep them, and the DNS reconciler that   *)
(* verifies the domains.  Every repository call is one serializable        *)
(* transaction, so it is one step here; the reconciler reads the rows that *)
(* are due, looks each name up and only then writes, so the rows it read   *)
(* are remembered between its steps.                                       *)
(*                                                                         *)
(* A request that is refused, or that repeats an operation already stored, *)
(* changes nothing; only the requests that change something are actions.   *)
(* The key TrNone stands for keys no request ever repeats, whose operation *)
(* rows nothing reads again.                                               *)
(***************************************************************************)
EXTENDS Naturals, FiniteSets

CONSTANTS
    TrTunnels,      \* identifiers of tunnels
    TrRoutes,       \* identifiers of routes
    TrDomains,      \* identifiers of domain bindings
    TrHosts,        \* hostnames a binding may claim
    TrPorts,        \* the configured public TCP port range, naturals above 0
    TrKeys,         \* idempotency keys whose operations are tracked
    TrMaxGen,       \* bound on a tunnel's generation
    TrMaxChecks,    \* bound on a domain's generation
    TrGrace,        \* domainDNSTransientFailureGrace, 3 in the code
    TrGiveUp,       \* lookups before a pending binding fails, 7 in the code
    TrParts,        \* which of {"routes", "domains"} the behaviours exercise
    TrNone

VARIABLES
    trTunnel,       \* tunnels
    trRoute,        \* tunnel_routes
    trConfig,       \* the newest tunnel_config_generations row of each tunnel
    trDomain,       \* tunnel_domains
    trOp,           \* operations, by idempotency key
    trSeen,         \* the rows a reconciler pass has read and not yet applied
    trPart          \* the part of the system this behaviour exercises

trVars == <<trTunnel, trRoute, trConfig, trDomain, trOp, trSeen, trPart>>

TrAssumption ==
    /\ TrPorts \subseteq Nat \ {0}
    /\ TrMaxGen \in Nat \ {0} /\ TrMaxChecks \in Nat \ {0}
    /\ TrGrace \in Nat \ {0} /\ TrGiveUp \in Nat \ {0}
    /\ TrParts \subseteq {"routes", "domains"}

Modes == {"public", "private"}
Protocols == {"http", "tcp", "private_tcp"}
Matches == {"endpoint", "catch_all"}

NoTunnel == [desired |-> "none", gen |-> 0, mode |-> "private",
             expires |-> "never", expired |-> FALSE]
NoRoute == [t |-> TrNone, proto |-> "http", match |-> "endpoint",
            desired |-> "none", gen |-> 0, port |-> 0]
NoDomain == [t |-> TrNone, route |-> TrNone, host |-> TrNone, own |-> "none",
             conflict |-> "clear", attempts |-> 0, cert |-> "none",
             strategy |-> "none", gen |-> 0, deleted |-> FALSE,
             quarantine |-> "none", at |-> 0]
NoOp == [type |-> "none", res |-> TrNone, body |-> <<>>, state |-> "none"]
NoConfig == [gen |-> 0, mode |-> "private", desired |-> "none", routes |-> {}]

LiveTunnel(t) == trTunnel[t].desired \in {"active", "paused"}
LiveRoute(r) == trRoute[r].desired \in {"active", "disabled"}
LiveDomain(d) == trDomain[d].gen > 0 /\ ~trDomain[d].deleted

(* The rows a mutation reads; NoTunnel, NoRoute and NoDomain stand for a   *)
(* row that is not there.                                                  *)
GetPreviewTunnel(t) == trTunnel[t]
GetTunnelForResourceV1(t) == trTunnel[t]
GetTunnelRouteV1(t, r) == IF trRoute[r].t = t THEN trRoute[r] ELSE NoRoute
GetTunnelDomainV1(t, d) == IF trDomain[d].t = t THEN trDomain[d] ELSE NoDomain
Live(tunnel) == tunnel.desired \in {"active", "paused"}

----------------------------------------------------------------------------
(* Operations: one row per account and idempotency key.                    *)

CreatePreviewTunnelOperation(k, type, res, body) ==
    IF k = TrNone THEN trOp
    ELSE [trOp EXCEPT ![k] = [type |-> type, res |-> res, body |-> body,
                              state |-> "running"]]

GetPreviewTunnelOperationByIdempotency(k) ==
    IF k = TrNone THEN NoOp ELSE trOp[k]

(* A resource's operation is replayed only for the resource it names.      *)
beginResourceOperation(k, type, res, body) ==
    LET existing == GetPreviewTunnelOperationByIdempotency(k) IN
    IF existing = NoOp THEN "new"
    ELSE IF /\ existing.type = type
            /\ existing.res = res
            /\ existing.body = body
         THEN "replay" ELSE "conflict"

(* A tunnel's operation carries no resource when it begins; Patch and      *)
(* Transition compare the recorded one afterwards.                         *)
beginOperation(k, type, body) ==
    LET existing == GetPreviewTunnelOperationByIdempotency(k) IN
    IF existing = NoOp THEN "new"
    ELSE IF existing.type = type /\ existing.body = body
         THEN "replay" ELSE "conflict"

CompletePreviewTunnelOperation(ops, k, state) ==
    IF k = TrNone THEN ops ELSE [ops EXCEPT ![k].state = state]

(* The operation of a mutation that changed something stays running for a  *)
(* reconciler; one that changed nothing succeeds at once.                  *)
Settles(k, type, res, body, changed) ==
    trOp' = CompletePreviewTunnelOperation(
                CreatePreviewTunnelOperation(k, type, res, body), k,
                IF changed THEN "running" ELSE "succeeded")

----------------------------------------------------------------------------
(* Routes and configuration generations.                                   *)

ListsEveryRoute(routes, t) ==
    {r \in TrRoutes : routes[r].t = t /\ routes[r].desired \in {"active", "disabled"}}

ListActiveTunnelRoutesForSnapshotV1(routes, t) ==
    {r \in TrRoutes : routes[r].t = t /\ routes[r].desired = "active"}

resourceConfigSnapshot(tunnel, routes, t) ==
    [gen |-> tunnel.gen, mode |-> tunnel.mode, desired |-> tunnel.desired,
     routes |-> {[id |-> r, gen |-> routes[r].gen, proto |-> routes[r].proto,
                  match |-> routes[r].match] :
                     r \in ListActiveTunnelRoutesForSnapshotV1(routes, t)}]

(* Rows are only ever appended, so the row of generation g exists exactly  *)
(* when the newest one is at g or beyond.                                  *)
GetTunnelConfigGenerationV1(t, g) == g <= trConfig[t].gen

(* The snapshot is taken from the tunnel and routes as this transaction    *)
(* leaves them; a missing previous generation refuses the mutation.        *)
createResourceConfigGeneration(t) ==
    LET tunnel == trTunnel'[t] IN
    /\ tunnel.gen > 1 => GetTunnelConfigGenerationV1(t, tunnel.gen - 1)
    /\ trConfig' = [trConfig EXCEPT ![t] =
                        resourceConfigSnapshot(tunnel, trRoute', t)]

BumpTunnelGenerationForResourceV1(t) ==
    /\ LiveTunnel(t) /\ trTunnel[t].gen < TrMaxGen
    /\ trTunnel' = [trTunnel EXCEPT ![t].gen = @ + 1]

HasConflictingTunnelRouteV1(t, r, match) ==
    \E o \in TrRoutes \ {r} :
        trRoute[o].t = t /\ trRoute[o].desired = "active" /\ trRoute[o].match = match

HasActivePrivateTCPRouteV1(t) ==
    \E r \in TrRoutes : /\ trRoute[r].t = t
                        /\ trRoute[r].desired = "active"
                        /\ trRoute[r].proto \in {"tcp", "private_tcp"}

validateEffectiveRouteCandidate(mode, proto, match) ==
    /\ proto = "tcp" => mode = "public" /\ match = "endpoint"
    /\ proto = "private_tcp" => mode = "private" /\ match = "catch_all"

(* The lowest free port of the range, chosen under an advisory lock; 0, no *)
(* port, when the route needs none or none is free.                        *)
FreePorts == {p \in TrPorts : \A r \in TrRoutes : LiveRoute(r) => trRoute[r].port # p}
PublicPort(proto) ==
    IF proto # "tcp" \/ FreePorts = {} THEN 0
    ELSE CHOOSE p \in FreePorts : \A q \in FreePorts : p <= q

NewRoute(t, proto, match) ==
    [t |-> t, proto |-> proto, match |-> match, desired |-> "active",
     gen |-> 1, port |-> PublicPort(proto)]

(* A check constraint refuses a public TCP route without a port.           *)
CreateTunnelRouteV1(t, r, proto, match) ==
    /\ trRoute[r] = NoRoute
    /\ proto = "tcp" => PublicPort(proto) # 0
    /\ trRoute' = [trRoute EXCEPT ![r] = NewRoute(t, proto, match)]

CreateResourceRoute(t, r, k, body) ==
    LET tunnel == GetTunnelForResourceV1(t) IN
    /\ Live(tunnel)
    /\ validateEffectiveRouteCandidate(tunnel.mode, body.proto, body.match)
    /\ beginResourceOperation(k, "route.create", r, body) = "new"
    /\ ~HasConflictingTunnelRouteV1(t, r, body.match)
    /\ CreateTunnelRouteV1(t, r, body.proto, body.match)
    /\ BumpTunnelGenerationForResourceV1(t)
    /\ createResourceConfigGeneration(t)
    /\ Settles(k, "route.create", r, body, TRUE)
    /\ UNCHANGED <<trDomain, trSeen, trPart>>

(* The service draws a fresh route identity for every request it serves.   *)
CreateRoute(t, r, k) ==
    /\ trPart = "routes"
    /\ \E proto \in Protocols, match \in Matches :
           CreateResourceRoute(t, r, k, [proto |-> proto, match |-> match])

Patches == [field : {"state"}, to : {"active", "disabled"}]
           \cup [field : {"proto"}, to : {"http", "private_tcp"}]
           \cup [field : {"match"}, to : Matches]

routeCandidateFromRecord(route, body) ==
    CASE body.field = "state" -> [route EXCEPT !.desired = body.to]
      [] body.field = "proto" -> [route EXCEPT !.proto = body.to]
      [] body.field = "match" -> [route EXCEPT !.match = body.to]

routeRecordChanges(route, body) == routeCandidateFromRecord(route, body) # route

UpdateTunnelRouteV1(r, candidate) ==
    /\ LiveRoute(r)
    /\ trRoute' = [trRoute EXCEPT ![r] = [candidate EXCEPT !.gen = @ + 1]]

PatchResourceRoute(t, r, k, body) ==
    LET tunnel == GetTunnelForResourceV1(t)
        route == GetTunnelRouteV1(t, r)
        candidate == routeCandidateFromRecord(route, body)
        changed == routeRecordChanges(route, body) IN
    /\ Live(tunnel) /\ route.desired \in {"active", "disabled"}
    /\ beginResourceOperation(k, "route.patch", r, body) = "new"
    /\ candidate.proto # route.proto => "tcp" \notin {candidate.proto, route.proto}
    /\ validateEffectiveRouteCandidate(tunnel.mode, candidate.proto, candidate.match)
    /\ ~HasConflictingTunnelRouteV1(t, r, candidate.match)
    /\ IF changed
       THEN /\ UpdateTunnelRouteV1(r, candidate)
            /\ BumpTunnelGenerationForResourceV1(t)
            /\ createResourceConfigGeneration(t)
       ELSE UNCHANGED <<trRoute, trTunnel, trConfig>>
    /\ Settles(k, "route.patch", r, body, changed)
    /\ UNCHANGED <<trDomain, trSeen, trPart>>

PatchRoute(t, r, k) ==
    /\ trPart = "routes"
    /\ \E body \in Patches : PatchResourceRoute(t, r, k, body)

DeleteTunnelRouteV1(r) ==
    trRoute' = [trRoute EXCEPT ![r].desired = "deleted", ![r].gen = @ + 1]

(* Deleting a deleted route succeeds and changes nothing.                  *)
DeleteResourceRoute(t, r, k) ==
    LET changed == LiveRoute(r) IN
    /\ GetTunnelForResourceV1(t) # NoTunnel /\ GetTunnelRouteV1(t, r) # NoRoute
    /\ beginResourceOperation(k, "route.delete", r, <<>>) = "new"
    /\ IF changed
       THEN /\ DeleteTunnelRouteV1(r)
            /\ BumpTunnelGenerationForResourceV1(t)
            /\ createResourceConfigGeneration(t)
       ELSE UNCHANGED <<trRoute, trTunnel, trConfig>>
    /\ Settles(k, "route.delete", r, <<>>, changed)
    /\ UNCHANGED <<trDomain, trSeen, trPart>>

DeleteRoute(t, r, k) ==
    /\ trPart = "routes"
    /\ DeleteResourceRoute(t, r, k)

----------------------------------------------------------------------------
(* Tunnels.                                                                *)

CreatePreviewTunnel(t, mode, expires) ==
    trTunnel' = [trTunnel EXCEPT ![t] =
        [desired |-> "active", gen |-> 1, mode |-> mode, expires |-> expires,
         expired |-> FALSE]]

CreatePreviewTunnelRoute(t, r, proto, match) ==
    /\ trRoute[r] = NoRoute
    /\ proto = "tcp" => PublicPort(proto) # 0
    /\ trRoute' = [trRoute EXCEPT ![r] = NewRoute(t, proto, match)]

(* A tcp origin makes a catch-all private_tcp route in a private tunnel    *)
(* and a listening tcp route in a public one.                              *)
createInitialRoute(t, r, mode, scheme) ==
    CASE scheme = "http" -> CreatePreviewTunnelRoute(t, r, "http", "endpoint")
      [] scheme = "tcp" /\ mode = "private" ->
             CreatePreviewTunnelRoute(t, r, "private_tcp", "catch_all")
      [] scheme = "tcp" /\ mode = "public" ->
             CreatePreviewTunnelRoute(t, r, "tcp", "endpoint")

createInitialConfigGeneration(t) ==
    trConfig' = [trConfig EXCEPT ![t] =
                     resourceConfigSnapshot(trTunnel'[t], trRoute', t)]

Create(t, r, k, body) ==
    /\ trTunnel[t] = NoTunnel
    /\ beginOperation(k, "tunnel.create", body) = "new"
    /\ CreatePreviewTunnel(t, body.mode, body.expires)
    /\ createInitialRoute(t, r, body.mode, body.scheme)
    /\ createInitialConfigGeneration(t)
    /\ Settles(k, "tunnel.create", t, body, TRUE)
    /\ UNCHANGED <<trDomain, trSeen, trPart>>

(* An expiry must lie in the future when it is set.                        *)
CreateTunnel(t, r, k) ==
    \E mode \in Modes, expires \in {"never", "future"}, scheme \in {"http", "tcp"} :
        /\ trPart = "domains" => <<mode, expires>> = <<"public", "never">>
        /\ Create(t, r, k, [mode |-> mode, expires |-> expires, scheme |-> scheme])

TunnelPatches == [field : {"mode"}, to : Modes]
                 \cup [field : {"expires"}, to : {"never", "future"}]

(* Any two instants in the future are told apart by the code, so setting   *)
(* one always counts as a change.                                          *)
patchChanges(t, body) ==
    IF body.field = "mode" THEN body.to # trTunnel[t].mode
    ELSE body.to = "future" \/ trTunnel[t].expires # "never"

(* Extending or clearing the expiry of an expired tunnel resets its        *)
(* summary.                                                                *)
UpdatePreviewTunnelFieldsV1(t, body) ==
    /\ trTunnel[t].gen < TrMaxGen
    /\ trTunnel' = [trTunnel EXCEPT ![t] =
           IF body.field = "mode"
           THEN [@ EXCEPT !.mode = body.to, !.gen = @ + 1]
           ELSE [@ EXCEPT !.expires = body.to, !.expired = FALSE, !.gen = @ + 1]]

Patch(t, k, body) ==
    LET changed == patchChanges(t, body) IN
    /\ beginOperation(k, "tunnel.patch", body) = "new"
    /\ Live(GetPreviewTunnel(t))
    /\ body.field = "mode" /\ body.to # GetPreviewTunnel(t).mode
           => ~HasActivePrivateTCPRouteV1(t)
    /\ IF changed
       THEN /\ UpdatePreviewTunnelFieldsV1(t, body)
            /\ UNCHANGED trRoute
            /\ createResourceConfigGeneration(t)
       ELSE UNCHANGED <<trTunnel, trRoute, trConfig>>
    /\ Settles(k, "tunnel.patch", t, body, changed)
    /\ UNCHANGED <<trDomain, trSeen, trPart>>

PatchTunnel(t, k) ==
    /\ trPart = "routes"
    /\ \E body \in TunnelPatches : Patch(t, k, body)

UpdatePreviewTunnelDesiredState(t, desired) ==
    /\ trTunnel[t].gen < TrMaxGen
    /\ trTunnel' = [trTunnel EXCEPT ![t].desired = desired, ![t].gen = @ + 1]

DeleteAllTunnelRoutesV1(t) ==
    trRoute' = [r \in TrRoutes |->
        IF trRoute[r].t = t /\ LiveRoute(r)
        THEN [trRoute[r] EXCEPT !.desired = "deleted", !.gen = @ + 1]
        ELSE trRoute[r]]

(* Deleting a deleted tunnel succeeds; any other transition of it is       *)
(* refused.  The domains of a deleted tunnel are left as they are.         *)
Transition(t, k, desired) ==
    LET tunnel == GetPreviewTunnel(t)
        changed == tunnel.desired # desired IN
    /\ tunnel # NoTunnel
    /\ beginOperation(k, desired, <<>>) = "new"
    /\ desired = "deleted" \/ Live(tunnel)
    /\ IF changed
       THEN /\ UpdatePreviewTunnelDesiredState(t, desired)
            /\ IF desired = "deleted" THEN DeleteAllTunnelRoutesV1(t)
               ELSE UNCHANGED trRoute
            /\ createResourceConfigGeneration(t)
       ELSE UNCHANGED <<trTunnel, trRoute, trConfig>>
    /\ Settles(k, desired, t, <<>>, changed)
    /\ UNCHANGED <<trDomain, trSeen, trPart>>

PauseTunnel(t, k) == trPart = "routes" /\ Transition(t, k, "paused")
ResumeTunnel(t, k) == trPart = "routes" /\ Transition(t, k, "active")
DeleteTunnel(t, k) == Transition(t, k, "deleted")

ListExpiredPreviewTunnelsV1 ==
    {t \in TrTunnels : /\ LiveTunnel(t)
                       /\ trTunnel[t].expires = "past"
                       /\ ~trTunnel[t].expired}

MarkExpiredPreviewTunnelV1(expiring) ==
    trTunnel' = [t \in TrTunnels |->
        IF t \in expiring THEN [trTunnel[t] EXCEPT !.expired = TRUE]
        ELSE trTunnel[t]]

(* The sweep's key names the tunnel and its expiry, so no other request    *)
(* repeats it; it changes the summary and nothing a connector is told.     *)
ReconcileExpired ==
    /\ ListExpiredPreviewTunnelsV1 # {}
    /\ MarkExpiredPreviewTunnelV1(ListExpiredPreviewTunnelsV1)
    /\ UNCHANGED <<trRoute, trConfig, trDomain, trOp, trSeen, trPart>>

ExpiryPasses(t) ==
    /\ trTunnel[t].expires = "future"
    /\ trTunnel' = [trTunnel EXCEPT ![t].expires = "past"]
    /\ UNCHANGED <<trRoute, trConfig, trDomain, trOp, trSeen, trPart>>

----------------------------------------------------------------------------
(* Domain bindings.                                                        *)

(* The binding of a hostname that was created last.                        *)
GetTunnelDomainByHostnameV1(host) ==
    LET named == {d \in TrDomains : trDomain[d].host = host} IN
    IF named = {} THEN NoDomain
    ELSE trDomain[CHOOSE d \in named :
                     \A o \in named : trDomain[o].at <= trDomain[d].at]

domainClaimBlocked(existing) ==
    existing # NoDomain /\ (~existing.deleted \/ existing.quarantine = "running")

CreateTunnelDomainV1(d, t, r, host, strategy) ==
    trDomain' = [trDomain EXCEPT ![d] =
        [t |-> t, route |-> r, host |-> host, own |-> "pending",
         conflict |-> "clear", attempts |-> 0, strategy |-> strategy,
         cert |-> IF strategy = "none" THEN "not_applicable" ELSE "pending",
         gen |-> 1, deleted |-> FALSE, quarantine |-> "none",
         at |-> Cardinality({o \in TrDomains : trDomain[o].gen > 0}) + 1]]

CreateResourceDomain(d, t, r, k, body) ==
    /\ trDomain[d] = NoDomain
    /\ Live(GetTunnelForResourceV1(t))
    /\ GetTunnelRouteV1(t, r).desired \in {"active", "disabled"}
    /\ beginResourceOperation(k, "domain.create", d, body) = "new"
    /\ ~domainClaimBlocked(GetTunnelDomainByHostnameV1(body.host))
    /\ CreateTunnelDomainV1(d, t, r, body.host, body.strategy)
    /\ Settles(k, "domain.create", d, body, TRUE)
    /\ UNCHANGED <<trTunnel, trRoute, trConfig, trSeen, trPart>>

(* A public TCP route takes no certificate, any other route needs one.     *)
normalizeDomainCertificateStrategy(proto) ==
    IF proto = "tcp" THEN "none" ELSE "managed"

CreateDomain(d, t, r, k) ==
    /\ trPart = "domains"
    /\ \E host \in TrHosts :
           LET strategy == normalizeDomainCertificateStrategy(trRoute[r].proto) IN
           CreateResourceDomain(d, t, r, k, [host |-> host, strategy |-> strategy])

DeleteTunnelDomainV1(d) ==
    /\ trDomain[d].gen < TrMaxChecks
    /\ trDomain' = [trDomain EXCEPT ![d] =
        [@ EXCEPT !.own = "revoked", !.conflict = "quarantined",
                  !.quarantine = "running", !.deleted = TRUE, !.gen = @ + 1]]

DeleteResourceDomain(t, d, k) ==
    /\ Live(GetTunnelForResourceV1(t)) /\ GetTunnelDomainV1(t, d) # NoDomain
    /\ beginResourceOperation(k, "domain.delete", d, <<>>) = "new"
    /\ IF LiveDomain(d) THEN DeleteTunnelDomainV1(d) ELSE UNCHANGED trDomain
    /\ Settles(k, "domain.delete", d, <<>>, FALSE)
    /\ UNCHANGED <<trTunnel, trRoute, trConfig, trSeen, trPart>>

(* A verified binding stays verified, and its count of failed lookups      *)
(* starts again.                                                           *)
BeginTunnelDomainVerificationV1(d) ==
    /\ LiveDomain(d) /\ trDomain[d].gen < TrMaxChecks
    /\ trDomain' = [trDomain EXCEPT ![d] =
        [@ EXCEPT !.own = IF @ \in {"pending", "failed"} THEN "pending" ELSE @,
                  !.conflict = IF @ = "conflicted" THEN "clear" ELSE @,
                  !.attempts = 0, !.gen = @ + 1]]

BeginResourceDomainVerification(t, d, k) ==
    /\ Live(GetTunnelForResourceV1(t)) /\ GetTunnelDomainV1(t, d) # NoDomain
    /\ beginResourceOperation(k, "domain.verify", d, <<>>) = "new"
    /\ BeginTunnelDomainVerificationV1(d)
    /\ Settles(k, "domain.verify", d, <<>>, TRUE)
    /\ UNCHANGED <<trTunnel, trRoute, trConfig, trSeen, trPart>>

mutateDomain(t, d, k) ==
    DeleteResourceDomain(t, d, k) \/ BeginResourceDomainVerification(t, d, k)

----------------------------------------------------------------------------
(* The DNS reconciler.                                                     *)

QuarantinePasses(d) ==
    /\ trDomain[d].quarantine = "running"
    /\ trDomain' = [trDomain EXCEPT ![d].quarantine = "passed"]
    /\ UNCHANGED <<trTunnel, trRoute, trConfig, trOp, trSeen, trPart>>

ReleaseExpiredTunnelDomainQuarantinesV1 ==
    trDomain' = [d \in TrDomains |->
        IF trDomain[d].quarantine = "passed"
        THEN [trDomain[d] EXCEPT !.quarantine = "none", !.conflict = "clear"]
        ELSE trDomain[d]]

ListDueTunnelDomainsV1 ==
    {d \in TrDomains : LiveDomain(d) /\ trDomain[d].own \in {"pending", "failed", "verified"}}

(* A pass releases the quarantines that have run out and reads the due     *)
(* rows; which of them are due is a matter of time.                        *)
Reconcile ==
    /\ \A d \in TrDomains : trSeen[d] = NoDomain
    /\ ReleaseExpiredTunnelDomainQuarantinesV1
    /\ \E due \in SUBSET ListDueTunnelDomainsV1 :
           trSeen' = [d \in TrDomains |->
                          IF d \in due THEN trDomain[d] ELSE NoDomain]
    /\ UNCHANGED <<trTunnel, trRoute, trConfig, trOp, trPart>>

(* External: what the lookup of a name answers.                            *)
Observations == {"match", "wrong_record", "dns_not_found", "transient"}

domainDNSObservationState(row, seen) ==
    CASE seen = "match" -> [own |-> "verified", conflict |-> "clear", proved |-> TRUE]
      [] seen = "wrong_record" -> [own |-> "failed", conflict |-> "conflicted", proved |-> FALSE]
      [] seen = "dns_not_found" -> [own |-> "failed", conflict |-> "clear", proved |-> FALSE]
      [] OTHER ->
            [own |-> IF row.own = "verified" /\ row.attempts + 1 < TrGrace
                     THEN "verified"
                     ELSE IF row.own \in {"failed", "verified"} \/ row.attempts >= TrGiveUp
                     THEN "failed" ELSE "pending",
             conflict |-> "clear", proved |-> FALSE]

(* The write is fenced by the generation of the row that was read.         *)
DNSObservationFence(d, row) == LiveDomain(d) /\ trDomain[d].gen = row.gen

ApplyTunnelDomainDNSObservationV1(d, row, result) ==
    /\ trDomain[d].gen < TrMaxChecks
    /\ trDomain' = [trDomain EXCEPT ![d] =
        [@ EXCEPT !.own = result.own, !.conflict = result.conflict,
                  !.attempts = IF result.proved THEN 0 ELSE @ + 1,
                  !.cert = IF result.proved /\ @ = "pending" THEN "issuing" ELSE @,
                  !.gen = @ + 1]]

SettlesDomain(ops, d, type, state) ==
    [k \in TrKeys |-> IF /\ ops[k].type = type /\ ops[k].res = d
                         /\ ops[k].state = "running"
                      THEN [ops[k] EXCEPT !.state = state] ELSE ops[k]]

CompleteTunnelDomainVerificationOperationsV1(ops, d) ==
    SettlesDomain(ops, d, "domain.verify", "succeeded")

CompleteTunnelDomainCreateOperationV1(ops, d) ==
    SettlesDomain(ops, d, "domain.create", "succeeded")

(* A binding with a certificate waits for it; its operation keeps running. *)
AdvanceTunnelDomainCreateOperationsV1(ops, d) ==
    SettlesDomain(ops, d, "domain.create", "running")

(* One row of the pass.  A row that changed since it was read is left to   *)
(* the next pass.                                                          *)
reconcileOne(d) ==
    LET row == trSeen[d] IN
    /\ row # NoDomain
    /\ trSeen' = [trSeen EXCEPT ![d] = NoDomain]
    /\ IF DNSObservationFence(d, row)
       THEN \E seen \in Observations :
              LET result == domainDNSObservationState(row, seen)
                  verified == CompleteTunnelDomainVerificationOperationsV1(trOp, d) IN
              /\ ApplyTunnelDomainDNSObservationV1(d, row, result)
              /\ trOp' = IF ~result.proved THEN trOp
                         ELSE IF row.strategy = "none"
                              THEN CompleteTunnelDomainCreateOperationV1(verified, d)
                              ELSE AdvanceTunnelDomainCreateOperationsV1(verified, d)
       ELSE UNCHANGED <<trDomain, trOp>>
    /\ UNCHANGED <<trTunnel, trRoute, trConfig, trPart>>

(* The first error, or a restart, ends the pass with rows unvisited.       *)
ReconcileStops ==
    /\ \E d \in TrDomains : trSeen[d] # NoDomain
    /\ trSeen' = [d \in TrDomains |-> NoDomain]
    /\ UNCHANGED <<trTunnel, trRoute, trConfig, trDomain, trOp, trPart>>

----------------------------------------------------------------------------

TrInit ==
    /\ trTunnel = [t \in TrTunnels |-> NoTunnel]
    /\ trRoute = [r \in TrRoutes |-> NoRoute]
    /\ trConfig = [t \in TrTunnels |-> NoConfig]
    /\ trDomain = [d \in TrDomains |-> NoDomain]
    /\ trOp = [k \in TrKeys |-> NoOp]
    /\ trSeen = [d \in TrDomains |-> NoDomain]
    /\ trPart \in TrParts

TrNext ==
    \/ \E k \in TrKeys \cup {TrNone} :
          \/ \E t \in TrTunnels :
                \/ \E r \in TrRoutes : \/ CreateTunnel(t, r, k)
                                       \/ CreateRoute(t, r, k)
                                       \/ PatchRoute(t, r, k)
                                       \/ DeleteRoute(t, r, k)
                \/ PatchTunnel(t, k)
                \/ PauseTunnel(t, k)
                \/ ResumeTunnel(t, k)
                \/ DeleteTunnel(t, k)
                \/ \E d \in TrDomains, r \in TrRoutes : CreateDomain(d, t, r, k)
          \/ \E t \in TrTunnels, d \in TrDomains : mutateDomain(t, d, k)
    \/ ReconcileExpired
    \/ \E t \in TrTunnels : ExpiryPasses(t)
    \/ \E d \in TrDomains : QuarantinePasses(d) \/ reconcileOne(d)
    \/ Reconcile
    \/ ReconcileStops

TrSpec == TrInit /\ [][TrNext]_trVars

----------------------------------------------------------------------------
(* Properties.                                                             *)

(* Every row holds values its columns admit.                               *)
TrTypeOK ==
    /\ \A t \in TrTunnels :
          /\ trTunnel[t].desired \in {"none", "active", "paused", "deleted"}
          /\ trTunnel[t].gen \in 0 .. TrMaxGen
          /\ trTunnel[t].expires \in {"never", "future", "past"}
    /\ \A r \in TrRoutes :
          /\ trRoute[r].desired \in {"none", "active", "disabled", "deleted"}
          /\ trRoute[r].port \in TrPorts \cup {0}
    /\ \A d \in TrDomains :
          /\ trDomain[d].own \in {"none", "pending", "failed", "verified", "revoked"}
          /\ trDomain[d].gen \in 0 .. TrMaxChecks
    /\ \A k \in TrKeys : trOp[k].state \in {"none", "running", "succeeded"}

(* Changing a tunnel's audience never turns a private TCP route into a     *)
(* publication, whatever order routes are added, disabled, re-enabled and  *)
(* patched in: an active private_tcp route is in a private tunnel and an   *)
(* active tcp route is in a public one (Patch, PatchResourceRoute).        *)
NoSilentPublication ==
    \A r \in TrRoutes : trRoute[r].desired = "active" =>
        LET mode == trTunnel[trRoute[r].t].mode IN
        /\ trRoute[r].proto = "private_tcp" => mode = "private"
        /\ trRoute[r].proto = "tcp" => mode = "public"

(* What a connector is handed is never behind what the API has accepted:   *)
(* the newest configuration generation carries the tunnel's generation,    *)
(* access mode and state and lists exactly its active routes, each as it   *)
(* is now (createResourceConfigGeneration in every mutation).              *)
ConfigIsCurrent ==
    \A t \in TrTunnels :
        /\ trConfig[t].gen = trTunnel[t].gen
        /\ trConfig[t].mode = trTunnel[t].mode
        /\ trConfig[t].desired = trTunnel[t].desired
        /\ {<<c.id, c.gen, c.proto, c.match>> : c \in trConfig[t].routes}
               = {<<r, trRoute[r].gen, trRoute[r].proto, trRoute[r].match>> :
                      r \in {o \in TrRoutes : /\ trRoute[o].t = t
                                              /\ trRoute[o].desired = "active"}}

(* Nothing the public can name leads to two places: no two live routes     *)
(* hold one public port, no two active routes of a tunnel match the same   *)
(* requests, and no two live bindings claim one hostname.                  *)
PublicNamesAreUnshared ==
    /\ \A r, s \in TrRoutes : r # s /\ LiveRoute(r) /\ LiveRoute(s) =>
          /\ trRoute[r].port = trRoute[s].port => trRoute[r].port = 0
          /\ ~ /\ trRoute[r].t = trRoute[s].t
               /\ trRoute[r].match = trRoute[s].match
               /\ "disabled" \notin {trRoute[r].desired, trRoute[s].desired}
    /\ \A d, e \in TrDomains : d # e /\ LiveDomain(d) /\ LiveDomain(e) =>
          trDomain[d].host # trDomain[e].host

(* A lookup that raced a request proves nothing: a binding becomes         *)
(* verified, and its certificate is asked for, only from the row exactly   *)
(* as the reconciler read it before looking the name up (reconcileOne).    *)
ProofIsOfThisRow ==
    \A d \in TrDomains :
        trDomain'[d].own = "verified" /\ trDomain[d].own # "verified"
            => trSeen[d] = trDomain[d]

============================================================================
