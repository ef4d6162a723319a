---------------------------- MODULE PreviewLeases ----------------------------
(***************************************************************************)
(* Ephemeral preview leases and the custom domains bound to them.          *)
(*                                                                         *)
(* A preview.create request commits a lease with its domains and an        *)
(* operation, and only then asks the owning machine to serve it.  The      *)
(* answer may be an acceptance, a rejection, or nothing at all; the host   *)
(* reports readiness on its own.  Renewal, stop and a reconciler end or    *)
(* prolong the lease, every one of them advancing its generation, and a    *)
(* DNS worker verifies the domains from rows it read earlier.  One step is *)
(* one database transaction or one answer of the machine; deadlines are    *)
(* flags that may be raised at any time.                                   *)
(***************************************************************************)
EXTENDS Naturals, FiniteSets

CONSTANTS PvLeases,    \* lease identities
          PvAccounts,  \* accounts that own leases
          PvDomains,   \* domain binding identities
          PvHosts,     \* hostnames
          PvRequests,  \* create requests in flight
          PvWorkers,   \* DNS reconciliation workers
          PvParts,     \* parts explored: "dns" (one lease, its domains verified),
                       \*   "claims" (leases of several accounts, one active
                       \*   at a time, that claim the same hostnames)
          PvMaxGen,    \* bound on lease and domain generations ("claims": one less)
          PvGrace,     \* transient failures after which a proof is dropped
          PvNone       \* no value

PvAssumption == PvMaxGen \in Nat \ {0} /\ PvGrace \in Nat \ {0}

VARIABLES pvLease,   \* preview_leases with the state of its create operation
          pvDomain,  \* preview_domains with the certificate bound to the row
          pvCall,    \* the dispatch each create request waits for
          pvCheck,   \* the row each DNS worker read before resolving
          pvPart     \* the part this behaviour explores

pvVars == <<pvLease, pvDomain, pvCall, pvCheck, pvPart>>

Terminals == {"none", "active", "stopped", "expired", "owner_lost", "failed"}
Readiness == {"pending", "ready", "failed", "released"}

NoPreview == [account |-> PvNone, generation |-> 0, terminal |-> "none",
              ready |-> "pending", late |-> "no", silent |-> FALSE,
              op |-> "none"]

NoPreviewDomain == [lease |-> PvNone, host |-> PvNone, pgen |-> 0,
                    generation |-> 0, owner |-> "none", conflict |-> "clear",
                    attempts |-> 0, cert |-> "none", bound |-> 0,
                    deleted |-> FALSE, lapsed |-> FALSE, verify |-> "none"]

NoDispatch == [lease |-> PvNone, generation |-> 0]
NoCheck == [domain |-> PvNone, pgen |-> 0, generation |-> 0,
            owner |-> "none", attempts |-> 0]

PvInit ==
  /\ pvLease = [l \in PvLeases |-> NoPreview]
  /\ pvDomain = [d \in PvDomains |-> NoPreviewDomain]
  /\ pvCall = [q \in PvRequests |-> NoDispatch]
  /\ pvCheck = [w \in PvWorkers |-> NoCheck]
  /\ pvPart \in PvParts

-----------------------------------------------------------------------------
(* Domain rows.                                                            *)

LiveDomains == {d \in PvDomains : pvDomain[d].lease # PvNone /\ ~pvDomain[d].deleted}
UnusedDomains == {d \in PvDomains : pvDomain[d].lease = PvNone}

\* Bounds of the two parts: domains that may still be bound, generations.
FreshDomains == IF pvPart = "claims" \/ UnusedDomains = PvDomains
                THEN UnusedDomains ELSE {}
Bounded == IF pvPart = "claims" THEN PvMaxGen - 1 ELSE PvMaxGen

DomainsOf(l) == {d \in LiveDomains : pvDomain[d].lease = l}
AccountOf(d) == pvLease[pvDomain[d].lease].account

\* The table constraint of preview_domains on deleted rows.
DomainRowCheck(r) == r.deleted => r.conflict = "quarantined"

HostnameClaimable(h, a) ==
  \A d \in PvDomains \ UnusedDomains :
    pvDomain[d].host = h => /\ pvDomain[d].deleted
                            /\ AccountOf(d) = a \/ pvDomain[d].lapsed

requireActiveLease(l) == pvLease[l].terminal = "active" /\ pvLease[l].late = "no"

CreatePreviewDomainV1(l, g, h) ==
  [NoPreviewDomain EXCEPT !.lease = l, !.host = h, !.pgen = g,
     !.generation = 1, !.owner = "pending", !.cert = "pending"]

BeginPreviewDomainVerificationV1(r) ==
  [r EXCEPT !.owner = "pending", !.conflict = "clear", !.attempts = 0,
            !.generation = @ + 1]

Quarantined(r, owner) ==
  [r EXCEPT !.owner = owner, !.cert = "revoked", !.conflict = "quarantined",
            !.deleted = TRUE, !.attempts = 0, !.generation = @ + 1]

DeletePreviewDomainV1(r) == Quarantined(r, "revoked")

AdvancePreviewDomainTargetGenerationV1(doms, l, from, to) ==
  [d \in PvDomains |-> IF d \in DomainsOf(l) /\ doms[d].pgen = from
                       THEN [doms[d] EXCEPT !.pgen = to] ELSE doms[d]]

RebindsCertificates(doms, l, from, to) ==
  [d \in PvDomains |->
     IF /\ d \in DomainsOf(l) /\ doms[d].pgen = to /\ doms[d].bound = from
        /\ doms[d].owner = "verified" /\ doms[d].conflict = "clear"
     THEN [doms[d] EXCEPT !.bound = to] ELSE doms[d]]

RevokesCertificates(doms, l) ==
  [d \in PvDomains |-> IF doms[d].lease = l THEN [doms[d] EXCEPT !.bound = 0]
                       ELSE doms[d]]

WithdrawsCurrentDomains(doms, l, g) ==
  [d \in PvDomains |-> IF d \in DomainsOf(l) /\ doms[d].pgen + 1 = g
                       THEN Quarantined(doms[d], "expired") ELSE doms[d]]

WithdrawPreviewDomainsV1(doms, l, g) ==
  [d \in PvDomains |-> IF d \in DomainsOf(l) /\ doms[d].pgen <= g
                       THEN Quarantined(doms[d], "expired") ELSE doms[d]]

\* What a terminal transition to generation g does to the lease's domains.
Withdrawn(l, g) ==
  RevokesCertificates(WithdrawPreviewDomainsV1(pvDomain, l, g), l)

-----------------------------------------------------------------------------
(* The lease and its create operation.                                     *)

CreatePreviewLease(a) ==
  [NoPreview EXCEPT !.account = a, !.generation = 1, !.terminal = "active",
                    !.op = "running"]

AdvancePreviewLeaseLifecycleV1(r) == [r EXCEPT !.generation = @ + 1]
AdvancePreviewLeaseReadinessV1(r) == [r EXCEPT !.generation = @ + 1]

RenewPreviewLeaseV1(r) == [r EXCEPT !.late = "no", !.silent = FALSE]

\* The clock no longer matters to a lease that has ended.
Ended(r, terminal, ready) ==
  [r EXCEPT !.terminal = terminal, !.ready = ready, !.late = "no", !.silent = FALSE]

StopPreviewLeaseV1(r) == Ended(r, "stopped", "released")

ExpirePreviewLeasesV1(r) ==
  [Ended(r, "expired", "released") EXCEPT !.generation = @ + 1]

MarkLostPreviewLeasesV1(r) ==
  [Ended(r, "owner_lost", "released") EXCEPT !.generation = @ + 1]

MarksLease(r, state) ==
  IF state = "failed" THEN Ended(r, "failed", "failed") ELSE [r EXCEPT !.ready = state]

completePreviewLeaseCreateOperation(r) ==
  [r EXCEPT !.op = IF @ = "running" THEN "succeeded" ELSE @]

failPreviewLeaseCreateOperation(r) ==
  [r EXCEPT !.op = IF @ = "running" THEN "failed" ELSE @]

MarkPreviewLeaseCreateOperationUncertainV1(r) ==
  [r EXCEPT !.op = IF @ \in {"running", "uncertain"} THEN "uncertain" ELSE @]

\* MarkPreviewLeaseReadyV1 against the generation g the caller saw: a terminal
\* lease is left alone, another generation is refused.
MarkPreviewLeaseReadyV1(l, g, state) ==
  LET r == MarksLease(AdvancePreviewLeaseReadinessV1(pvLease[l]), state)
  IN IF pvLease[l].terminal = "active" /\ pvLease[l].generation = g
     THEN pvLease' = [pvLease EXCEPT ![l] =
            IF state = "failed" THEN failPreviewLeaseCreateOperation(r)
            ELSE completePreviewLeaseCreateOperation(r)]
     ELSE UNCHANGED pvLease

-----------------------------------------------------------------------------
(* Requests: create, dispatch, renew, stop.                                *)

CreateForPreviewTx(l, g, claims) ==
  pvDomain' = [d \in PvDomains |->
    IF d \in DOMAIN claims THEN CreatePreviewDomainV1(l, g, claims[d])
    ELSE pvDomain[d]]

DispatchTo(q, l, g) == pvCall' = [pvCall EXCEPT ![q] = [lease |-> l, generation |-> g]]
DispatchOver(q) == pvCall' = [pvCall EXCEPT ![q] = NoDispatch]

\* The create transaction: the lease, its domains and the operation together.
CreatePreviewLeaseV1(l, a) ==
  /\ pvLease[l].terminal = "none"
  /\ \A k \in PvLeases :
       pvLease[k].terminal # "none" => pvPart = "claims" /\ pvLease[k].terminal # "active"
  /\ \E new \in SUBSET FreshDomains : \E claims \in [new -> PvHosts] :
       /\ \A d, e \in new : claims[d] = claims[e] => d = e
       /\ \A d \in new : HostnameClaimable(claims[d], a)
       /\ CreateForPreviewTx(l, 1, claims)
  /\ pvLease' = [pvLease EXCEPT ![l] = CreatePreviewLease(a)]

\* Service.Create: the dispatch to the machine follows the commit.
PvCreate(q, l, a) ==
  /\ pvCall[q] = NoDispatch
  /\ CreatePreviewLeaseV1(l, a)
  /\ DispatchTo(q, l, 1)
  /\ UNCHANGED pvCheck

createOperationNeedsDispatch(l) == pvLease[l].op \in {"running", "uncertain"}

\* The same request again, after a lost answer: the stored lease is returned
\* and dispatched once more while its operation is open.
PvReplayCreate(q, l) ==
  /\ pvCall[q] = NoDispatch /\ pvLease[l].terminal # "none"
  /\ createOperationNeedsDispatch(l)
  /\ DispatchTo(q, l, pvLease[l].generation)
  /\ UNCHANGED <<pvLease, pvDomain, pvCheck>>

\* The machine accepted, or this process stopped while waiting.
dispatchCreatedLease(q) ==
  /\ pvCall[q] # NoDispatch
  /\ DispatchOver(q)
  /\ UNCHANGED <<pvLease, pvDomain, pvCheck>>

MarkPreviewLeaseDispatchUncertainV1(q) ==
  /\ pvCall[q] # NoDispatch
  /\ pvLease' = [pvLease EXCEPT ![pvCall[q].lease] =
                   MarkPreviewLeaseCreateOperationUncertainV1(@)]
  /\ DispatchOver(q)
  /\ UNCHANGED <<pvDomain, pvCheck>>

\* A known rejection fails the lease at the generation that was dispatched.
recordDispatchFailure(q) ==
  /\ pvCall[q] # NoDispatch /\ pvCall[q].generation < Bounded
  /\ MarkPreviewLeaseReadyV1(pvCall[q].lease, pvCall[q].generation, "failed")
  /\ DispatchOver(q)
  /\ UNCHANGED <<pvDomain, pvCheck>>

\* The host proves allocation, edge and origin against the current ETag.
ObserveDeviceReadiness(l) ==
  /\ requireActiveLease(l) /\ pvLease[l].generation < Bounded
  /\ MarkPreviewLeaseReadyV1(l, pvLease[l].generation, "ready")
  /\ UNCHANGED <<pvDomain, pvCall, pvCheck>>

\* Renewal is refused once the user's own deadline has passed, not once the
\* lease deadline has.
RenewsLease(l) ==
  LET g == pvLease[l].generation
      moved == AdvancePreviewDomainTargetGenerationV1(pvDomain, l, g, g + 1)
  IN /\ pvLease[l].terminal = "active" /\ g < Bounded
     /\ pvLease' = [pvLease EXCEPT ![l] =
                      RenewPreviewLeaseV1(AdvancePreviewLeaseLifecycleV1(@))]
     /\ pvDomain' = RebindsCertificates(moved, l, g, g + 1)

PvRenew(l) ==
  /\ pvLease[l].late # "user"
  /\ RenewsLease(l)
  /\ UNCHANGED <<pvCall, pvCheck>>

StopsLease(l) ==
  /\ pvLease[l].terminal = "active" /\ pvLease[l].generation < Bounded
  /\ pvLease' = [pvLease EXCEPT ![l] =
                   StopPreviewLeaseV1(AdvancePreviewLeaseLifecycleV1(@))]
  /\ pvDomain' = Withdrawn(l, pvLease[l].generation + 1)

PvStop(l) == StopsLease(l) /\ UNCHANGED <<pvCall, pvCheck>>

-----------------------------------------------------------------------------
(* The lease reconciler: one pass expires every overdue lease and marks    *)
(* every silent owner lost, in one transaction.                            *)

OverdueLeases == {l \in PvLeases : pvLease[l].terminal = "active" /\ pvLease[l].late # "no"}
LostLeases == {l \in PvLeases : requireActiveLease(l) /\ pvLease[l].silent}

ReconcilePreviewLeasesV1 ==
  LET ended == OverdueLeases \cup LostLeases
      withdrawn(d) == pvDomain[d].lease \in ended
  IN /\ ended # {}
     /\ \A l \in ended : pvLease[l].generation < Bounded
     /\ pvLease' = [l \in PvLeases |->
          IF l \in OverdueLeases THEN ExpirePreviewLeasesV1(pvLease[l])
          ELSE IF l \in LostLeases THEN MarkLostPreviewLeasesV1(pvLease[l])
          ELSE pvLease[l]]
     /\ pvDomain' = [d \in PvDomains |->
          IF withdrawn(d)
          THEN Withdrawn(pvDomain[d].lease,
                         pvLease[pvDomain[d].lease].generation + 1)[d]
          ELSE pvDomain[d]]

PvReconcile == ReconcilePreviewLeasesV1 /\ UNCHANGED <<pvCall, pvCheck>>

DeadlinePasses(l) ==
  /\ pvLease[l].terminal = "active" /\ pvLease[l].late # "user"
  /\ \E late \in {"lease", "user"} :
       pvLease' = [pvLease EXCEPT ![l].late = late]
  /\ UNCHANGED <<pvDomain, pvCall, pvCheck>>

OwnerFallsSilent(l) ==
  /\ pvLease[l].terminal = "active" /\ ~pvLease[l].silent
  /\ pvLease' = [pvLease EXCEPT ![l].silent = TRUE]
  /\ UNCHANGED <<pvDomain, pvCall, pvCheck>>

QuarantineLapses(d) ==
  /\ pvDomain[d].deleted /\ ~pvDomain[d].lapsed
  /\ pvDomain' = [pvDomain EXCEPT ![d].lapsed = TRUE]
  /\ UNCHANGED <<pvLease, pvCall, pvCheck>>

-----------------------------------------------------------------------------
(* Custom domains: requests of the owner.                                  *)

AddDomain(l, d, h) ==
  /\ requireActiveLease(l) /\ d \in FreshDomains
  /\ HostnameClaimable(h, pvLease[l].account)
  /\ pvDomain' = [pvDomain EXCEPT ![d] =
                    CreatePreviewDomainV1(l, pvLease[l].generation, h)]
  /\ UNCHANGED <<pvLease, pvCall, pvCheck>>

\* The common guard of verify and delete: a live binding of an active lease
\* that follows the lease's present generation.
MutableDomain(d) ==
  /\ d \in LiveDomains /\ requireActiveLease(pvDomain[d].lease)
  /\ pvDomain[d].pgen = pvLease[pvDomain[d].lease].generation
  /\ pvDomain[d].generation < Bounded

VerifyDomain(d) ==
  /\ MutableDomain(d) /\ pvDomain[d].owner \in {"pending", "failed", "verified"}
  /\ pvDomain' = [pvDomain EXCEPT ![d] =
       [BeginPreviewDomainVerificationV1(@) EXCEPT !.verify = "running"]]
  /\ UNCHANGED <<pvLease, pvCall, pvCheck>>

DeleteDomain(d) ==
  /\ MutableDomain(d)
  /\ pvDomain' = [pvDomain EXCEPT ![d] = DeletePreviewDomainV1(@)]
  /\ UNCHANGED <<pvLease, pvCall, pvCheck>>

-----------------------------------------------------------------------------
(* The DNS reconciler.                                                     *)

\* The bulk update that lifts lapsed quarantines; as one statement it fails
\* when a resulting row breaks the table constraint, and the pass ends there.
ReleaseExpiredPreviewDomainQuarantinesV1 ==
  [d \in PvDomains |-> IF pvDomain[d].deleted /\ pvDomain[d].lapsed
                       THEN [pvDomain[d] EXCEPT !.conflict = "clear"]
                       ELSE pvDomain[d]]

ReleaseSucceeds ==
  \A d \in PvDomains : DomainRowCheck(ReleaseExpiredPreviewDomainQuarantinesV1[d])

ListDuePreviewDomainsV1 ==
  {d \in LiveDomains : /\ requireActiveLease(pvDomain[d].lease)
                       /\ pvLease[pvDomain[d].lease].generation = pvDomain[d].pgen
                       /\ pvDomain[d].owner \in {"pending", "failed", "verified"}}

\* Reconcile: quarantines first, then the due rows, each resolved from the row
\* as it was listed.
ReconcileDomain(w, d) ==
  /\ pvPart = "dns" /\ pvCheck[w] = NoCheck /\ ReleaseSucceeds
  /\ d \in ListDuePreviewDomainsV1
  /\ pvDomain' = ReleaseExpiredPreviewDomainQuarantinesV1
  /\ pvCheck' = [pvCheck EXCEPT ![w] =
       [domain |-> d, pgen |-> pvDomain[d].pgen,
        generation |-> pvDomain[d].generation, owner |-> pvDomain[d].owner,
        attempts |-> pvDomain[d].attempts]]
  /\ UNCHANGED <<pvLease, pvCall>>

classifyDNSObservation == {"dns_verified", "dns_wrong_record", "dns_not_found", "dns_unavailable"}

dnsObservationState(c, code) ==
  CASE code = "dns_verified" -> "verified"
    [] code \in {"dns_wrong_record", "dns_not_found"} -> "failed"
    [] OTHER -> IF c.owner = "verified" /\ c.attempts + 1 < PvGrace THEN "verified"
                ELSE IF c.owner \in {"failed", "verified"} THEN "failed"
                ELSE "pending"

ApplyPreviewDomainDNSObservationV1(r, c, code) ==
  LET proved == code = "dns_verified"
  IN [r EXCEPT !.owner = dnsObservationState(c, code),
        !.conflict = IF code = "dns_wrong_record" THEN "conflicted" ELSE "clear",
        !.attempts = IF proved THEN 0 ELSE IF @ < PvGrace THEN @ + 1 ELSE @,
        !.cert = IF proved /\ @ = "pending" THEN "issuing" ELSE @,
        !.generation = @ + 1]

CompletePreviewDomainVerificationOperationsV1(r, code) ==
  [r EXCEPT !.verify = IF @ = "running" /\ code = "dns_verified"
                       THEN "succeeded" ELSE @]

LeaseStillAt(c) ==
  LET l == pvDomain[c.domain].lease
  IN requireActiveLease(l) /\ pvLease[l].generation = c.pgen

RowStillAt(c) ==
  c.domain \in LiveDomains /\ pvDomain[c.domain].generation = c.generation

ApplyDNSObservationForReconciliation(w, code) ==
  LET c == pvCheck[w]
  IN /\ c # NoCheck /\ c.generation < Bounded
     /\ pvCheck' = [pvCheck EXCEPT ![w] = NoCheck]
     /\ IF LeaseStillAt(c) /\ RowStillAt(c)
        THEN pvDomain' = [pvDomain EXCEPT ![c.domain] =
               CompletePreviewDomainVerificationOperationsV1(
                 ApplyPreviewDomainDNSObservationV1(@, c, code), code)]
        ELSE UNCHANGED pvDomain
     /\ UNCHANGED <<pvLease, pvCall>>

\* A worker stopped between resolving and applying.
DnsWorkerStops(w) ==
  /\ pvCheck[w] # NoCheck
  /\ pvCheck' = [pvCheck EXCEPT ![w] = NoCheck]
  /\ UNCHANGED <<pvLease, pvDomain, pvCall>>

\* The certificate coordinator publishes a certificate for exactly these
\* generations of the lease and the domain.
CommitsCertificateReady(d) ==
  /\ d \in ListDuePreviewDomainsV1 /\ pvDomain[d].generation < Bounded
  /\ pvDomain[d].owner = "verified" /\ pvDomain[d].conflict = "clear"
  /\ pvDomain[d].cert = "issuing"
  /\ pvDomain' = [pvDomain EXCEPT ![d].cert = "ready", ![d].bound = pvDomain[d].pgen,
                                  ![d].generation = @ + 1]
  /\ UNCHANGED <<pvLease, pvCall, pvCheck>>

-----------------------------------------------------------------------------
PvStep ==
  \/ \E q \in PvRequests :
       \/ \E l \in PvLeases : PvReplayCreate(q, l) \/ \E a \in PvAccounts : PvCreate(q, l, a)
       \/ dispatchCreatedLease(q)
       \/ MarkPreviewLeaseDispatchUncertainV1(q)
       \/ recordDispatchFailure(q)
  \/ \E l \in PvLeases :
       \/ ObserveDeviceReadiness(l)
       \/ PvRenew(l)
       \/ PvStop(l)
       \/ DeadlinePasses(l)
       \/ OwnerFallsSilent(l)
       \/ \E d \in PvDomains, h \in PvHosts : AddDomain(l, d, h)
  \/ PvReconcile
  \/ \E d \in PvDomains :
       \/ VerifyDomain(d)
       \/ DeleteDomain(d)
       \/ QuarantineLapses(d)
       \/ CommitsCertificateReady(d)
  \/ \E w \in PvWorkers :
       \/ DnsWorkerStops(w)
       \/ \E d \in PvDomains : ReconcileDomain(w, d)
       \/ \E code \in classifyDNSObservation : ApplyDNSObservationForReconciliation(w, code)

PvNext == PvStep /\ UNCHANGED pvPart

PvSpec == PvInit /\ [][PvNext]_pvVars

-----------------------------------------------------------------------------
\* Rows keep the columns' domains and refer to rows that exist.
PvTypeOK ==
  /\ \A l \in PvLeases :
       /\ pvLease[l].generation \in 0..PvMaxGen /\ pvLease[l].terminal \in Terminals
       /\ pvLease[l].ready \in Readiness /\ pvLease[l].late \in {"no", "lease", "user"}
       /\ pvLease[l].op \in {"none", "running", "uncertain", "succeeded", "failed"}
  /\ \A d \in PvDomains :
       /\ pvDomain[d].lease # PvNone => pvLease[pvDomain[d].lease].terminal # "none"
       /\ pvDomain[d].generation \in 0..(PvMaxGen + 1) /\ DomainRowCheck(pvDomain[d])

\* A lease that was stopped, that expired or whose owner was lost has given
\* back every hostname and certificate, also of domains its readiness or an
\* earlier renewal left behind at an older generation (WithdrawPreviewDomainsV1
\* and RevokePreviewCertificatesTx in the terminal transaction).
EndedLeaseHoldsNothing ==
  \A l \in PvLeases :
    pvLease[l].terminal \in {"stopped", "expired", "owner_lost"} =>
      /\ DomainsOf(l) = {}
      /\ \A d \in PvDomains : pvDomain[d].lease = l => pvDomain[d].bound = 0

\* A withdrawn hostname stays out of other accounts' reach until its
\* quarantine has lapsed, and a live hostname has one binding
\* (enforce_preview_tunnel_domain_hostname_claim_v1).
QuarantineKeepsOthersOut ==
  \A d, e \in PvDomains \ UnusedDomains :
    /\ d # e /\ pvDomain[d].host = pvDomain[e].host /\ ~pvDomain[d].deleted
    => pvDomain[e].deleted /\ (AccountOf(d) = AccountOf(e) \/ pvDomain[e].lapsed)

\* "This prevents a delayed DNS response from updating a renewed or stopped
\* preview" (previewdomain/reconciler.go:37-38): ownership is proved only of a
\* domain whose lease is in force and still at the generation it follows.
ProofIsForLeaseInForce ==
  \A d \in PvDomains :
    pvDomain'[d].owner = "verified" /\ pvDomain[d].owner # "verified" =>
      /\ requireActiveLease(pvDomain[d].lease)
      /\ pvLease[pvDomain[d].lease].generation = pvDomain[d].pgen

=============================================================================
