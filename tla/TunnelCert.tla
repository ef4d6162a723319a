------------------------------ MODULE TunnelCert ------------------------------
(***************************************************************************)
(* Issuing, distributing, publishing and withdrawing TLS certificates      *)
(* (internal/tunnelcert, internal/tunnelv1/*certificate_worker.go).        *)
(*                                                                         *)
(* One certificate scope is modelled: the parent certificate of a durable  *)
(* domain, of a preview domain or of a platform wildcard, or one exact     *)
(* leaf under a durable or preview wildcard.  tcMax and tcLeaf, chosen     *)
(* once, say which.  Several workers (replicas, or the background pass and *)
(* an on-demand request of one replica) run Coordinator.Ensure for it; one *)
(* step per query, transaction or edge call.  A process may stop anywhere. *)
(* Certificate material, ciphertexts and hostnames are left out; "due"     *)
(* stands for a renewal time that has passed.                              *)
(***************************************************************************)
EXTENDS Naturals, FiniteSets, FiniteSetsExt

CONSTANTS TcWorkers,   \* goroutines that run Ensure
          TcOwners,    \* issuance lock owner names (one per replica)
          TcCerts,     \* certificates the authority may issue
          TcNodes,     \* edge nodes
          TcMaxLease,  \* bound on lease generations
          TcBounds,    \* bounds a behaviour keeps to
          TcNone

TcAssumption == /\ TcBounds \subseteq [kind : {"durable", "preview", "platform"}, crew : SUBSET TcWorkers,
                                       revoked : BOOLEAN, gen : Nat, epoch : Nat]
                /\ TcMaxLease \in Nat \ {0}

VARIABLES
  tcMax,           \* the bound of this behaviour: its kind of scope, the goroutines at work,
                   \* whether an operator revokes, domain generations, process epochs
  tcLeaf,          \* which of the kind's scopes
  tcDomain,        \* its tunnel_domains, preview_domains or platform target row
  tcLease,         \* the preview lease (generation, still live)
  tcCert,          \* tunnel_certificate_records
  tcRow, tcStale,  \* distribution rows, and those older than a rebind
  tcLock,          \* the issuance lock row
  tcReady, tcEpoch,\* targets reported ready, and each node's process epoch
  tcRev,           \* certificate an operator's Revoke is working on
  tcW              \* the workers' locals

tcScope == <<tcMax, tcLeaf>>
tcKind == tcMax.kind
tcEdge == <<tcRow, tcStale, tcReady, tcEpoch>>
tcVars == <<tcMax, tcLeaf, tcDomain, tcLease, tcCert, tcRow, tcStale, tcLock,
            tcReady, tcEpoch, tcRev, tcW>>

TcTargets == TcNodes \X (1..tcMax.epoch)
TcRows == TcCerts \X TcTargets

(* A row of tunnel_certificate_records. *)
TunnelCertificateRecord ==
  [state : {"staged", "active", "superseded", "failed", "revoked"},
   dgen : 1..tcMax.gen, cgen : 1..Cardinality(TcCerts), pgen : 1..TcMaxLease,
   due : BOOLEAN, code : {"none", "reason", "ca_revocation_pending", "ca_revoked"}]

(* States of a row of tunnel_certificate_edge_distributions; "none": no row. *)
TunnelCertificateEdgeDistribution ==
  {"none", "staged", "ready", "active", "failed", "retired", "revoked"}
LiveRow == {"staged", "ready", "active", "failed"}

NoLock == [owner |-> TcNone, dgen |-> 0, live |-> FALSE]

Idle(o) == [pc |-> "idle", owner |-> o, dgen |-> 1, ref |-> TcNone, pgen |-> 1,
            due |-> FALSE, targets |-> {}, work |-> {}, todo |-> {}, cur |-> TcNone,
            cert |-> TcNone, cgen |-> 1, late |-> FALSE, result |-> "none"]

Issued(c) == tcCert[c] # TcNone
InState(s) == {c \in TcCerts : Issued(c) /\ tcCert[c].state \in s}

-----------------------------------------------------------------------------
(* Reads of the certificate of the scope. *)

(* Domain and lease conditions repeated by the preview queries. *)
PreviewLive == tcKind = "preview" => tcLease.live

Newest(S) == IF S = {} THEN TcNone
             ELSE CHOOSE c \in S : \A d \in S : tcCert[d].cgen <= tcCert[c].cgen

GetActiveTunnelCertificateV1 == Newest(InState({"active"}))

GetActiveTunnelCertificateByHostnameV1 == Newest(InState({"active"}))

GetActiveTunnelPlatformCertificateV1 == Newest(InState({"active"}))

GetActivePreviewTunnelCertificateV1 ==
  IF tcDomain.ok /\ PreviewLive
  THEN Newest({c \in InState({"active"}) : tcCert[c].pgen = tcLease.gen})
  ELSE TcNone

GetActivePreviewTunnelCertificateByDomainHostnameV1 ==
  GetActivePreviewTunnelCertificateV1

GetActivePreviewTunnelCertificateForRebindV1 ==
  IF tcDomain.ok /\ PreviewLive
  THEN LET S == InState({"active"})
           top == {c \in S : \A d \in S : tcCert[d].pgen <= tcCert[c].pgen}
       IN Newest(top)
  ELSE TcNone

GetActivePreviewTunnelCertificateByDomainHostnameForRebindV1 ==
  GetActivePreviewTunnelCertificateForRebindV1

CurrentPreview ==
  IF tcLeaf THEN GetActivePreviewTunnelCertificateByDomainHostnameV1
  ELSE GetActivePreviewTunnelCertificateV1

CurrentPreviewForRebind ==
  IF tcLeaf THEN GetActivePreviewTunnelCertificateByDomainHostnameForRebindV1
  ELSE GetActivePreviewTunnelCertificateForRebindV1

currentCertificate ==
  CASE tcKind = "platform" -> GetActiveTunnelPlatformCertificateV1
    [] tcKind = "preview" ->
         IF CurrentPreview # TcNone THEN CurrentPreview ELSE CurrentPreviewForRebind
    [] tcKind = "durable" /\ tcLeaf -> GetActiveTunnelCertificateByHostnameV1
    [] OTHER -> GetActiveTunnelCertificateV1

(* The current targets an active certificate does not serve yet. *)
MissingCertificateTargets(c, T) ==
  {t \in T : tcRow[<<c, t>>] # "active" \/ <<c, t>> \in tcStale}

-----------------------------------------------------------------------------
(* The work lists of the workers. *)

ListReadyTunnelCertificateEdgesV1 == tcReady
ListReadyPreviewCertificateEdgesV1 == IF PreviewLive THEN tcReady ELSE {}
ListReadyPlatformEdgeTargetsV1 == {t \in tcReady : tcEpoch[t[1]] = t[2]}

ReadyTargets ==
  CASE tcKind = "durable" -> ListReadyTunnelCertificateEdgesV1
    [] tcKind = "preview" -> ListReadyPreviewCertificateEdgesV1
    [] OTHER -> ListReadyPlatformEdgeTargetsV1

(* The projected certificate's expiry is near, or there is none. *)
RefDue == tcDomain.ref # TcNone => tcCert[tcDomain.ref].due

ListDueTunnelCertificateDomainsV1 ==
  /\ tcDomain.ok
  /\ \/ tcDomain.state \in {"issuing", "renewing", "failed"}
     \/ tcDomain.ref # TcNone /\ RefDue
     \/ /\ tcDomain.state = "ready" /\ tcDomain.ref \in InState({"active"})
        /\ \E t \in tcReady : tcRow[<<tcDomain.ref, t>>] # "active"

ListDuePreviewCertificateDomainsV1 ==
  /\ tcDomain.ok /\ tcLease.live
  /\ \/ tcDomain.state \in {"issuing", "renewing", "failed"}
     \/ tcDomain.ref # TcNone /\ RefDue
     \/ /\ tcDomain.state = "ready" /\ tcDomain.ref \in InState({"active"})
        /\ MissingCertificateTargets(tcDomain.ref, tcReady) # {}

(* A leaf is requested by an edge under a wildcard whose parent is served. *)
ListOnDemandWildcardDomainsForEdgeV1 == tcDomain.ok /\ tcReady # {}
ListOnDemandPreviewDomainsForEdgeV1 == tcDomain.ok /\ tcLease.live /\ tcReady # {}
ListTunnelPlatformCertificateTargetsV1 == tcDomain.ok /\ ReadyTargets # {}

Due == CASE tcKind = "durable" /\ tcLeaf -> ListOnDemandWildcardDomainsForEdgeV1
         [] tcKind = "preview" /\ tcLeaf -> ListOnDemandPreviewDomainsForEdgeV1
         [] tcKind = "durable" /\ ~tcLeaf -> ListDueTunnelCertificateDomainsV1
         [] tcKind = "preview" /\ ~tcLeaf -> ListDuePreviewCertificateDomainsV1
         [] OTHER -> ListTunnelPlatformCertificateTargetsV1

(* RenewalDue as certificateDomainWithConfig, RequestExactLeaf and the platform *)
(* worker compute it.                                                          *)
RenewalDue ==
  IF tcLeaf \/ tcKind = "platform"
  THEN currentCertificate # TcNone => tcCert[currentCertificate].due
  ELSE tcDomain.state # "ready" \/ RefDue

-----------------------------------------------------------------------------
(* Ensure: reads, lock and issuance. *)

Goes(w, p) == tcW' = [tcW EXCEPT ![w].pc = p]
Rests(w) == tcW' = [tcW EXCEPT ![w] = Idle(tcW[w].owner)]
(* Ensure is about to return: only what its caller still uses is kept. *)
Ends(w, r) ==
  tcW' = [tcW EXCEPT ![w] = [Idle(@.owner) EXCEPT !.pc = "release", !.result = r,
            !.dgen = tcW[w].dgen, !.pgen = tcW[w].pgen, !.cert = tcW[w].cert]]

(* The row is the one the caller's snapshot of the domain publishes. *)
activeCertificateMatchesDomain(c, w) ==
  /\ tcKind = "preview" => tcCert[c].pgen = w.pgen
  /\ tcLeaf \/ c = w.ref

Healthy(c, w) ==
  /\ c # TcNone
  /\ activeCertificateMatchesDomain(c, w)
  /\ ~w.due /\ ~tcCert[c].due

Snapshot(w, T) ==
  [tcW[w] EXCEPT !.dgen = tcDomain.gen, !.pgen = tcLease.gen, !.due = RenewalDue,
                 !.ref = IF tcKind = "platform" THEN currentCertificate ELSE tcDomain.ref,
                 !.targets = T, !.cur = currentCertificate]

(* A worker picks the domain up and makes Ensure's first read.  An active row  *)
(* that the domain does not publish is refused; a healthy and fully served one *)
(* needs nothing (the platform worker then marks its target ready).            *)
Begin(w) ==
  /\ tcW[w].pc = "idle" /\ Due
  /\ \E T \in IF tcLeaf THEN {{t} : t \in ReadyTargets} ELSE {ReadyTargets} :
       LET s == Snapshot(w, T)
           fine == Healthy(s.cur, s) /\ MissingCertificateTargets(s.cur, T) = {}
       IN /\ s.cur # TcNone => tcLeaf \/ activeCertificateMatchesDomain(s.cur, s)
          /\ fine => tcKind = "platform"
          /\ tcW' = [tcW EXCEPT ![w] = IF fine
                       THEN [s EXCEPT !.pc = "check", !.cert = s.cur, !.result = "kept"]
                       ELSE [s EXCEPT !.pc = "lock"]]
  /\ UNCHANGED <<tcScope, tcDomain, tcLease, tcCert, tcEdge, tcLock, tcRev>>

(* Whether a failure that has a code is recorded, and by whom. *)
AfterFailure(w) == IF tcLeaf \/ tcKind = "preview" THEN Rests(w) ELSE Goes(w, "mark")

(* The CAA policy cannot be read, or forbids the issuer. *)
CheckCAAFails(w) ==
  /\ tcW[w].pc = "lock"
  /\ AfterFailure(w)
  /\ UNCHANGED <<tcScope, tcDomain, tcLease, tcCert, tcEdge, tcLock, tcRev>>

AcquireTunnelCertificateIssuanceLockV1(w) ==
  \/ tcLock = NoLock
  \/ /\ ~tcLock.live \/ tcLock.owner = w.owner
     /\ tcLock.dgen <= w.dgen

Acquire(w) ==
  /\ tcW[w].pc = "lock"
  /\ IF AcquireTunnelCertificateIssuanceLockV1(tcW[w])
     THEN /\ tcLock' = [owner |-> tcW[w].owner, dgen |-> tcW[w].dgen, live |-> TRUE]
          /\ Goes(w, "reread")
     ELSE /\ IF tcKind = "platform" THEN Goes(w, "mark") ELSE Rests(w)
          /\ UNCHANGED tcLock
  /\ UNCHANGED <<tcScope, tcDomain, tcLease, tcCert, tcEdge, tcRev>>

(* The read under the lock: another worker may have finished meanwhile. *)
Reread(w) ==
  /\ tcW[w].pc = "reread"
  /\ LET c == currentCertificate
         missing == IF c = TcNone THEN {}
                    ELSE MissingCertificateTargets(c, tcW[w].targets)
     IN tcW' = [tcW EXCEPT ![w] = [@ EXCEPT !.cur = c,
          !.pc = IF c # TcNone /\ tcCert[c].dgen > tcW[w].dgen THEN "release"
                 ELSE IF ~Healthy(c, tcW[w]) THEN "issue"
                 ELSE IF missing = {} THEN "release"
                 ELSE "stage",
          !.result = IF c # TcNone /\ tcCert[c].dgen > tcW[w].dgen THEN "conflict"
                     ELSE "kept",
          !.late = Healthy(c, tcW[w]),
          !.cert = IF Healthy(c, tcW[w]) THEN c ELSE TcNone,
          !.work = missing, !.todo = missing]]
  /\ UNCHANGED <<tcScope, tcDomain, tcLease, tcCert, tcEdge, tcLock, tcRev>>

MaxGeneration(S) == Max({tcCert[c].cgen : c \in S} \cup {0})

NextTunnelPlatformCertificateGenerationV1 ==
  MaxGeneration({c \in TcCerts : Issued(c)}) + 1

(* Only the platform store knows the generations of every row; for the others *)
(* Ensure counts from the current certificate.                                *)
NextCertificateGeneration(w) ==
  IF tcKind = "platform" THEN NextTunnelPlatformCertificateGenerationV1
  ELSE MaxGeneration({tcW[w].cur} \ {TcNone}) + 1

(* The authority issues a certificate, or refuses. *)
Issue(w) ==
  /\ tcW[w].pc = "issue"
  /\ \/ \E c \in TcCerts :
          /\ ~Issued(c) /\ \A v \in TcWorkers : tcW[v].cert # c
          /\ tcW' = [tcW EXCEPT ![w].pc = "put", ![w].cert = c,
                                ![w].cgen = NextCertificateGeneration(w)]
     \/ Ends(w, "failed")
  /\ UNCHANGED <<tcScope, tcDomain, tcLease, tcCert, tcEdge, tcLock, tcRev>>

-----------------------------------------------------------------------------
(* Ensure: the staged row. *)

(* UNIQUE (domain_id, hostname, certificate_generation), migration 144. *)
GenerationFree(g) == \A c \in TcCerts : Issued(c) => tcCert[c].cgen # g

CreateTunnelCertificateRecordV1(w) == tcDomain.gen = w.dgen /\ tcDomain.ok
CreatePreviewTunnelCertificateRecordV1(w) ==
  tcDomain.gen = w.dgen /\ tcDomain.ok /\ tcLease.gen = w.pgen /\ tcLease.live
CreateTunnelPlatformCertificateRecordV1(w) == TRUE

Creatable(w) ==
  CASE tcKind = "durable" -> CreateTunnelCertificateRecordV1(w)
    [] tcKind = "preview" -> CreatePreviewTunnelCertificateRecordV1(w)
    [] OTHER -> CreateTunnelPlatformCertificateRecordV1(w)

StagedCertificate(w) ==
  [state |-> "staged", dgen |-> w.dgen, cgen |-> w.cgen, pgen |-> w.pgen,
   due |-> FALSE, code |-> "none"]

PutStaged(w) ==
  /\ tcW[w].pc = "put"
  /\ IF GenerationFree(tcW[w].cgen) /\ Creatable(tcW[w])
     THEN /\ tcCert' = [tcCert EXCEPT ![tcW[w].cert] = StagedCertificate(tcW[w])]
          /\ tcW' = [tcW EXCEPT ![w].pc = IF tcW[w].targets = {} THEN "fail" ELSE "stage",
                                ![w].work = tcW[w].targets, ![w].todo = tcW[w].targets]
     ELSE Ends(w, "conflict") /\ UNCHANGED tcCert
  /\ UNCHANGED <<tcScope, tcDomain, tcLease, tcEdge, tcLock, tcRev>>

-----------------------------------------------------------------------------
(* Ensure: distribution to the edges of the snapshot.  A call succeeds only   *)
(* while the addressed process is the node's current one.                     *)

(* The new state of a row asked to become s; the row itself when refused. *)
MarkTunnelCertificateEdgeStateV1(r, s) ==
  CASE s \in {"ready", "failed"} /\ r = "active" -> "active"
    [] s \in {"ready", "failed"} /\ r \in {"staged", "ready"} -> s
    [] s = "active" /\ r \in {"ready", "active"} -> s
    [] s = "retired" /\ r \in LiveRow \cup {"retired"} -> s
    [] s = "revoked" /\ r # "none" -> s
    [] OTHER -> r

Markable(r, s) == MarkTunnelCertificateEdgeStateV1(r, s) = s \/ (s = "ready" /\ r = "active")

(* Assignment generations grow with the process epoch, so a row of a later *)
(* process of the node refuses an earlier target.                          *)
StageTunnelCertificateEdgeV1(c, t) ==
  /\ tcRow[<<c, t>>] \in LiveRow \cup {"none"}
  /\ tcKind # "platform" =>
       \A e \in t[2]+1..tcMax.epoch : tcRow[<<c, <<t[1], e>>>>] = "none"

Reaches(t) == tcEpoch[t[1]] = t[2]

SetRows(R, s) ==
  /\ tcRow' = [k \in TcRows |->
                 IF k \in R THEN MarkTunnelCertificateEdgeStateV1(tcRow[k], s) ELSE tcRow[k]]
  /\ tcStale' = tcStale \ R
  /\ UNCHANGED <<tcReady, tcEpoch>>

(* One target is done; the next phase starts after the last. *)
Advance(w, t, next, again) ==
  tcW' = [tcW EXCEPT ![w].todo = IF @ = {t} THEN again ELSE @ \ {t},
                     ![w].pc = IF tcW[w].todo = {t} THEN next ELSE @]

(* markFailed: the row is marked, and what was staged so far is rolled back. *)
GiveUp(w, staged) ==
  tcW' = [tcW EXCEPT ![w].pc = "rollback", ![w].work = staged]

Stage(w) ==
  /\ tcW[w].pc = "stage"
  /\ \E t \in tcW[w].todo :
       LET k == <<tcW[w].cert, t>>
           staged == tcW[w].work \ tcW[w].todo
       IN \/ /\ StageTunnelCertificateEdgeV1(tcW[w].cert, t)
             /\ tcRow' = [tcRow EXCEPT ![k] = IF @ = "active" THEN @ ELSE "staged"]
             /\ tcStale' = tcStale \ {k}
             /\ Advance(w, t, "await", tcW[w].work)
             /\ UNCHANGED <<tcReady, tcEpoch>>
          \/ /\ StageTunnelCertificateEdgeV1(tcW[w].cert, t)
             /\ tcRow' = [tcRow EXCEPT ![k] = IF @ = "active" THEN @ ELSE "failed"]
             /\ tcStale' = tcStale \ {k}
             /\ GiveUp(w, staged)
             /\ UNCHANGED <<tcReady, tcEpoch>>
          \/ /\ ~StageTunnelCertificateEdgeV1(tcW[w].cert, t)
             /\ GiveUp(w, staged) /\ UNCHANGED tcEdge
  /\ UNCHANGED <<tcScope, tcDomain, tcLease, tcCert, tcLock, tcRev>>

ReportIgnoringFailure(w, s, next, again) ==
  \E t \in tcW[w].todo :
    LET k == <<tcW[w].cert, t>>
    IN \/ /\ Reaches(t) /\ Markable(tcRow[k], s)
          /\ SetRows({k}, s) /\ Advance(w, t, next, again)
       \/ /\ SetRows({k}, "failed") /\ Advance(w, t, next, again)

(* An edge reports the outcome of a phase, which is recorded on its row. *)
Report(w, s, next, again) ==
  \E t \in tcW[w].todo :
    LET k == <<tcW[w].cert, t>>
    IN \/ /\ Reaches(t) /\ Markable(tcRow[k], s)
          /\ SetRows({k}, s) /\ Advance(w, t, next, again)
       \/ /\ Reaches(t) /\ ~Markable(tcRow[k], s)
          /\ GiveUp(w, tcW[w].work) /\ UNCHANGED tcEdge
       \/ /\ SetRows({k}, "failed") /\ GiveUp(w, tcW[w].work)

WaitReady(w) ==
  /\ tcW[w].pc = "await"
  /\ Report(w, "ready", "switch", tcW[w].work)
  /\ UNCHANGED <<tcScope, tcDomain, tcLease, tcCert, tcLock, tcRev>>

(* After the last edge a new certificate is activated in the store; a late *)
(* distribution drops the targets that are no longer current.              *)
ActivateEdge(w) ==
  /\ tcW[w].pc = "switch"
  /\ Report(w, "active", IF tcW[w].late THEN "obsolete" ELSE "activate", {})
  /\ UNCHANGED <<tcScope, tcDomain, tcLease, tcCert, tcLock, tcRev>>

(* Rows a retire or revoke pass may finish: those of gone processes locally, *)
(* the others when their edge answers.  The pass stops at the first failure, *)
(* so any part of them may be done.                                          *)
Cleanable(c, keep) == {k \in {c} \X (TcTargets \ keep) : tcRow[k] \in LiveRow}

RetireObsoleteCertificateTargets(w) ==
  /\ tcW[w].pc = "obsolete"
  /\ \E K \in SUBSET Cleanable(tcW[w].cert, tcW[w].targets) : SetRows(K, "retired")
  /\ Ends(w, "kept")
  /\ UNCHANGED <<tcScope, tcDomain, tcLease, tcCert, tcLock, tcRev>>

(* Every edge that was staged is told to drop the certificate; calls may fail. *)
rollbackStaged(w) ==
  /\ tcW[w].pc = "rollback"
  /\ \E K \in SUBSET {t \in tcW[w].work : Reaches(t)} :
       SetRows({<<tcW[w].cert, t>> : t \in K}, "revoked")
  /\ IF tcW[w].late THEN Ends(w, "failed") ELSE Goes(w, "fail")
  /\ UNCHANGED <<tcScope, tcDomain, tcLease, tcCert, tcLock, tcRev>>

MarkTunnelCertificateFailedV1(c) ==
  tcCert' = [tcCert EXCEPT ![c].state = IF @ = "staged" THEN "failed" ELSE @]
MarkTunnelPlatformCertificateFailedV1(c) ==
  tcCert' = [tcCert EXCEPT ![c].state = IF @ = "staged" THEN "failed" ELSE @]

failStaged(w) ==
  /\ tcW[w].pc = "fail"
  /\ IF tcKind = "platform" THEN MarkTunnelPlatformCertificateFailedV1(tcW[w].cert)
     ELSE MarkTunnelCertificateFailedV1(tcW[w].cert)
  /\ Ends(w, "failed")
  /\ UNCHANGED <<tcScope, tcDomain, tcLease, tcEdge, tcLock, tcRev>>

-----------------------------------------------------------------------------
(* Ensure: activation in the store, and the end of the predecessor. *)

Older(g) == {c \in InState({"active", "staged"}) : tcCert[c].cgen < g}

SupersedeOlderTunnelCertificatesV1(g) == Older(g)
SupersedeOlderTunnelCertificatesByHostnameV1(g) == Older(g)
SupersedeOlderTunnelPlatformCertificatesV1(g) == Older(g)
SupersedeOlderPreviewTunnelCertificatesV1(g, p) == {c \in Older(g) : tcCert[c].pgen = p}
SupersedeOlderPreviewTunnelCertificatesByHostnameV1(g, p) ==
  {c \in Older(g) : tcCert[c].pgen = p}

Superseded(g, p) ==
  CASE tcKind = "platform" -> SupersedeOlderTunnelPlatformCertificatesV1(g)
    [] tcKind = "durable" /\ tcLeaf -> SupersedeOlderTunnelCertificatesByHostnameV1(g)
    [] tcKind = "durable" /\ ~tcLeaf -> SupersedeOlderTunnelCertificatesV1(g)
    [] tcKind = "preview" /\ tcLeaf ->
         SupersedeOlderPreviewTunnelCertificatesByHostnameV1(g, p)
    [] OTHER -> SupersedeOlderPreviewTunnelCertificatesV1(g, p)

ActivateTunnelCertificateV1(c, w) ==
  /\ tcCert[c].state = "staged" /\ tcDomain.gen = w.dgen
  /\ tcKind = "durable" \/ (tcDomain.ok /\ tcLease.live /\ tcCert[c].pgen = tcLease.gen)

ActivateTunnelPlatformCertificateV1(c) == tcCert[c].state = "staged"

(* One transaction; UNIQUE (domain_id, hostname) WHERE state = 'active'. *)
StoreActivate(w) ==
  /\ tcW[w].pc = "activate"
  /\ LET c == tcW[w].cert
         gone == Superseded(tcCert[c].cgen, tcCert[c].pgen)
     IN IF /\ IF tcKind = "platform" THEN ActivateTunnelPlatformCertificateV1(c)
              ELSE ActivateTunnelCertificateV1(c, tcW[w])
           /\ InState({"active"}) \subseteq gone
        THEN /\ tcCert' = [d \in TcCerts |->
                  CASE d = c -> [tcCert[d] EXCEPT !.state = "active", !.code = "none"]
                    [] d \in gone \ {c} -> [tcCert[d] EXCEPT !.state = "superseded"]
                    [] OTHER -> tcCert[d]]
             /\ Goes(w, "retire")
        ELSE GiveUp(w, tcW[w].work) /\ UNCHANGED tcCert
  /\ UNCHANGED <<tcScope, tcDomain, tcLease, tcEdge, tcLock, tcRev>>

(* RetireCertificate of the certificate read under the lock.  What it does    *)
(* not reach stays for the cleanup pass.                                      *)
RetirePrior(w) ==
  /\ tcW[w].pc = "retire"
  /\ IF tcW[w].cur = TcNone THEN UNCHANGED tcEdge
     ELSE \E K \in SUBSET Cleanable(tcW[w].cur, {}) : SetRows(K, "retired")
  /\ Ends(w, "issued")
  /\ UNCHANGED <<tcScope, tcDomain, tcLease, tcCert, tcLock, tcRev>>

ReleaseTunnelCertificateIssuanceLockGenerationV1(w) ==
  IF tcLock.owner = w.owner /\ tcLock.dgen = w.dgen THEN NoLock ELSE tcLock

(* Ensure returns; its caller goes on. *)
Release(w) ==
  /\ tcW[w].pc = "release"
  /\ tcLock' = ReleaseTunnelCertificateIssuanceLockGenerationV1(tcW[w])
  /\ CASE tcW[w].result = "failed" -> AfterFailure(w)
       [] /\ tcW[w].result \in {"issued", "kept"} /\ ~tcLeaf
          /\ tcKind = "platform" \/ tcW[w].result = "issued" -> Goes(w, "check")
       [] OTHER -> Rests(w)
  /\ UNCHANGED <<tcScope, tcDomain, tcLease, tcCert, tcEdge, tcRev>>

-----------------------------------------------------------------------------
(* What the workers make of Ensure's result. *)

MarkTunnelDomainCertificateFailureV1(w) ==
  tcDomain' = IF tcDomain.gen = w.dgen /\ tcDomain.ok
              THEN [tcDomain EXCEPT !.gen = @ + 1,
                      !.state = IF @ = "ready" THEN "renewing" ELSE "failed"]
              ELSE tcDomain

MarkTunnelPlatformCertificateFailureV1 ==
  tcDomain' = IF tcDomain.ok
              THEN [tcDomain EXCEPT
                      !.state = IF InState({"active"}) # {} THEN "ready" ELSE "failed"]
              ELSE tcDomain

MarkFailure(w) ==
  /\ tcW[w].pc = "mark" /\ tcDomain.gen < tcMax.gen
  /\ IF tcKind = "platform" THEN MarkTunnelPlatformCertificateFailureV1
     ELSE MarkTunnelDomainCertificateFailureV1(tcW[w])
  /\ Rests(w)
  /\ UNCHANGED <<tcScope, tcLease, tcCert, tcEdge, tcLock, tcRev>>

(* The certificate is read again before it is published. *)
CheckCurrent(w) ==
  /\ tcW[w].pc = "check"
  /\ LET c == currentCertificate
     IN IF c # TcNone /\ (tcKind # "platform" => c = tcW[w].cert)
        THEN tcW' = [tcW EXCEPT ![w].pc = "commit", ![w].cert = c]
        ELSE Rests(w)
  /\ UNCHANGED <<tcScope, tcDomain, tcLease, tcCert, tcEdge, tcLock, tcRev>>

Publishes(c) == [tcDomain EXCEPT !.gen = @ + 1, !.state = "ready", !.ref = c]

(* The domain, its generation and the certificate row are locked and compared, *)
(* and the domain.create operation is completed with the projection.           *)
CommitDomainCertificateReady(w) ==
  LET c == tcW[w].cert
  IN IF /\ tcDomain.gen = tcW[w].dgen /\ tcDomain.ok
        /\ tcCert[c].state = "active" /\ tcCert[c].dgen = tcW[w].dgen
        /\ tcDomain.op = "pending" \/ (tcDomain.state = "ready" /\ tcDomain.ref # TcNone)
     THEN tcDomain' = [Publishes(c) EXCEPT !.op = "done"]
     ELSE UNCHANGED tcDomain

CommitPreviewDomainCertificateReadyV1(w) ==
  LET c == tcW[w].cert
  IN IF /\ tcDomain.gen = tcW[w].dgen /\ tcDomain.ok
        /\ tcLease.gen = tcW[w].pgen /\ tcLease.live
        /\ tcCert[c].state = "active" /\ tcCert[c].dgen = tcDomain.gen
        /\ tcCert[c].pgen = tcLease.gen
     THEN tcDomain' = Publishes(c)
     ELSE UNCHANGED tcDomain

MarkTunnelPlatformCertificateReadyV1(w) ==
  tcDomain' = IF tcDomain.ok
              THEN [tcDomain EXCEPT !.state = "ready", !.ref = tcW[w].cert]
              ELSE tcDomain

Commit(w) ==
  /\ tcW[w].pc = "commit" /\ tcDomain.gen < tcMax.gen
  /\ CASE tcKind = "durable" -> CommitDomainCertificateReady(w)
       [] tcKind = "preview" -> CommitPreviewDomainCertificateReadyV1(w)
       [] OTHER -> MarkTunnelPlatformCertificateReadyV1(w)
  /\ Rests(w)
  /\ UNCHANGED <<tcScope, tcLease, tcCert, tcEdge, tcLock, tcRev>>

-----------------------------------------------------------------------------
(* Cleanup and revocation. *)

certificateCleanupDispositionFor(c) ==
  IF tcCert[c].state = "superseded" THEN "retired" ELSE "revoked"

ListPendingTunnelCertificateCleanupIDsV1 ==
  {c \in InState({"superseded", "revoked", "failed"}) : Cleanable(c, {}) # {}}

(* One row of a cleanup pass is finished. *)
ReconcileCertificateDistributionCleanup ==
  /\ \E c \in ListPendingTunnelCertificateCleanupIDsV1 :
       \E k \in Cleanable(c, {}) : SetRows({k}, certificateCleanupDispositionFor(c))
  /\ UNCHANGED <<tcScope, tcDomain, tcLease, tcCert, tcLock, tcRev, tcW>>

RevokeTunnelCertificateV1(c) ==
  tcCert' = [tcCert EXCEPT ![c].state = "revoked", ![c].code = "reason"]

ClearTunnelDomainCertificateOnRevokeV1(c) ==
  IF tcKind = "durable" /\ ~tcLeaf /\ tcDomain.ref = c
  THEN [tcDomain EXCEPT !.gen = @ + 1, !.state = "failed", !.ref = TcNone]
  ELSE tcDomain

(* Coordinator.Revoke and RevokeHostname: the store first, in one transaction. *)
Revoke ==
  /\ tcMax.revoked /\ tcRev = TcNone
  /\ currentCertificate # TcNone
  /\ ClearTunnelDomainCertificateOnRevokeV1(currentCertificate).gen <= tcMax.gen
  /\ RevokeTunnelCertificateV1(currentCertificate)
  /\ tcDomain' = ClearTunnelDomainCertificateOnRevokeV1(currentCertificate)
  /\ tcRev' = currentCertificate
  /\ UNCHANGED <<tcScope, tcLease, tcEdge, tcLock, tcW>>

MarkTunnelCertificateRevocationResultV1(c, ok) ==
  tcCert' = [tcCert EXCEPT ![c].code = IF ok THEN "ca_revoked" ELSE "ca_revocation_pending"]

(* Then the edges and the authority; the ledger says whether both succeeded. *)
revokeCurrent ==
  /\ tcRev # TcNone
  /\ \E K \in SUBSET Cleanable(tcRev, {}), ca \in BOOLEAN :
       /\ SetRows(K, "revoked")
       /\ MarkTunnelCertificateRevocationResultV1(tcRev, ca /\ K = Cleanable(tcRev, {}))
  /\ tcRev' = TcNone
  /\ UNCHANGED <<tcScope, tcDomain, tcLease, tcLock, tcW>>

(* The process stops between the two. *)
RevokeStops ==
  /\ tcRev # TcNone /\ tcRev' = TcNone
  /\ UNCHANGED <<tcScope, tcDomain, tcLease, tcCert, tcEdge, tcLock, tcW>>

ListPendingTunnelCertificateRevocationIDsV1 ==
  {c \in InState({"revoked"}) : tcCert[c].code = "ca_revocation_pending"}

ReconcileRevocations ==
  /\ \E c \in ListPendingTunnelCertificateRevocationIDsV1 :
       MarkTunnelCertificateRevocationResultV1(c, TRUE)
  /\ UNCHANGED <<tcScope, tcDomain, tcLease, tcEdge, tcLock, tcRev, tcW>>

-----------------------------------------------------------------------------
(* The surroundings. *)

(* Another operation changes the domain row, or ownership is lost. *)
DomainChanges ==
  /\ tcKind # "platform" /\ tcDomain.ok /\ tcDomain.gen < tcMax.gen
  /\ \E ok \in BOOLEAN : tcDomain' = [tcDomain EXCEPT !.gen = @ + 1, !.ok = ok]
  /\ UNCHANGED <<tcScope, tcLease, tcCert, tcEdge, tcLock, tcRev, tcW>>

RebindPreviewCertificatesForLeaseV1(old, new) ==
  {c \in InState({"active", "staged"}) : tcCert[c].pgen = old /\ tcDomain.ok /\ new > old}

(* A renewed preview lease takes its domain and its certificates along; the   *)
(* certificates' edge rows are then older than the certificates.              *)
LeaseRenews ==
  /\ tcKind = "preview" /\ tcLease.live /\ tcLease.gen < TcMaxLease
  /\ LET R == RebindPreviewCertificatesForLeaseV1(tcLease.gen, tcLease.gen + 1)
     IN /\ tcCert' = [c \in TcCerts |-> IF c \in R
                        THEN [tcCert[c] EXCEPT !.pgen = tcLease.gen + 1] ELSE tcCert[c]]
        /\ tcStale' = tcStale \cup {k \in R \X TcTargets : tcRow[k] # "none"}
  /\ tcLease' = [tcLease EXCEPT !.gen = @ + 1]
  /\ UNCHANGED <<tcScope, tcDomain, tcRow, tcReady, tcEpoch, tcLock, tcRev, tcW>>

RevokePreviewCertificatesForLeaseV1 == InState({"staged", "active"})

(* The lease is stopped or expires: its domain is withdrawn and its           *)
(* certificates revoked in the same transaction.                              *)
LeaseEnds ==
  /\ tcKind = "preview" /\ tcLease.live /\ tcDomain.gen < tcMax.gen
  /\ tcLease' = [tcLease EXCEPT !.live = FALSE]
  /\ tcDomain' = [tcDomain EXCEPT !.gen = @ + 1, !.ok = FALSE, !.state = "failed"]
  /\ tcCert' = [c \in TcCerts |-> IF c \in RevokePreviewCertificatesForLeaseV1
                  THEN [tcCert[c] EXCEPT !.state = "revoked", !.code = "reason"]
                  ELSE tcCert[c]]
  /\ UNCHANGED <<tcScope, tcEdge, tcLock, tcRev, tcW>>

FallsDue ==
  /\ \E c \in InState({"active"}) : ~tcCert[c].due /\ tcCert' = [tcCert EXCEPT ![c].due = TRUE]
  /\ UNCHANGED <<tcScope, tcDomain, tcLease, tcEdge, tcLock, tcRev, tcW>>

(* A node's process is replaced; its ready report follows later. *)
NodeReplaced ==
  /\ \E n \in TcNodes : tcEpoch[n] < tcMax.epoch /\ tcEpoch' = [tcEpoch EXCEPT ![n] = @ + 1]
  /\ UNCHANGED <<tcScope, tcDomain, tcLease, tcCert, tcRow, tcStale, tcReady, tcLock, tcRev, tcW>>

EdgeReady ==
  /\ \E n \in TcNodes : /\ <<n, tcEpoch[n]>> \notin tcReady
                        /\ tcReady' = {t \in tcReady : t[1] # n} \cup {<<n, tcEpoch[n]>>}
  /\ UNCHANGED <<tcScope, tcDomain, tcLease, tcCert, tcRow, tcStale, tcEpoch, tcLock, tcRev, tcW>>

LockExpires ==
  /\ tcLock.live /\ tcLock' = [tcLock EXCEPT !.live = FALSE]
  /\ UNCHANGED <<tcScope, tcDomain, tcLease, tcCert, tcEdge, tcRev, tcW>>

Crash(w) ==
  /\ tcW[w].pc # "idle" /\ Rests(w)
  /\ UNCHANGED <<tcScope, tcDomain, tcLease, tcCert, tcEdge, tcLock, tcRev>>

TcInit ==
  /\ tcMax \in TcBounds /\ tcLeaf \in BOOLEAN /\ (tcKind = "platform" => ~tcLeaf)
  /\ tcDomain = [gen |-> 1, state |-> IF tcLeaf THEN "ready" ELSE "issuing", ref |-> TcNone,
                 ok |-> TRUE, op |-> IF tcKind = "durable" /\ ~tcLeaf THEN "pending" ELSE "done"]
  /\ tcLease = [gen |-> 1, live |-> TRUE]
  /\ tcCert = [c \in TcCerts |-> TcNone]
  /\ tcRow = [k \in TcRows |-> "none"] /\ tcStale = {}
  /\ tcLock = NoLock
  /\ tcReady = {} /\ tcEpoch = [n \in TcNodes |-> 1]
  /\ tcRev = TcNone
  /\ \E o \in [TcWorkers -> TcOwners] : tcW = [w \in TcWorkers |-> Idle(o[w])]

TcStep(w) ==
  \/ Begin(w) \/ CheckCAAFails(w) \/ Acquire(w) \/ Reread(w) \/ Issue(w) \/ PutStaged(w)
  \/ Stage(w) \/ WaitReady(w) \/ ActivateEdge(w) \/ RetireObsoleteCertificateTargets(w)
  \/ rollbackStaged(w) \/ failStaged(w) \/ StoreActivate(w) \/ RetirePrior(w) \/ Release(w)
  \/ MarkFailure(w) \/ CheckCurrent(w) \/ Commit(w) \/ Crash(w)

TcNext ==
  \/ \E w \in tcMax.crew : TcStep(w)
  \/ ReconcileCertificateDistributionCleanup \/ Revoke \/ revokeCurrent \/ RevokeStops
  \/ ReconcileRevocations \/ DomainChanges \/ LeaseRenews \/ LeaseEnds \/ FallsDue
  \/ NodeReplaced \/ EdgeReady \/ LockExpires

TcSpec == TcInit /\ [][TcNext]_tcVars

-----------------------------------------------------------------------------
TcTypeOK ==
  /\ tcDomain.gen \in 1..tcMax.gen /\ tcDomain.ref \in TcCerts \cup {TcNone}
  /\ tcDomain.state \in {"issuing", "ready", "renewing", "failed"}
  /\ \A c \in TcCerts : Issued(c) => tcCert[c] \in TunnelCertificateRecord
  /\ tcRow \in [TcRows -> TunnelCertificateEdgeDistribution] /\ tcStale \subseteq TcRows
  /\ tcReady \subseteq TcTargets /\ tcLock.dgen \in 0..tcMax.gen
  /\ tcRev \in TcCerts \cup {TcNone}

(* A certificate gives way only to one that is already served: when an active *)
(* certificate becomes superseded, its successor becomes active in the same    *)
(* step and every target its worker captured (at least one) has acknowledged   *)
(* it.  Ensure's order: stage, wait, activate on the edges, then the store.    *)
ReplacementIsServedFirst ==
  \A c \in TcCerts :
    (Issued(c) /\ tcCert[c].state = "active" /\ tcCert'[c].state = "superseded")
      => \E w \in TcWorkers :
           /\ tcW[w].pc = "activate" /\ tcCert'[tcW[w].cert].state = "active"
           /\ tcW[w].targets # {}
           /\ \A t \in tcW[w].targets : tcRow[<<tcW[w].cert, t>>] = "active"

(* Publication is fenced by the domain generation and, for a preview, by the  *)
(* lease: the reference of a durable or preview domain only ever changes to a *)
(* certificate that is active at that moment and was issued for exactly the   *)
(* generation being replaced, whatever other workers did since the read.      *)
PublishesCurrentCertificate ==
  tcKind # "platform" /\ tcDomain'.ref # tcDomain.ref /\ tcDomain'.ref # TcNone =>
    /\ tcCert[tcDomain'.ref].state = "active"
    /\ tcCert[tcDomain'.ref].dgen = tcDomain.gen
    /\ tcKind = "preview" => tcLease.live /\ tcCert[tcDomain'.ref].pgen = tcLease.gen

(* No certificate of a preview outlives its lease: after the lease ended none *)
(* of its rows is staged or active, also one a worker was distributing.       *)
CertificatesEndWithLease == ~tcLease.live => InState({"staged", "active"}) = {}

=============================================================================
