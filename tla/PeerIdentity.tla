---------------------------- MODULE PeerIdentity ----------------------------
(***************************************************************************)
(* The end-to-end identities of one account (internal/peeridentity): the   *)
(* account's root and its device signing keys, the endpoint certificates   *)
(* those keys sign for CLI sessions and for a machine, the enrollment      *)
(* requests a machine or a CLI leaves for another device to sign, and what *)
(* the removal of the machine or the revocation of a session takes away.   *)
(*                                                                         *)
(* Every action is one transaction.  A certificate is named by its         *)
(* fingerprint; its serial is part of what the fingerprint covers.  The    *)
(* root is never revoked or replaced: no code calls the queries that would.*)
(***************************************************************************)
EXTENDS Naturals, FiniteSets

CONSTANTS
  PkClients,     \* CLI sessions of the account
  PkHost,        \* the account's machine, as an endpoint
  PkKeys,        \* device signing keys (fingerprints)
  PkCerts,       \* endpoint certificates (fingerprints)
  PkOps,         \* operation keys of enrollment requests
  PkMaxGen,      \* bound on the machine's installation generation
  PkNone

PkAssumption == PkHost \notin PkClients /\ PkMaxGen \in Nat \ {0}

VARIABLES
  pkRoot,        \* whether account_e2ee_roots has the account's row
  pkClient,      \* [PkClients -> [active, bound]]: bound to the machine
  pkHost,        \* [gen, live] of user_machines
  pkKey,         \* account_e2ee_keys
  pkCert,        \* peer_endpoint_certificates
  pkRequest,     \* peer_endpoint_enrollment_requests, by operation key
  pkCalls        \* bootstraps of authenticated sessions not yet committed

pkVars == <<pkRoot, pkClient, pkHost, pkKey, pkCert, pkRequest, pkCalls>>

NoAccountKey == [client |-> PkNone, bound |-> FALSE, revoked |-> FALSE, stored |-> FALSE]

NoEndpointCert ==
  [key |-> PkNone, endpoint |-> PkNone, gen |-> 0, request |-> PkNone,
   revoked |-> FALSE, late |-> FALSE]

NoEnrollmentRequest ==
  [endpoint |-> PkNone, gen |-> 0, state |-> "none", late |-> FALSE, cert |-> PkNone]

PkEndpoints == PkClients \cup {PkHost}

\* The account's key by fingerprint, and whether it is unrevoked.
TrustedKey(k) == pkKey[k].stored /\ ~pkKey[k].revoked

CertStored(c) == pkCert[c].endpoint # PkNone

CertUnrevoked(c) == CertStored(c) /\ ~pkCert[c].revoked

PkTypeOK ==
  /\ pkRoot \in BOOLEAN
  /\ pkClient \in [PkClients -> [active : BOOLEAN, bound : BOOLEAN]]
  /\ pkHost \in [gen : 1..PkMaxGen, live : BOOLEAN]
  /\ pkKey \in [PkKeys -> [client : PkClients \cup {PkNone}, bound : BOOLEAN,
                           revoked : BOOLEAN, stored : BOOLEAN]]
  /\ pkCert \in [PkCerts -> [key : PkKeys \cup {PkNone},
                             endpoint : PkEndpoints \cup {PkNone},
                             gen : 0..PkMaxGen, request : PkOps \cup {PkNone},
                             revoked : BOOLEAN, late : BOOLEAN]]
  /\ pkRequest \in [PkOps -> [endpoint : PkEndpoints \cup {PkNone},
                              gen : 0..PkMaxGen,
                              state : {"none", "pending", "fulfilled", "expired", "revoked"},
                              late : BOOLEAN, cert : PkCerts \cup {PkNone}]]
  /\ pkCalls \subseteq PkClients

PkInit ==
  /\ pkRoot = FALSE
  /\ pkClient = [x \in PkClients |-> [active |-> TRUE, bound |-> FALSE]]
  /\ pkHost = [gen |-> 1, live |-> TRUE]
  /\ pkKey = [k \in PkKeys |-> NoAccountKey]
  /\ pkCert = [c \in PkCerts |-> NoEndpointCert]
  /\ pkRequest = [q \in PkOps |-> NoEnrollmentRequest]
  /\ pkCalls = {}

-----------------------------------------------------------------------------
(* The account's root and keys.                                            *)

\* A device key is named by its fingerprint and is bound to the session that
\* enrolled it, which may own one key only (account_e2ee_keys_cli_session_unique).
CreateAccountE2EEKey(k, x, bound) ==
  [pkKey EXCEPT ![k] = [client |-> x, bound |-> bound, revoked |-> FALSE, stored |-> TRUE]]

CreateAccountE2EERoot == pkRoot' = TRUE

GetAccountE2EEKeyByCLISessionForUpdate(x) == {k \in PkKeys : pkKey[k].client = x}

ListAccountE2EEKeys == {k \in PkKeys : pkKey[k].stored}

ListActiveAccountE2EEKeys == {k \in PkKeys : TrustedKey(k)}

GetFreshEnrollmentMachineID(x) == pkClient[x].bound

GetDeviceEnrollmentClientSession(x) == pkClient[x].active

requireActiveAccountRoot == pkRoot /\ ListActiveAccountE2EEKeys # {}

-----------------------------------------------------------------------------
(* Certificates.                                                           *)

\* RevokeSupersededPeerEndpointCertificates: an endpoint's older generations.
RevokeSupersededPeerEndpointCertificates(certs, e, g) ==
  [c \in PkCerts |-> IF certs[c].endpoint = e /\ certs[c].gen < g
                     THEN [certs[c] EXCEPT !.revoked = TRUE] ELSE certs[c]]

\* CreatePeerEndpointCertificate inserts unless the fingerprint is known or the
\* endpoint has an unrevoked certificate of this generation (the unique index);
\* an expired one that nobody revoked still occupies the place.
CreatePeerEndpointCertificate(c, e, g) ==
  /\ ~CertStored(c)
  /\ ~\E d \in PkCerts : CertUnrevoked(d) /\ pkCert[d].endpoint = e /\ pkCert[d].gen = g

GetMatchingPeerEndpointEnrollmentRequestForUpdate(e, g) ==
  {q \in PkOps : /\ pkRequest[q].endpoint = e /\ pkRequest[q].gen = g
                 /\ pkRequest[q].state = "pending" /\ ~pkRequest[q].late}

FulfillPeerEndpointEnrollmentRequest(q, c) ==
  [pkRequest EXCEPT ![q].state = "fulfilled", ![q].cert = c]

\* registerTx of a certificate c that key k signed for generation g of endpoint
\* e.  A repeated operation answers what it stored and changes nothing, so only
\* the first one is a step.
registerTx(c, k, e, g, q) ==
  /\ CreatePeerEndpointCertificate(c, e, g)
  /\ pkCert' = [RevokeSupersededPeerEndpointCertificates(pkCert, e, g) EXCEPT
                  ![c] = [key |-> k, endpoint |-> e, gen |-> g, request |-> q,
                          revoked |-> FALSE, late |-> FALSE]]

-----------------------------------------------------------------------------
(* Bootstrap: a CLI session enrolls its own key and its own certificate.   *)

\* e2eeBootstrap authenticates the session; the transaction comes later.
e2eeBootstrap(x) ==
  /\ pkClient[x].active /\ x \notin pkCalls
  /\ pkCalls' = pkCalls \cup {x}
  /\ UNCHANGED <<pkRoot, pkClient, pkHost, pkKey, pkCert, pkRequest>>

PkBootstrapAbandoned(x) ==
  /\ x \in pkCalls
  /\ pkCalls' = pkCalls \ {x}
  /\ UNCHANGED <<pkRoot, pkClient, pkHost, pkKey, pkCert, pkRequest>>

\* SQLRepository.Bootstrap: the account's first key, or that same key again;
\* the key is bound to no session and the session is not looked at.
PkBootstrap(x, k, c) ==
  /\ x \in pkCalls
  /\ \/ TrustedKey(k) /\ pkKey' = pkKey
     \/ ListAccountE2EEKeys = {} /\ pkKey' = CreateAccountE2EEKey(k, PkNone, FALSE)
  /\ CreateAccountE2EERoot
  /\ registerTx(c, k, x, 1, PkNone)
  /\ pkCalls' = pkCalls \ {x}
  /\ UNCHANGED <<pkClient, pkHost, pkRequest>>

\* A session without a key of its own, or whose own key is k and is trusted.
PkBoundKeyAllows(x, k) ==
  \A b \in GetAccountE2EEKeyByCLISessionForUpdate(x) : b = k /\ TrustedKey(b)

\* SQLRepository.BootstrapFresh: one signing key per authenticated session.
PkBootstrapFresh(x, k, c) ==
  /\ x \in pkCalls
  /\ GetDeviceEnrollmentClientSession(x)
  /\ PkBoundKeyAllows(x, k)
  /\ \/ TrustedKey(k) /\ pkKey[k].client \in {PkNone, x} /\ pkKey' = pkKey
     \/ /\ ~pkKey[k].stored
        /\ pkKey' = CreateAccountE2EEKey(k, x, GetFreshEnrollmentMachineID(x))
  /\ CreateAccountE2EERoot
  /\ registerTx(c, k, x, 1, PkNone)
  /\ pkCalls' = pkCalls \ {x}
  /\ UNCHANGED <<pkClient, pkHost, pkRequest>>

\* Service.Bootstrap takes the one or the other, as the request's header says.
PkBootstraps(x, k, c) == PkBootstrap(x, k, c) \/ PkBootstrapFresh(x, k, c)

-----------------------------------------------------------------------------
(* Enrollment requests.                                                    *)

ExpirePeerEndpointEnrollmentRequests ==
  [q \in PkOps |-> IF pkRequest[q].state = "pending" /\ pkRequest[q].late
                   THEN [pkRequest[q] EXCEPT !.state = "expired", !.late = FALSE]
                   ELSE pkRequest[q]]

PkPendingFor(rows, e, g) ==
  {q \in PkOps : rows[q].state = "pending" /\ rows[q].endpoint = e /\ rows[q].gen = g}

PkPends(rows, q, e, g) ==
  [rows EXCEPT ![q] = [endpoint |-> e, gen |-> g, state |-> "pending",
                       late |-> FALSE, cert |-> PkNone]]

PkInstalledAt(g) == pkHost.live /\ pkHost.gen = g

\* CreatePeerEndpointEnrollmentRequest: the machine is live and of this
\* installation generation, and no other request of it is pending.
CreatePeerEndpointEnrollmentRequest(rows, q, g) ==
  /\ rows[q].state = "none" /\ PkInstalledAt(g)
  /\ PkPendingFor(rows, PkHost, g) = {}
  /\ pkRequest' = PkPends(rows, q, PkHost, g)

\* RenewExpiredPeerEndpointEnrollmentRequest: the unique index on pending
\* requests makes the update fail when another operation is pending.
RenewExpiredPeerEndpointEnrollmentRequest(rows, q, g) ==
  /\ rows[q].state = "expired" /\ rows[q].endpoint = PkHost /\ rows[q].gen = g
  /\ PkInstalledAt(g)
  /\ PkPendingFor(rows, PkHost, g) = {}
  /\ pkRequest' = PkPends(rows, q, PkHost, g)

\* SQLRepository.RequestMachineEndpoint for generation g of the machine.
PkRequestMachineEndpoint(q, g) ==
  LET rows == ExpirePeerEndpointEnrollmentRequests
  IN \/ CreatePeerEndpointEnrollmentRequest(rows, q, g)
     \/ RenewExpiredPeerEndpointEnrollmentRequest(rows, q, g)

\* machineEndpointRequest: the machine proves the generation it asks for.
machineEndpointRequest(q, g) ==
  /\ PkRequestMachineEndpoint(q, g)
  /\ UNCHANGED <<pkRoot, pkClient, pkHost, pkKey, pkCert, pkCalls>>

CreateCLIPeerEndpointEnrollmentRequest(rows, q, x) ==
  /\ rows[q].state = "none"
  /\ PkPendingFor(rows, x, 1) = {}
  /\ pkRequest' = PkPends(rows, q, x, 1)

RenewExpiredCLIPeerEndpointEnrollmentRequest(rows, q, x) ==
  /\ rows[q].state = "expired" /\ rows[q].endpoint = x
  /\ PkPendingFor(rows, x, 1) \ {q} = {}
  /\ pkRequest' = PkPends(rows, q, x, 1)

PkRequestCLIEndpoint(q, x) ==
  LET rows == ExpirePeerEndpointEnrollmentRequests
  IN /\ requireActiveAccountRoot
     /\ \/ CreateCLIPeerEndpointEnrollmentRequest(rows, q, x)
        \/ RenewExpiredCLIPeerEndpointEnrollmentRequest(rows, q, x)

cliEndpointRequest(q, x) ==
  /\ pkClient[x].active
  /\ PkRequestCLIEndpoint(q, x)
  /\ UNCHANGED <<pkRoot, pkClient, pkHost, pkKey, pkCert, pkCalls>>

\* ListPendingEndpoints: what another device of the account is asked to sign.
ListPendingPeerEndpointEnrollmentRequests ==
  {q \in PkOps : pkRequest[q].state = "pending" /\ ~pkRequest[q].late}

PkRequestFallsLate(q) ==
  /\ pkRequest[q].state = "pending" /\ ~pkRequest[q].late
  /\ pkRequest' = [pkRequest EXCEPT ![q].late = TRUE]
  /\ UNCHANGED <<pkRoot, pkClient, pkHost, pkKey, pkCert, pkCalls>>

-----------------------------------------------------------------------------
(* Registration, revocation and expiry.                                    *)

\* SQLRepository.Register (Service.Register admits machine certificates only):
\* a trusted key signed c for a pending request of the machine.  The machine's
\* row is not read again.
PkRegister(c, k, g) ==
  \E q \in GetMatchingPeerEndpointEnrollmentRequestForUpdate(PkHost, g) :
    /\ pkRoot /\ TrustedKey(k)
    /\ registerTx(c, k, PkHost, g, q)
    /\ pkRequest' = FulfillPeerEndpointEnrollmentRequest(q, c)

\* endpointCertificateRegister: an authenticated device presents c.
endpointCertificateRegister(c, k, g) ==
  /\ \E x \in PkClients : pkClient[x].active
  /\ \E q \in ListPendingPeerEndpointEnrollmentRequests : pkRequest[q].gen = g
  /\ PkRegister(c, k, g)
  /\ UNCHANGED <<pkRoot, pkClient, pkHost, pkKey, pkCalls>>

RevokePeerEndpointCertificate(c) == [pkCert EXCEPT ![c].revoked = TRUE]

\* SQLRepository.Revoke: refused when the key that signed c is revoked.
PkRevokeCertificate(c) ==
  /\ pkRoot /\ CertUnrevoked(c) /\ TrustedKey(pkCert[c].key)
  /\ pkCert' = RevokePeerEndpointCertificate(c)

endpointCertificateRevoke(c) ==
  /\ \E x \in PkClients : pkClient[x].active
  /\ PkRevokeCertificate(c)
  /\ UNCHANGED <<pkRoot, pkClient, pkHost, pkKey, pkRequest, pkCalls>>

PkCertFallsLate(c) ==
  /\ CertUnrevoked(c) /\ ~pkCert[c].late
  /\ pkCert' = [pkCert EXCEPT ![c].late = TRUE]
  /\ UNCHANGED <<pkRoot, pkClient, pkHost, pkKey, pkRequest, pkCalls>>

-----------------------------------------------------------------------------
(* Sessions and the machine.                                               *)

\* The trigger on cli_client_sessions (revoke_cli_peer_endpoint_for_session).
PkSessionsLoseCerts(S) ==
  [c \in PkCerts |-> IF pkCert[c].endpoint \in S
                     THEN [pkCert[c] EXCEPT !.revoked = TRUE] ELSE pkCert[c]]

PkSessionsLoseRequests(S) ==
  [q \in PkOps |-> IF pkRequest[q].endpoint \in S
                      /\ pkRequest[q].state \in {"pending", "fulfilled"}
                   THEN [pkRequest[q] EXCEPT !.state = "revoked", !.cert = PkNone,
                                             !.late = FALSE]
                   ELSE pkRequest[q]]

\* A session signed out or revoked elsewhere.
PkSessionRevoked(x) ==
  /\ pkClient[x].active
  /\ pkClient' = [pkClient EXCEPT ![x].active = FALSE]
  /\ pkCert' = PkSessionsLoseCerts({x})
  /\ pkRequest' = PkSessionsLoseRequests({x})
  /\ UNCHANGED <<pkRoot, pkHost, pkKey, pkCalls>>

BindsSessionToMachine(x) ==
  /\ pkClient[x].active /\ ~pkClient[x].bound /\ pkHost.live
  /\ pkClient' = [pkClient EXCEPT ![x].bound = TRUE]
  /\ UNCHANGED <<pkRoot, pkHost, pkKey, pkCert, pkRequest, pkCalls>>

PkHostSessions == {x \in PkClients : pkClient[x].bound}

PkRevokesTaggedKeys ==
  [k \in PkKeys |-> IF pkKey[k].bound THEN [pkKey[k] EXCEPT !.revoked = TRUE] ELSE pkKey[k]]

\* Keys tied to the machine, or to any session the machine ever had.
RevokeUserMachineE2EEKeys ==
  [k \in PkKeys |-> IF pkKey[k].stored
                       /\ (pkKey[k].bound \/ pkKey[k].client \in PkHostSessions)
                    THEN [pkKey[k] EXCEPT !.revoked = TRUE] ELSE pkKey[k]]

RevokesSessionsOfMachine ==
  [x \in PkClients |-> IF pkClient[x].bound THEN [pkClient[x] EXCEPT !.active = FALSE]
                       ELSE pkClient[x]]

\* RevokeUserMachinePeerAuthority, the part about requests: the machine's own
\* pending ones, besides what the sessions' trigger has revoked.
PkMachineLosesRequests(rows) ==
  [q \in PkOps |-> IF rows[q].endpoint \in PkHostSessions \cup {PkHost}
                      /\ rows[q].state = "pending"
                   THEN [rows[q] EXCEPT !.state = "revoked", !.late = FALSE]
                   ELSE rows[q]]

\* The identity half of CleanupMachineDeviceTx, in the deleting transaction.
CleanupMachineDeviceTx ==
  /\ pkHost.live
  /\ pkHost' = [pkHost EXCEPT !.live = FALSE]
  /\ pkKey' = RevokeUserMachineE2EEKeys
  /\ pkClient' = RevokesSessionsOfMachine
  /\ pkCert' = PkSessionsLoseCerts(PkHostSessions \cup {PkHost})
  /\ pkRequest' = PkMachineLosesRequests(
                    PkSessionsLoseRequests({x \in PkHostSessions : pkClient[x].active}))
  /\ UNCHANGED <<pkRoot, pkCalls>>

\* A re-installation of the machine under the next generation.
PkReinstalled ==
  /\ pkHost.live /\ pkHost.gen < PkMaxGen
  /\ pkHost' = [pkHost EXCEPT !.gen = @ + 1]
  /\ UNCHANGED <<pkRoot, pkClient, pkKey, pkCert, pkRequest, pkCalls>>

PkStep ==
  \/ \E x \in PkClients :
       \/ e2eeBootstrap(x) \/ PkBootstrapAbandoned(x)
       \/ \E k \in PkKeys, c \in PkCerts : PkBootstraps(x, k, c)
       \/ \E q \in PkOps : cliEndpointRequest(q, x)
       \/ BindsSessionToMachine(x)
  \/ \E q \in PkOps : PkRequestFallsLate(q) \/ \E g \in 1..PkMaxGen : machineEndpointRequest(q, g)
  \/ \E c \in PkCerts, k \in PkKeys, g \in 1..PkMaxGen : endpointCertificateRegister(c, k, g)
  \/ PkReinstalled

\* The steps that withdraw a session's or a certificate's authority.
PkWithdraws ==
  \/ \E x \in PkClients : PkSessionRevoked(x)
  \/ \E c \in PkCerts : endpointCertificateRevoke(c) \/ PkCertFallsLate(c)

PkNext == PkStep \/ PkWithdraws \/ CleanupMachineDeviceTx

PkSpec == PkInit /\ [][PkNext]_pkVars

-----------------------------------------------------------------------------
(* Properties.                                                             *)

\* Removing the machine leaves no identity of it behind, whatever was under way:
\* its certificates and pending requests are revoked and stay so, its sessions
\* are ended, and no key it or one of its sessions enrolled is trusted.
RemovedDeviceHasNoIdentity ==
  ~pkHost.live =>
    /\ \A c \in PkCerts : pkCert[c].endpoint = PkHost => pkCert[c].revoked
    /\ \A q \in PkOps : pkRequest[q].endpoint = PkHost => pkRequest[q].state # "pending"
    /\ \A x \in PkHostSessions : ~pkClient[x].active
    /\ \A k \in PkKeys : TrustedKey(k) =>
         ~pkKey[k].bound /\ pkKey[k].client \notin PkHostSessions

\* One authenticated session owns one signing identity: whatever the order of
\* its bootstraps, no two keys are bound to it.
SessionOwnsOneKey ==
  \A k, l \in PkKeys : (pkKey[k].client = pkKey[l].client /\ pkKey[k].client # PkNone) => k = l

\* A request yields one certificate: a fulfilled request is not signed again,
\* even after its certificate was revoked.
RequestYieldsOneCertificate ==
  \A c, d \in PkCerts :
    (pkCert[c].request = pkCert[d].request /\ pkCert[c].request # PkNone) => c = d
=============================================================================
