---------------------------- MODULE PeerSessions ----------------------------
(***************************************************************************)
(* Peer session attempts (internal/peersessions), composed with the        *)
(* identities they rest on: a CLI session reserves an intent to reach the  *)
(* machine, the machine's parked request is handed the intent once, either *)
(* side may revoke it, a worker expires it, and the edges are told which   *)
(* credentials no longer hold.                                             *)
(*                                                                         *)
(* Intents are numbered in order of creation.  An intent's two signaling   *)
(* grants and its relay allocation are written, revoked and expired with   *)
(* it in every statement, so one state stands for the four rows.           *)
(***************************************************************************)
EXTENDS PeerIdentity

CONSTANT PsMax          \* bound on the intents of a behaviour

PsAssumption == PsMax \in Nat

VARIABLES
  psIntent,      \* peer_session_intents
  psReach,       \* the connector is admitted on a ready, fresh edge node
  psPoll,        \* the machine's parked request on one replica
  psToNotify     \* intents that replica reserved and has not announced yet

psVars == <<psIntent, psReach, psPoll, psToNotify>>

peerVars == <<pkVars, psVars>>

PsIntents == 1..PsMax

NoIntent == [client |-> PkNone, ctl |-> PkNone, host |-> PkNone, state |-> "none",
             delivered |-> FALSE, late |-> FALSE]

NoPoll == [at |-> "idle", gen |-> 0, woken |-> FALSE]

PsTypeOK ==
  /\ psIntent \in [PsIntents -> [client : PkClients \cup {PkNone},
                                 ctl : PkCerts \cup {PkNone}, host : PkCerts \cup {PkNone},
                                 state : {"none", "active", "revoked", "expired"},
                                 delivered : BOOLEAN, late : BOOLEAN]]
  /\ psReach \in BOOLEAN
  /\ psPoll \in [at : {"idle", "first", "subscribe", "second", "parked"},
                 gen : 0..PkMaxGen, woken : BOOLEAN]
  /\ psToNotify \subseteq PsIntents

PsInit ==
  /\ PkInit
  /\ psIntent = [i \in PsIntents |-> NoIntent]
  /\ psReach = FALSE
  /\ psPoll = NoPoll
  /\ psToNotify = {}

\* A certificate that holds now, with a key that is still trusted.
CertHolds(c) == CertUnrevoked(c) /\ ~pkCert[c].late /\ TrustedKey(pkCert[c].key)

PsUnused == {i \in PsIntents : psIntent[i].state = "none"}

PsFirst(S) == CHOOSE i \in S : \A j \in S : i <= j

-----------------------------------------------------------------------------
(* Issuing an attempt.                                                     *)

ResolvePeerSessionAuthorityForUpdate(x, ctl, host) ==
  /\ pkClient[x].active /\ psReach /\ pkHost.live
  /\ CertHolds(ctl) /\ pkCert[ctl].endpoint = x
  /\ CertHolds(host) /\ pkCert[host].endpoint = PkHost

trustedKeysFromRows == ListActiveAccountE2EEKeys # {}

CreatePeerSessionIntent(i, x, ctl, host) ==
  psIntent' = [psIntent EXCEPT ![i] = [client |-> x, ctl |-> ctl, host |-> host,
                                       state |-> "active", delivered |-> FALSE, late |-> FALSE]]

\* SQLRepository.Reserve of a new operation; a repeated one changes nothing.
PsReserve(x, ctl, host) ==
  /\ PsUnused # {}
  /\ ResolvePeerSessionAuthorityForUpdate(x, ctl, host)
  /\ trustedKeysFromRows
  /\ CreatePeerSessionIntent(PsFirst(PsUnused), x, ctl, host)

\* Service.Issue up to its notification, on the replica that holds the
\* machine's request (here) or on another one.
peerAttemptCreate(x, ctl, host, here) ==
  /\ PsReserve(x, ctl, host)
  /\ psToNotify' = psToNotify \cup (IF here THEN {PsFirst(PsUnused)} ELSE {})
  /\ UNCHANGED <<pkVars, psReach, psPoll>>

\* notifyControlled closes the channels of the requests waiting for the
\* generation the machine had when the intent was reserved.
notifyControlled(i) ==
  /\ i \in psToNotify
  /\ psToNotify' = psToNotify \ {i}
  /\ psPoll' = [psPoll EXCEPT !.woken = psPoll.at \in {"second", "parked"}]
  /\ UNCHANGED <<pkVars, psIntent, psReach>>

-----------------------------------------------------------------------------
(* The machine's parked request.                                           *)

ResolveControlledPeerSessionForMachine(g) ==
  {i \in PsIntents :
     /\ psIntent[i].state = "active" /\ ~psIntent[i].late /\ ~psIntent[i].delivered
     /\ CertHolds(psIntent[i].ctl) /\ CertHolds(psIntent[i].host)
     /\ pkCert[psIntent[i].host].gen = g /\ pkHost.gen = g /\ pkHost.live
     /\ pkClient[psIntent[i].client].active
     /\ psReach}

MarkControlledPeerSessionDelivered(i) == [psIntent EXCEPT ![i].delivered = TRUE]

\* SQLRepository.Controlled: the oldest intent that may be handed over, and the
\* mark that it was, in one transaction.
PsControlled(g) ==
  LET ready == ResolveControlledPeerSessionForMachine(g)
  IN ready # {} /\ psIntent' = MarkControlledPeerSessionDelivered(PsFirst(ready))

controlledPeerAttemptNext ==
  /\ psPoll.at = "idle" /\ pkHost.live
  /\ psPoll' = [at |-> "first", gen |-> pkHost.gen, woken |-> FALSE]
  /\ UNCHANGED <<pkVars, psIntent, psReach, psToNotify>>

\* NextControlled, before and after the subscription: an intent ends the
\* request, none moves it on.
NextControlled ==
  /\ psPoll.at \in {"first", "second"}
  /\ \/ PsControlled(psPoll.gen) /\ psPoll' = NoPoll
     \/ /\ ResolveControlledPeerSessionForMachine(psPoll.gen) = {}
        /\ psPoll' = [psPoll EXCEPT !.at = IF @ = "first" THEN "subscribe" ELSE "parked"]
        /\ UNCHANGED psIntent
  /\ UNCHANGED <<pkVars, psReach, psToNotify>>

subscribeControlled ==
  /\ psPoll.at = "subscribe"
  /\ psPoll' = [psPoll EXCEPT !.at = "second"]
  /\ UNCHANGED <<pkVars, psIntent, psReach, psToNotify>>

PsWokenOnly == psPoll.woken

PsTimerOrWoken == TRUE

\* WaitNextControlled's select: the announcement or the 250 ms timer, and the
\* loop starts over.
WaitNextControlled ==
  /\ psPoll.at = "parked" /\ PsTimerOrWoken
  /\ psPoll' = [psPoll EXCEPT !.at = "first", !.woken = FALSE]
  /\ UNCHANGED <<pkVars, psIntent, psReach, psToNotify>>

\* The twelve seconds are over and the machine is answered "nothing".
PsPollEnds ==
  /\ psPoll.at = "parked"
  /\ psPoll' = NoPoll
  /\ UNCHANGED <<pkVars, psIntent, psReach, psToNotify>>

-----------------------------------------------------------------------------
(* The end of an intent.                                                   *)

RevokePeerSessionIntent(i) ==
  /\ psIntent[i].state = "active"
  /\ psIntent' = [psIntent EXCEPT ![i].state = "revoked"]

\* SQLRepository.Revoke with a new operation key.
peerAttemptDelete(i) ==
  /\ RevokePeerSessionIntent(i)
  /\ UNCHANGED <<pkVars, psReach, psPoll, psToNotify>>

ExpirePeerSessionIntents ==
  [i \in PsIntents |-> IF psIntent[i].state = "active" /\ psIntent[i].late
                       THEN [psIntent[i] EXCEPT !.state = "expired"] ELSE psIntent[i]]

\* One round of ExpiryWorker.
PsExpire ==
  /\ psIntent' = ExpirePeerSessionIntents
  /\ psIntent' # psIntent
  /\ UNCHANGED <<pkVars, psReach, psPoll, psToNotify>>

PsIntentFallsLate(i) ==
  /\ psIntent[i].state = "active" /\ ~psIntent[i].late
  /\ psIntent' = [psIntent EXCEPT ![i].late = TRUE]
  /\ UNCHANGED <<pkVars, psReach, psPoll, psToNotify>>

PsReachChanges ==
  /\ psReach' = ~psReach
  /\ UNCHANGED <<pkVars, psIntent, psPoll, psToNotify>>

\* RevokeUserMachinePeerAuthority: the active intents of the machine's sessions
\* and those that name a certificate of the machine or of one of its sessions.
RevokeUserMachinePeerAuthority ==
  LET ends == {c \in PkCerts : pkCert[c].endpoint \in PkHostSessions \cup {PkHost}}
  IN [i \in PsIntents |->
        IF /\ psIntent[i].state = "active"
           /\ \/ psIntent[i].client \in PkHostSessions
              \/ {psIntent[i].ctl, psIntent[i].host} \cap ends # {}
        THEN [psIntent[i] EXCEPT !.state = "revoked"] ELSE psIntent[i]]

\* CleanupMachineDeviceTx with its effect on intents.
PsRemoveDevice ==
  /\ CleanupMachineDeviceTx
  /\ psIntent' = RevokeUserMachinePeerAuthority
  /\ UNCHANGED <<psReach, psPoll, psToNotify>>

\* ListRevokedControlCredentialJTIs, the parts about signaling grants and relay
\* allocations: the intents whose unexpired credentials the edges must refuse.
ListRevokedControlCredentialJTIs ==
  {i \in PsIntents :
     /\ psIntent[i].state # "none" /\ ~psIntent[i].late
     /\ \/ psIntent[i].state # "active"
        \/ ~pkClient[psIntent[i].client].active
        \/ \E c \in {psIntent[i].ctl, psIntent[i].host} :
             pkCert[c].revoked \/ pkKey[pkCert[c].key].revoked}

PsMachineStep ==
  \/ controlledPeerAttemptNext \/ NextControlled \/ subscribeControlled
  \/ WaitNextControlled \/ PsPollEnds

PsNext ==
  \/ (PkStep \/ PkWithdraws) /\ UNCHANGED psVars
  \/ PsRemoveDevice
  \/ \E x \in PkClients, c, d \in PkCerts, here \in BOOLEAN : peerAttemptCreate(x, c, d, here)
  \/ \E i \in PsIntents : notifyControlled(i) \/ peerAttemptDelete(i) \/ PsIntentFallsLate(i)
  \/ PsMachineStep \/ PsExpire \/ PsReachChanges

PsSpec == PsInit /\ [][PsNext]_peerVars

\* The goroutine of the machine's request runs and its timer is a clock.
PsFairness ==
  /\ WF_peerVars(NextControlled) /\ WF_peerVars(subscribeControlled)
  /\ WF_peerVars(WaitNextControlled)

PsFairSpec == PsSpec /\ PsFairness

-----------------------------------------------------------------------------
(* Properties.                                                             *)

\* Once the machine is removed no attempt to reach it is open, whoever reserved
\* it and whether or not the machine already holds it, and none is reserved
\* afterwards.
RemovedDeviceHasNoIntent ==
  ~pkHost.live => \A i \in PsIntents : psIntent[i].state # "active"

\* The edges are told of every withdrawal: an unexpired attempt that is not on
\* the revocation list has an active session, unrevoked certificates, trusted
\* keys and a machine that still exists.
UnlistedAttemptIsAuthorized ==
  \A i \in PsIntents :
    (psIntent[i].state # "none" /\ ~psIntent[i].late /\ i \notin ListRevokedControlCredentialJTIs) =>
      /\ pkHost.live /\ pkClient[psIntent[i].client].active
      /\ \A c \in {psIntent[i].ctl, psIntent[i].host} :
           CertUnrevoked(c) /\ TrustedKey(pkCert[c].key)

AttemptWaits(i) ==
  psPoll.at # "idle" /\ i \in ResolveControlledPeerSessionForMachine(psPoll.gen)

\* A request that is parked when an attempt for its machine exists is answered
\* without waiting for its deadline, or the attempt stops being possible: the
\* second read and the bounded refresh of WaitNextControlled lose none, also when
\* another replica reserved it or it was announced between the two reads.
AttemptReachesParkedRequest == \A i \in PsIntents : AttemptWaits(i) ~> ~AttemptWaits(i)
=============================================================================
