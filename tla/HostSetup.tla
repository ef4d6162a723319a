----------------------------- MODULE HostSetup ------------------------------
(***************************************************************************)
(* usermachines/service.go: a signed-in CLI makes its machine a host.  The *)
(* pairing row is the lock under which a helper grant is issued, by a      *)
(* transaction of the enrollment service, and bound; a downgrade, an       *)
(* unpairing, a deletion and the end of the CLI session wait for it.       *)
(*                                                                         *)
(* One machine of one user.  A request dies between any two of its steps;  *)
(* its lock is then released and its uncommitted binding is gone.          *)
(***************************************************************************)
EXTENDS Naturals, FiniteSets

CONSTANTS HsPairings, HsGrants, HsSessions, HsRequests, HsNone

VARIABLES hsMode,      \* setup mode of the machine, or "gone" when it was deleted
          hsPairing,   \* user_machine_pairings with an authenticated setup
          hsGrant,     \* state of control_helper_enrollments and of their helper
          hsSession,   \* CLI sessions that are active
          hsLock,      \* the request that holds a pairing's row lock
          hsRequest

hsVars == <<hsMode, hsPairing, hsGrant, hsSession, hsLock, hsRequest>>

HsNoPairing == [state |-> "none", session |-> HsNone, grant |-> HsNone, material |-> HsNone,
                consumed |-> FALSE, recovery |-> FALSE]
HsIdle == [pc |-> "idle", pairing |-> HsNone, session |-> HsNone, grant |-> HsNone,
           state |-> "approved"]

HsTypeOK ==
  /\ hsMode \in {"client", "host", "gone"}
  /\ hsPairing \in [HsPairings -> [state: {"none", "approved", "consumed", "expired"},
       session: HsSessions \cup {HsNone}, grant: HsGrants \cup {HsNone},
       material: HsGrants \cup {HsNone}, consumed: BOOLEAN, recovery: BOOLEAN]]
  /\ hsGrant \in [HsGrants -> [state: {"none", "pending", "consumed", "replaced", "revoked"},
                               op: HsPairings \cup {HsNone}, rec: BOOLEAN]]
  /\ hsSession \subseteq HsSessions
  /\ hsLock \in [HsPairings -> HsRequests \cup {HsNone}]
  /\ hsRequest \in [HsRequests -> [pc: {"idle", "guard", "issue", "bind", "cleanup", "persist"},
       pairing: HsPairings \cup {HsNone}, session: HsSessions \cup {HsNone},
       grant: HsGrants \cup {HsNone}, state: {"approved", "consumed"}]]

HsInit ==
  /\ hsMode = "client"
  /\ hsPairing = [p \in HsPairings |-> HsNoPairing]
  /\ hsGrant = [g \in HsGrants |-> [state |-> "none", op |-> HsNone, rec |-> FALSE]]
  /\ hsSession = HsSessions
  /\ hsLock = [p \in HsPairings |-> HsNone]
  /\ hsRequest = [r \in HsRequests |-> HsIdle]

Unlocked == \A p \in HsPairings : hsLock[p] = HsNone

Open(p) == hsPairing[p].state \in {"approved", "consumed"}

Pending == {g \in HsGrants : hsGrant[g].state = "pending"}

\* Grants of this set that are still pending are revoked.
Revoked(gs) == [g \in HsGrants |-> IF g \in gs /\ hsGrant[g].state = "pending"
                                   THEN [hsGrant[g] EXCEPT !.state = "revoked"] ELSE hsGrant[g]]

Expired(ps) == [p \in HsPairings |-> IF p \in ps /\ Open(p)
                                     THEN [hsPairing[p] EXCEPT !.state = "expired"]
                                     ELSE hsPairing[p]]

-----------------------------------------------------------------------------
(* Transitions that take authority away.  They update the pairing rows, so *)
(* they wait for the locks; their snapshot may predate a grant that is not *)
(* bound to any pairing.                                                   *)

Bound == {hsPairing[p].grant : p \in {q \in HsPairings : Open(q)}} \ {HsNone}

RevokeNoGrants(missed) == hsGrant

RevokeControlGrantsForEnvironment(missed) == Revoked(HsGrants \ missed)

ExpireAuthenticatedHostSetupPairingsForMachine == Expired(HsPairings)

SetupClient ==
  /\ hsMode = "host" /\ Unlocked
  /\ hsMode' = "client"
  /\ hsPairing' = ExpireAuthenticatedHostSetupPairingsForMachine
  /\ \E missed \in SUBSET (Pending \ Bound) :
       hsGrant' = RevokeControlGrantsForEnvironment(missed)
  /\ UNCHANGED <<hsSession, hsLock, hsRequest>>

SetupHost ==
  /\ hsMode = "client"
  /\ hsMode' = "host"
  /\ UNCHANGED <<hsPairing, hsGrant, hsSession, hsLock, hsRequest>>

\* Deleting the machine also revokes its helpers.
DeleteMachine ==
  /\ hsMode # "gone" /\ Unlocked
  /\ hsMode' = "gone"
  /\ hsPairing' = ExpireAuthenticatedHostSetupPairingsForMachine
  /\ hsGrant' = [g \in HsGrants |-> IF hsGrant[g].state \in {"pending", "consumed"}
                                    THEN [hsGrant[g] EXCEPT !.state = "revoked"] ELSE hsGrant[g]]
  /\ UNCHANGED <<hsSession, hsLock, hsRequest>>

ExpireAuthenticatedHostSetupPairingsForCLISession(s) ==
  LET mine == {p \in HsPairings : hsPairing[p].session = s} IN
  /\ s \in hsSession
  /\ \A p \in mine : hsLock[p] = HsNone
  /\ hsSession' = hsSession \ {s}
  /\ hsPairing' = Expired(mine)
  /\ hsGrant' = Revoked({hsPairing[p].grant : p \in {q \in mine : Open(q)}})
  /\ UNCHANGED <<hsMode, hsLock, hsRequest>>

-----------------------------------------------------------------------------
(* PrepareAuthenticatedHostSetup and the recovery of expired material *)

\* First transaction: the pairing is created, or the caller's own pairing
\* without material is taken up again.
PrepareAuthenticatedHostSetup(r, s, p) ==
  /\ hsRequest[r].pc = "idle"
  /\ s \in hsSession /\ hsMode = "host"
  /\ \/ /\ hsPairing[p].state = "none"
        /\ hsPairing' = [hsPairing EXCEPT ![p] = [HsNoPairing EXCEPT !.state = "approved",
                                                  !.session = s]]
     \/ /\ hsPairing[p].state = "approved" /\ hsPairing[p].session = s
        /\ hsPairing[p].material = HsNone
        /\ UNCHANGED hsPairing
  /\ hsRequest' = [hsRequest EXCEPT ![r] = [HsIdle EXCEPT !.pc = "guard", !.pairing = p,
                                            !.session = s]]
  /\ UNCHANGED <<hsMode, hsGrant, hsSession, hsLock>>

\* The installer asks for material that expired after it was consumed.
RecoverInstallation(r, p) ==
  /\ hsRequest[r].pc = "idle" /\ hsLock[p] = HsNone
  /\ hsMode = "host"
  /\ hsPairing[p].state \in {"consumed", "expired"} /\ hsPairing[p].consumed
  /\ hsPairing' = [hsPairing EXCEPT ![p].state = "consumed", ![p].recovery = TRUE]
  /\ hsRequest' = [hsRequest EXCEPT ![r] = [HsIdle EXCEPT !.pc = "guard", !.pairing = p,
                     !.session = hsPairing[p].session, !.state = "consumed"]]
  /\ UNCHANGED <<hsMode, hsGrant, hsSession, hsLock>>

\* A recovery also accepts the session that the old material carries, which
\* is left open here.
GuardHolds(r) ==
  LET p == hsRequest[r].pairing IN
  /\ hsPairing[p].state = hsRequest[r].state
  /\ hsRequest[r].state = "approved" => hsRequest[r].session \in hsSession
  /\ hsRequest[r].state = "consumed" => hsPairing[p].recovery
  /\ hsMode = "host"

\* guard(""): the pairing row is locked and checked.
AuthenticatedHostSetupForPairingLock(r) ==
  LET p == hsRequest[r].pairing IN
  /\ hsRequest[r].pc = "guard"
  /\ hsLock[p] = HsNone
  /\ IF GuardHolds(r)
     THEN /\ hsLock' = [hsLock EXCEPT ![p] = r]
          /\ hsRequest' = [hsRequest EXCEPT ![r].pc = "issue"]
     ELSE /\ hsRequest' = [hsRequest EXCEPT ![r] = HsIdle]
          /\ UNCHANGED hsLock
  /\ UNCHANGED <<hsMode, hsPairing, hsGrant, hsSession>>

\* Issue, or RecoverHelper when a helper is active: commits on its own, while
\* the lock is held.  The operation key names the pairing and the recovery.
IssueGrant(r) ==
  LET p == hsRequest[r].pairing
      rec == hsRequest[r].state = "consumed"
      replayed == {g \in HsGrants : hsGrant[g].op = p /\ hsGrant[g].rec = rec}
      live == IF replayed # {} THEN replayed ELSE Pending
  IN
  /\ hsRequest[r].pc = "issue"
  /\ \E g \in IF live # {} THEN live ELSE {x \in HsGrants : hsGrant[x].state = "none"} :
       /\ hsGrant' = IF live # {} THEN hsGrant
                     ELSE [x \in HsGrants |->
                             IF x = g THEN [state |-> "pending", op |-> p, rec |-> rec]
                             ELSE IF hsGrant[x].state = "consumed"
                             THEN [hsGrant[x] EXCEPT !.state = "replaced"] ELSE hsGrant[x]]
       /\ hsRequest' = [hsRequest EXCEPT ![r].pc = "bind", ![r].grant = g]
  /\ UNCHANGED <<hsMode, hsPairing, hsSession, hsLock>>

BindAuthenticatedHostSetupHelperEnrollment(p, g) ==
  /\ Open(p)
  /\ \A q \in HsPairings \ {p} : Open(q) => hsPairing[q].grant # g
  /\ \/ hsPairing[p].grant \in {HsNone, g}
     \/ /\ hsPairing[p].state = "consumed" /\ hsPairing[p].recovery
        /\ hsGrant[hsPairing[p].grant].state \in {"revoked", "replaced"}

\* guard(grant): bound under the lock, and committed with it.
BindGrant(r) ==
  LET p == hsRequest[r].pairing
      g == hsRequest[r].grant IN
  /\ hsRequest[r].pc = "bind"
  /\ hsLock' = [hsLock EXCEPT ![p] = HsNone]
  /\ IF BindAuthenticatedHostSetupHelperEnrollment(p, g)
     THEN /\ hsPairing' = [hsPairing EXCEPT ![p].grant = g]
          /\ hsRequest' = [hsRequest EXCEPT ![r].pc = "persist"]
     ELSE /\ hsRequest' = [hsRequest EXCEPT ![r].pc = "cleanup"]
          /\ UNCHANGED hsPairing
  /\ UNCHANGED <<hsMode, hsGrant, hsSession>>

RevokeUnboundAuthenticatedHostHelperEnrollment(r) ==
  LET g == hsRequest[r].grant IN
  /\ hsRequest[r].pc = "cleanup" /\ hsLock[hsRequest[r].pairing] = HsNone
  /\ hsGrant' = IF g \in Bound THEN hsGrant ELSE Revoked({g})
  /\ hsRequest' = [hsRequest EXCEPT ![r] = HsIdle]
  /\ UNCHANGED <<hsMode, hsPairing, hsSession, hsLock>>

\* The conditions under which the last transaction stores the material.
MaterialStorable(r) ==
  LET p == hsRequest[r].pairing IN
  /\ GuardHolds(r)
  /\ hsPairing[p].grant = hsRequest[r].grant
  /\ hsRequest[r].state = "approved" => hsPairing[p].material = HsNone

SetUserMachineInstallationMaterial(r) ==
  LET p == hsRequest[r].pairing IN
  /\ hsRequest[r].pc = "persist" /\ hsLock[p] = HsNone
  /\ hsPairing' = IF MaterialStorable(r)
                  THEN [hsPairing EXCEPT ![p].material = hsRequest[r].grant,
                                         ![p].recovery = FALSE]
                  ELSE hsPairing
  /\ hsRequest' = [hsRequest EXCEPT ![r] = HsIdle]
  /\ UNCHANGED <<hsMode, hsGrant, hsSession, hsLock>>

HsRequestLost(r) ==
  /\ hsRequest[r].pc # "idle"
  /\ hsLock' = [p \in HsPairings |-> IF hsLock[p] = r THEN HsNone ELSE hsLock[p]]
  /\ hsRequest' = [hsRequest EXCEPT ![r] = HsIdle]
  /\ UNCHANGED <<hsMode, hsPairing, hsGrant, hsSession>>

-----------------------------------------------------------------------------
(* The installer *)

ConsumeMaterial(p) ==
  /\ hsPairing[p].state = "approved" /\ hsPairing[p].material # HsNone
  /\ hsLock[p] = HsNone
  /\ hsPairing' = [hsPairing EXCEPT ![p].state = "consumed", ![p].consumed = TRUE]
  /\ UNCHANGED <<hsMode, hsGrant, hsSession, hsLock, hsRequest>>

ExchangeGrant(p) ==
  LET g == hsPairing[p].material IN
  /\ hsPairing[p].consumed /\ hsMode # "gone"
  /\ hsGrant[g].state = "pending"
  /\ hsGrant' = [hsGrant EXCEPT ![g].state = "consumed"]
  /\ UNCHANGED <<hsMode, hsPairing, hsSession, hsLock, hsRequest>>

\* Ten minutes pass.
PendingGrantExpires(g) ==
  /\ hsGrant[g].state = "pending"
  /\ hsGrant' = [hsGrant EXCEPT ![g].state = "revoked"]
  /\ UNCHANGED <<hsMode, hsPairing, hsSession, hsLock, hsRequest>>

HsNext ==
  \/ SetupClient \/ SetupHost \/ DeleteMachine
  \/ \E s \in HsSessions : ExpireAuthenticatedHostSetupPairingsForCLISession(s)
  \/ \E r \in HsRequests, s \in HsSessions, p \in HsPairings : PrepareAuthenticatedHostSetup(r, s, p)
  \/ \E r \in HsRequests, p \in HsPairings : RecoverInstallation(r, p)
  \/ \E r \in HsRequests : AuthenticatedHostSetupForPairingLock(r)
  \/ \E r \in HsRequests : IssueGrant(r)
  \/ \E r \in HsRequests : BindGrant(r)
  \/ \E r \in HsRequests : RevokeUnboundAuthenticatedHostHelperEnrollment(r)
  \/ \E r \in HsRequests : SetUserMachineInstallationMaterial(r)
  \/ \E r \in HsRequests : HsRequestLost(r)
  \/ \E p \in HsPairings : ConsumeMaterial(p)
  \/ \E p \in HsPairings : ExchangeGrant(p)
  \/ \E g \in HsGrants : PendingGrantExpires(g)

HsSpec == HsInit /\ [][HsNext]_hsVars

-----------------------------------------------------------------------------
(* A grant that was bound to a pairing can be exchanged only while its     *)
(* machine is a host: a downgrade or a deletion that races with issuing    *)
(* and binding either stops the binding or revokes what was bound.         *)
BoundGrantNeedsHost ==
  \A p \in HsPairings :
    hsPairing[p].grant \in Pending => hsMode = "host"

(* No two open pairings name one live grant, though a second setup is handed  *)
(* the grant that is already pending in the environment: what one          *)
(* installer holds is never the authority of another's pairing.            *)
GrantBoundOnce ==
  \A p, q \in HsPairings :
    p # q /\ Open(p) /\ Open(q) /\ hsPairing[p].grant \in Pending =>
      hsPairing[p].grant # hsPairing[q].grant

(* The stored material names the grant its pairing is bound to, unless a   *)
(* recovery is under way: an installer is never given a grant that the     *)
(* end of the CLI session would not revoke.                                *)
MaterialNamesBoundGrant ==
  \A p \in HsPairings :
    hsPairing[p].material # HsNone /\ ~hsPairing[p].recovery /\ Open(p) =>
      hsPairing[p].material = hsPairing[p].grant
=============================================================================
