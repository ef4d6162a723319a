----------------------------- MODULE PeerNetwork -----------------------------
(***************************************************************************)
(* The peer network's identities and configurations (peersessions'         *)
(* NetworkService): an endpoint registers and rotates its network key,     *)
(* and asks for a signed configuration naming the peers its access         *)
(* sessions allow.  Triggers raise an endpoint's configuration generation, *)
(* and the floor below which relays refuse its grants, when what it was    *)
(* told no longer holds.                                                   *)
(*                                                                         *)
(* One CLI session reaches some machines; a machine may belong to another  *)
(* account (a team grant).  An answer may be lost: the endpoint then keeps *)
(* the configuration it had.                                               *)
(***************************************************************************)
EXTENDS Naturals, FiniteSets

CONSTANTS
  PnHosts,       \* machines the session may reach
  PnMaxPeers,    \* the limit on the peers of a configuration (64 in the code)
  PnMaxKey,      \* bound on key generations
  PnMaxGen       \* bound on configuration generations

PnAssumption == "cli" \notin PnHosts /\ {PnMaxPeers, PnMaxKey, PnMaxGen} \subseteq Nat

VARIABLES
  pnCross,       \* the machines of another account
  pnRow,         \* peer_network_identities
  pnUp,          \* the session is active, the machine usable
  pnAccess,      \* user_machine_access_sessions between the session and a machine
  pnHeld         \* the configuration each endpoint last received

pnVars == <<pnCross, pnRow, pnUp, pnAccess, pnHeld>>

PnCli == "cli"

PnEndpoints == PnHosts \cup {PnCli}

NoNetworkIdentity == [key |-> 0, certified |-> FALSE, config |-> 0, floor |-> 0]

NothingHeld == [gen |-> 0, peers |-> [f \in PnEndpoints |-> 0]]

PnTypeOK ==
  /\ pnCross \subseteq PnHosts
  /\ pnRow \in [PnEndpoints -> [key : 0..PnMaxKey, certified : BOOLEAN,
                                config : 0..PnMaxGen, floor : 0..PnMaxGen]]
  /\ pnUp \in [PnEndpoints -> BOOLEAN]
  /\ pnAccess \in [PnHosts -> {"none", "active", "revoked"}]
  /\ \A e \in PnEndpoints : /\ pnHeld[e].gen \in 0..PnMaxGen
                            /\ pnHeld[e].peers \in [PnEndpoints -> 0..PnMaxKey]

PnInit ==
  /\ pnCross \in SUBSET PnHosts
  /\ pnRow = [e \in PnEndpoints |-> NoNetworkIdentity]
  /\ pnUp = [e \in PnEndpoints |-> TRUE]
  /\ pnAccess = [h \in PnHosts |-> "none"]
  /\ pnHeld = [e \in PnEndpoints |-> NothingHeld]

\* The machine whose access session joins e and f.
PnPairs(e, f) == {h \in PnHosts : {e, f} = {PnCli, h}}

-----------------------------------------------------------------------------
(* The triggers.                                                           *)

\* A row raised to the next configuration generation, the relays' floor with it
\* when something was withdrawn.
PnRaised(row, withdrawn) ==
  [row EXCEPT !.config = @ + 1, !.floor = IF withdrawn THEN row.config + 1 ELSE @]

PnRoom(S) == \A e \in S : pnRow[e].config < PnMaxGen

PnStored(S) == {e \in S : pnRow[e].key > 0}

PnRaises(rows, S, withdrawn) ==
  [e \in PnEndpoints |-> IF e \in PnStored(S) THEN PnRaised(rows[e], withdrawn) ELSE rows[e]]

\* The endpoints of the same account that an access session, in force or not,
\* joins to e: the reach of the certificate, machine, session and identity triggers.
PnJoined(e) ==
  {f \in PnEndpoints : \E h \in PnPairs(e, f) : pnAccess[h] # "none" /\ h \notin pnCross}

\* advance_peer_network_for_access_session on an update of the session.
AccessWithdrawn(h) == PnRaises(pnRow, {PnCli, h}, TRUE)

-----------------------------------------------------------------------------
(* Registration.                                                           *)

\* advance_peer_network_for_identity: the joined endpoints hold e's old key.
IdentityRotated(e, rows) == PnRaises(rows, PnJoined(e) \ {e}, TRUE)

\* NetworkService.Register with a live certificate and the key generation the
\* caller expects.  The update's own trigger raises e's row and its floor.
PnRegister(e) ==
  /\ pnUp[e] /\ pnRow[e].key < PnMaxKey /\ PnRoom({e} \cup PnJoined(e))
  /\ pnRow' = IF pnRow[e].key = 0
              THEN [pnRow EXCEPT ![e] = [NoNetworkIdentity EXCEPT !.key = 1, !.certified = TRUE]]
              ELSE IdentityRotated(e,
                     [pnRow EXCEPT ![e] = [PnRaised(@, TRUE) EXCEPT !.key = @ + 1,
                                                                    !.certified = TRUE]])
  /\ UNCHANGED <<pnCross, pnUp, pnAccess, pnHeld>>

peerNetworkRegister == PnRegister(PnCli)

machinePeerNetworkRegister(h) == PnRegister(h)

-----------------------------------------------------------------------------
(* Configuration.                                                          *)

loadNetworkBinding(e) == pnRow[e].key > 0 /\ pnRow[e].certified /\ pnUp[e]

\* The peers of e: joined by an access session in force, and with a binding.
PnPeersOf(e) ==
  {f \in PnEndpoints :
     /\ \E h \in PnPairs(e, f) : pnAccess[h] = "active" /\ pnUp[h] /\ pnUp[PnCli]
     /\ loadNetworkBinding(f)}

PnConfigurationOf(e) ==
  [gen |-> pnRow[e].config + 1,
   peers |-> [f \in PnEndpoints |-> IF f \in PnPeersOf(e) THEN pnRow[f].key ELSE 0]]

\* NetworkService.Configuration: a new generation in the transaction that reads
\* the peers; more peers than the limit rolls it back.
PnConfiguration(e, received) ==
  /\ loadNetworkBinding(e) /\ pnRow[e].config < PnMaxGen
  /\ Cardinality(PnPeersOf(e)) <= PnMaxPeers
  /\ pnRow' = [pnRow EXCEPT ![e].config = @ + 1]
  /\ pnHeld' = IF received THEN [pnHeld EXCEPT ![e] = PnConfigurationOf(e)] ELSE pnHeld
  /\ UNCHANGED <<pnCross, pnUp, pnAccess>>

peerNetworkConfig(received) == PnConfiguration(PnCli, received)

machinePeerNetworkConfig(h, received) == PnConfiguration(h, received)

-----------------------------------------------------------------------------
(* What other components change.                                           *)

\* An access session is created: what was signed before grants nothing less.
PnAccessGranted(h) ==
  /\ pnAccess[h] # "active" /\ pnUp[h] /\ pnUp[PnCli] /\ PnRoom({PnCli, h})
  /\ pnAccess' = [pnAccess EXCEPT ![h] = "active"]
  /\ pnRow' = PnRaises(pnRow, {PnCli, h}, FALSE)
  /\ UNCHANGED <<pnCross, pnUp, pnHeld>>

PnAccessRevoked(h) ==
  /\ pnAccess[h] = "active" /\ PnRoom({PnCli, h})
  /\ pnAccess' = [pnAccess EXCEPT ![h] = "revoked"]
  /\ pnRow' = AccessWithdrawn(h)
  /\ UNCHANGED <<pnCross, pnUp, pnHeld>>

\* An endpoint's certificate, session or machine is revoked.
PnEndpointWithdrawn(e, gone) ==
  /\ pnRow[e].certified /\ PnRoom({e} \cup PnJoined(e))
  /\ pnUp' = [pnUp EXCEPT ![e] = ~gone]
  /\ pnRow' = PnRaises([pnRow EXCEPT ![e].certified = FALSE], {e} \cup PnJoined(e), TRUE)
  /\ UNCHANGED <<pnCross, pnAccess, pnHeld>>

PnNext ==
  \/ peerNetworkRegister \/ \E r \in BOOLEAN : peerNetworkConfig(r)
  \/ \E h \in PnHosts :
       \/ machinePeerNetworkRegister(h) \/ PnAccessGranted(h) \/ PnAccessRevoked(h)
       \/ \E r \in BOOLEAN : machinePeerNetworkConfig(h, r)
  \/ \E e \in PnEndpoints, gone \in BOOLEAN : PnEndpointWithdrawn(e, gone)

PnSpec == PnInit /\ [][PnNext]_pnVars

-----------------------------------------------------------------------------
(* Properties.                                                             *)

\* A configuration the relays still honour tells the truth: both ends of a
\* withdrawn access session fall below their floors, whichever accounts they
\* belong to, and within one account a peer's rotated key or revoked certificate
\* does the same, so no endpoint keeps using what Configuration would no longer sign.
HonouredConfigurationIsTrue ==
  \A e, f \in PnEndpoints :
    (pnHeld[e].peers[f] > 0 /\ pnHeld[e].gen >= pnRow[e].floor) =>
      \A h \in PnPairs(e, f) :
        /\ pnAccess[h] = "active"
        /\ h \notin pnCross => pnRow[f].certified /\ pnRow[f].key = pnHeld[e].peers[f]
=============================================================================
