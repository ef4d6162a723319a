---------------------------- MODULE RelayNodes ----------------------------
(* The registry entry of one relay node and the revocation feed it answers. *)
(* A process starts under the next node generation and keeps its lease by   *)
(* observing; every observation names the carriers it relays and is         *)
(* answered with the floors of those whose authority was withdrawn.         *)
EXTENDS Naturals, FiniteSets

CONSTANTS
    RnEpochs,     \* process epochs
    RnPeers,      \* peer endpoints (account and endpoint id)
    RnDenied,     \* peers without an identity row the node may see
    RnMaxGen,     \* bound on the node generation
    RnMaxConfig,  \* bound on the peers' config generation
    RnNone

RnAssumption ==
    RnDenied \subseteq RnPeers /\ RnMaxGen \in Nat \ {0} /\ RnMaxConfig \in Nat \ {0}

VARIABLES
    rnNode,      \* control_tunnel_nodes row of the relay
    rnGranted,   \* start answers: the generation and the process each named
    rnPeer,      \* peer_network_identities: config generation and relay floor
    rnTicket,    \* the grant each peer holds; live until it is withdrawn
    rnProcs,     \* per process: its generation and the carriers it relays
    rnAnswer     \* observation answers on their way to the processes
rnVars == <<rnNode, rnGranted, rnPeer, rnTicket, rnProcs, rnAnswer>>

NoAnswer == [floors |-> {}, withdrawn |-> {}, sent |-> FALSE]
NoProcess == [gen |-> 0, carriers |-> {}]

RnInit ==
    /\ rnNode = [gen |-> 1, epoch |-> RnNone, state |-> "registered", expired |-> TRUE]
    /\ rnGranted = {}
    /\ rnPeer = [s \in RnPeers |-> [config |-> 1, floor |-> 0]]
    /\ rnTicket = [s \in RnPeers |-> [peer |-> s, gen |-> 1, live |-> s \notin RnDenied]]
    /\ rnProcs = [p \in RnEpochs |-> NoProcess]
    /\ rnAnswer = [p \in RnEpochs |-> NoAnswer]

(* ------------------------------ the registry ---------------------------- *)

(* The retry of a start whose answer was lost. *)
SameStart(p, expected) == rnNode.epoch = p /\ rnNode.gen = expected + 1

Granted(p, gen) ==
    /\ rnGranted' = rnGranted \cup {[gen |-> gen, epoch |-> p]}
    /\ rnProcs' = [rnProcs EXCEPT ![p].gen = gen]

(* A live retry keeps the state; an expired one resumes only a start that   *)
(* never published readiness. Any other process needs the exact generation. *)
StartRelayNode(p, expected) ==
    /\ \/ /\ SameStart(p, expected)
          /\ rnNode.expired => rnNode.state \in {"registered", "offline"}
          /\ rnNode' = [rnNode EXCEPT !.expired = FALSE]
          /\ Granted(p, rnNode.gen)
       \/ /\ ~SameStart(p, expected)
          /\ rnNode.gen = expected /\ rnNode.epoch # p /\ rnNode.gen < RnMaxGen
          /\ rnNode' = [gen |-> rnNode.gen + 1, epoch |-> p, state |-> "registered", expired |-> FALSE]
          /\ Granted(p, rnNode.gen + 1)
    /\ UNCHANGED <<rnPeer, rnTicket, rnAnswer>>

RelayLeaseRunsOut ==
    /\ ~rnNode.expired
    /\ rnNode' = [rnNode EXCEPT !.expired = TRUE]
    /\ UNCHANGED <<rnGranted, rnPeer, rnTicket, rnProcs, rnAnswer>>

(* The reconciler of stale nodes: the heartbeat is overdue (external time). *)
RelayGoesStale ==
    /\ rnNode.state \in {"registered", "ready"}
    /\ rnNode' = [rnNode EXCEPT !.state = "offline"]
    /\ UNCHANGED <<rnGranted, rnPeer, rnTicket, rnProcs, rnAnswer>>

(* The floor of a reported carrier: a peer without a row is always revoked. *)
FloorOf(t) == IF t.peer \in RnDenied THEN t.gen + 1 ELSE rnPeer[t.peer].floor

RevokedCarrier(t) == FloorOf(t) > t.gen

(* ObserveRelayNode: fenced by generation, epoch and lease; renews the      *)
(* lease and answers the floors of the revoked carriers. The ghost          *)
(* "withdrawn" is what the answer has to name.                              *)
ObserveRelayNode(p, ready, draining) ==
    /\ rnProcs[p].gen # 0 /\ ~rnAnswer[p].sent
    /\ rnProcs[p].gen = rnNode.gen /\ rnNode.epoch = p /\ ~rnNode.expired
    /\ rnNode.state # "offline"
    /\ rnNode.state = "draining" => draining
    /\ rnNode' = [rnNode EXCEPT !.state = IF draining THEN "draining" ELSE IF ready THEN "ready" ELSE "registered"]
    /\ rnAnswer' = [rnAnswer EXCEPT ![p] =
         [floors |-> {[peer |-> t.peer, gen |-> FloorOf(t)] : t \in {t \in rnProcs[p].carriers : RevokedCarrier(t)}},
          withdrawn |-> {t \in rnProcs[p].carriers : ~t.live}, sent |-> TRUE]]
    /\ UNCHANGED <<rnGranted, rnPeer, rnTicket, rnProcs>>

(* ----------------------- the relay process (external) ------------------- *)

(* The process drops the carriers below the floors the answer names. *)
ApplyAnswer(p) ==
    /\ rnAnswer[p].sent
    /\ rnProcs' = [rnProcs EXCEPT ![p].carriers =
                     {t \in @ : \A f \in rnAnswer[p].floors : f.peer = t.peer => t.gen >= f.gen}]
    /\ rnAnswer' = [rnAnswer EXCEPT ![p] = NoAnswer]
    /\ UNCHANGED <<rnNode, rnGranted, rnPeer, rnTicket>>

LoseAnswer(p) ==
    /\ rnAnswer[p].sent
    /\ rnAnswer' = [rnAnswer EXCEPT ![p] = NoAnswer]
    /\ UNCHANGED <<rnNode, rnGranted, rnPeer, rnTicket, rnProcs>>

(* A peer connects, or reconnects, with the grant it holds. *)
PeerConnects(p, s) ==
    /\ rnProcs[p].gen # 0
    /\ rnProcs' = [rnProcs EXCEPT ![p].carriers = {t \in @ : t.peer # s} \cup {rnTicket[s]}]
    /\ UNCHANGED <<rnNode, rnGranted, rnPeer, rnTicket, rnAnswer>>

ProcessExits(p) ==
    /\ rnProcs[p].gen # 0
    /\ rnProcs' = [rnProcs EXCEPT ![p] = NoProcess]
    /\ rnAnswer' = [rnAnswer EXCEPT ![p] = NoAnswer]
    /\ UNCHANGED <<rnNode, rnGranted, rnPeer, rnTicket>>

(* ------------------------- the peers' identities ------------------------ *)

(* The next signed configuration of the peer. *)
TakeTicket(s) ==
    /\ s \notin RnDenied
    /\ rnTicket' = [rnTicket EXCEPT ![s] = [peer |-> s, gen |-> rnPeer[s].config, live |-> TRUE]]
    /\ UNCHANGED <<rnNode, rnGranted, rnPeer, rnProcs, rnAnswer>>

(* advance_peer_network_for_access_session: an insert only widens the next  *)
(* configuration, an update withdraws what was granted.                     *)
AdvancePeerNetwork(row, withdraws) ==
    [config |-> row.config + 1, floor |-> IF withdraws THEN row.config + 1 ELSE row.floor]

WithdrawnTicket(t, s) == IF t.peer = s THEN [t EXCEPT !.live = FALSE] ELSE t

PeerChanges(s, withdraws) ==
    /\ s \notin RnDenied /\ rnPeer[s].config < RnMaxConfig
    /\ rnPeer' = [rnPeer EXCEPT ![s] = AdvancePeerNetwork(@, withdraws)]
    /\ rnTicket' = IF withdraws THEN [rnTicket EXCEPT ![s] = WithdrawnTicket(@, s)] ELSE rnTicket
    /\ rnProcs' = IF withdraws
                  THEN [p \in RnEpochs |-> [rnProcs[p] EXCEPT !.carriers = {WithdrawnTicket(t, s) : t \in @}]]
                  ELSE rnProcs
    /\ UNCHANGED <<rnNode, rnGranted, rnAnswer>>

RnNext ==
    \/ RelayLeaseRunsOut
    \/ RelayGoesStale
    \/ \E p \in RnEpochs :
         \/ ApplyAnswer(p)
         \/ LoseAnswer(p)
         \/ ProcessExits(p)
         \/ \E expected \in 1..RnMaxGen : StartRelayNode(p, expected)
         \/ \E ready, draining \in BOOLEAN : ObserveRelayNode(p, ready, draining)
         \/ \E s \in RnPeers : PeerConnects(p, s)
    \/ \E s \in RnPeers :
         \/ TakeTicket(s)
         \/ \E withdraws \in BOOLEAN : PeerChanges(s, withdraws)

RnSpec == RnInit /\ [][RnNext]_rnVars

(* ------------------------------- properties ----------------------------- *)

(* The types of the entry, the identities and the processes. *)
RnTypeOK ==
    /\ rnNode.gen \in 1..RnMaxGen /\ rnNode.state \in {"registered", "ready", "draining", "offline"}
    /\ \A s \in RnPeers : rnPeer[s].config \in 1..RnMaxConfig /\ rnPeer[s].floor \in 0..rnPeer[s].config
    /\ \A p \in RnEpochs : rnProcs[p].gen \in 0..RnMaxGen

(* A node generation is granted to one process, however starts are retried  *)
(* and however processes race for the node (relay_nodes.go StartRelayNode). *)
RelayGenerationHasOneProcess ==
    \A g, h \in rnGranted : g.gen = h.gen => g.epoch = h.epoch

(* When the process applies an answer, every carrier that had lost its      *)
(* authority when the observation was handled is gone, and no carrier whose *)
(* authority still stands is dropped: renewals, additions and reconnections *)
(* that raced the answer survive it (relay_nodes.go ObserveRelayNode,       *)
(* migration 157).                                                          *)
RevocationsAreExact ==
    \A p \in RnEpochs : ApplyAnswer(p) =>
      /\ \A t \in rnProcs[p].carriers \ rnProcs'[p].carriers : ~t.live
      /\ rnProcs'[p].carriers \cap rnAnswer[p].withdrawn = {}
=============================================================================
