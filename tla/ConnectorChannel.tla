---------------------------- MODULE ConnectorChannel ----------------------------
(***************************************************************************)
(* The two ends of the connector control channel: the control plane's       *)
(* ServerSession and the host's ClientSession of internal/connectorprotocol, *)
(* joined by one ordered stream per process generation, and the in-memory    *)
(* SessionRegistry that decides which session of the connector is current.   *)
(*                                                                           *)
(* A configuration snapshot is identified by its generation (its hash is a   *)
(* function of it), 0 standing for none.  Every error a server handler       *)
(* returns makes the transport end the session, so the server's              *)
(* needsSnapshot, which only such paths set, is not kept.  There is one      *)
(* drain per session: a second drain id is refused.                          *)
(***************************************************************************)
EXTENDS Naturals, Sequences

CONSTANTS
    CcMaxProc,      \* Process generations of the connector.
    CcMaxGen,       \* Configuration generations.
    CcScopes        \* Bounds of a behaviour: processes, generations, frames in flight.

ASSUME CcAssumption ==
    /\ CcMaxProc \in Nat \ {0} /\ CcMaxGen \in Nat \ {0}
    /\ CcScopes \subseteq
            [proc : 1 .. CcMaxProc, gen : 1 .. CcMaxGen, queue : Nat \ {0}]

VARIABLES
    ccScope,        \* The bounds of this behaviour.
    ccLatest,       \* The tunnel's configuration generation.
    ccRegistry,     \* Process generation of the registered session, 0 for none.
    ccServer,       \* The ServerSession of each process generation.
    ccClient,       \* The ClientSession of each process generation.
    ccDown,         \* Frames from the server to the client, in order.
    ccUp            \* Frames from the client to the server, in order.

ccVars == <<ccScope, ccLatest, ccRegistry, ccServer, ccClient, ccDown, ccUp>>

Procs == 1 .. CcMaxProc
ConfigGens == 1 .. CcMaxGen
SessionStates ==
    {"new", "awaiting_snapshot", "awaiting_ready", "ready", "draining", "closed"}
DrainStatuses == {"none", "accepted", "progress", "completed", "forced", "rejected"}
DrainOutcomes == {"completed", "forced", "rejected"}

NoServerSession ==
    [state |-> "new", pend |-> 0, delta |-> 0, active |-> 0, cand |-> 0,
     ready |-> 0, drain |-> 0, drained |-> "none"]

NoClientSession ==
    [state |-> "new", active |-> 0, cand |-> 0, ready |-> 0, needs |-> FALSE,
     drain |-> 0, drained |-> "none"]

Frame(kind, gen, status) == [kind |-> kind, gen |-> gen, status |-> status]

CcInit ==
    /\ ccScope \in CcScopes
    /\ ccLatest = 1
    /\ ccRegistry = 0
    /\ ccServer = [p \in Procs |-> NoServerSession]
    /\ ccClient = [p \in Procs |-> NoClientSession]
    /\ ccDown = [p \in Procs |-> <<>>]
    /\ ccUp = [p \in Procs |-> <<>>]

----------------------------------------------------------------------------
(* The registry and the server session.                                     *)

RegistryDisconnect(p) == IF ccRegistry = p THEN 0 ELSE ccRegistry

ServerOpen(p) == ccServer[p].state \notin {"new", "closed"}

\* What ensureActiveLocked lets through: an open, registered session.
ServerActs(p) == ServerOpen(p) /\ ccRegistry = p

ServerReady(s) == s.active # 0 /\ s.ready = s.active

\* A closed session keeps only what it last believed.
ClosedServer(s) ==
    [NoServerSession EXCEPT !.state = "closed", !.active = s.active,
                            !.drain = s.drain, !.drained = s.drained]

\* closeLocked and the end of the transport's read loop.
closeServer(p) ==
    /\ ccServer' = [ccServer EXCEPT ![p] = ClosedServer(@)]
    /\ ccRegistry' = RegistryDisconnect(p)
    /\ ccUp' = [ccUp EXCEPT ![p] = <<>>]
    /\ UNCHANGED <<ccLatest, ccClient, ccDown>>

Sends(p, frame) ==
    /\ Len(ccDown[p]) < ccScope.queue
    /\ ccDown' = IF ccClient[p].state = "closed" THEN ccDown
                 ELSE [ccDown EXCEPT ![p] = Append(@, frame)]

\* Attach refuses a process generation that is not newer than the current one.
RegistryAttach(p) == ccRegistry < p /\ ccRegistry' = p

\* Server.Accept, with the welcome the client accepts and the first snapshot.
ServerAccepts(p) ==
    /\ ccServer[p].state = "new"
    /\ RegistryAttach(p)
    /\ ccServer' = [ccServer EXCEPT
            ![p].state = "awaiting_snapshot", ![p].pend = ccLatest]
    /\ ccDown' = [ccDown EXCEPT ![p] = <<Frame("snapshot", ccLatest, "")>>]
    /\ ccClient' = [ccClient EXCEPT ![p].state = "awaiting_snapshot"]
    /\ UNCHANGED <<ccLatest, ccUp>>

OfferSnapshot(p, g) ==
    /\ ServerActs(p)
    /\ g >= ccServer[p].active
    /\ g \notin {ccServer[p].active, ccServer[p].cand, ccServer[p].pend}
    /\ ccServer' = [ccServer EXCEPT ![p].delta = 0, ![p].pend = g,
            ![p].state = IF ccServer[p].active = 0 THEN "awaiting_snapshot" ELSE @]
    /\ Sends(p, Frame("snapshot", g, ""))
    /\ UNCHANGED <<ccLatest, ccRegistry, ccClient, ccUp>>

\* A delta names the active generation it follows, and is its successor.
OfferDelta(p) ==
    LET s == ccServer[p] IN
    /\ ServerActs(p) /\ ServerReady(s)
    /\ s.pend = 0 /\ s.delta = 0 /\ s.cand = 0
    /\ s.active < ccLatest
    /\ ccServer' = [ccServer EXCEPT ![p].delta = s.active + 1]
    /\ Sends(p, Frame("delta", s.active + 1, ""))
    /\ UNCHANGED <<ccLatest, ccRegistry, ccClient, ccUp>>

Staged(s, g) ==
    [s EXCEPT !.pend = 0, !.delta = 0, !.cand = g,
              !.state = IF ServerReady(s) THEN @ ELSE "awaiting_ready"]

\* The session an acknowledgement leaves, or the closed one on an error.
AfterAck(s, f) ==
    CASE s.pend # 0 /\ f.kind = "ack_snapshot" /\ f.gen = s.pend
                    /\ f.status \in {"applied", "duplicate"} -> Staged(s, s.pend)
      [] s.pend = 0 /\ s.delta # 0 /\ f.kind = "ack_delta" /\ f.gen = s.delta
                    /\ f.status \in {"applied", "duplicate"}
                    /\ s.delta = s.active + 1 -> Staged(s, s.delta)
      [] s.pend = 0 /\ s.delta = 0 /\ f.status = "duplicate"
                    /\ f.gen = (IF s.cand # 0 THEN s.cand ELSE s.active) -> s
      [] OTHER -> ClosedServer(s)

\* A mutation: readiness promotes whatever the server last offered.
CcPromotesOffer(s, g) ==
    IF s.pend # 0
    THEN [s EXCEPT !.active = s.pend, !.pend = 0, !.cand = 0, !.ready = s.pend,
                   !.state = "ready"]
    ELSE [s EXCEPT !.active = g, !.cand = 0, !.ready = g, !.state = "ready"]

\* The host proved all three dimensions of the staged, or the active, generation.
AfterReadiness(s, g) ==
    IF g # 0 /\ g = (IF s.cand # 0 THEN s.cand ELSE s.active)
    THEN [s EXCEPT !.active = g, !.cand = 0, !.ready = g, !.state = "ready"]
    ELSE ClosedServer(s)

ExpectedHeartbeat(s) ==
    IF s.active # 0 THEN s.active ELSE IF s.cand # 0 THEN s.cand ELSE s.pend

\* A mismatch withdraws readiness and ends the session.
AfterHeartbeat(s, g) ==
    IF g = ExpectedHeartbeat(s) THEN s ELSE ClosedServer(s)

AfterDrainAck(s, f) ==
    LET known == s.drain # 0 /\ f.gen = s.drain
        settled == s.drained \in DrainOutcomes
    IN CASE known /\ settled /\ f.status = s.drained -> s
         [] known /\ ~settled /\ f.status # "rejected" -> [s EXCEPT !.drained = f.status]
         [] OTHER -> ClosedServer(s)

AfterFrame(s, f) ==
    CASE f.kind \in {"ack_snapshot", "ack_delta"} -> AfterAck(s, f)
      [] f.kind = "ready" -> AfterReadiness(s, f.gen)
      [] f.kind = "heartbeat" -> AfterHeartbeat(s, f.gen)
      [] f.kind = "drain_ack" -> AfterDrainAck(s, f)

\* The transport reads the next frame; the handler first checks the registry,
\* and an error closes the session.
handleFrame(p) ==
    /\ ServerOpen(p) /\ ccUp[p] # <<>>
    /\ LET s == AfterFrame(ccServer[p], Head(ccUp[p])) IN
       IF ccRegistry = p /\ s.state # "closed"
       THEN /\ ccServer' = [ccServer EXCEPT ![p] = s]
            /\ ccUp' = [ccUp EXCEPT ![p] = Tail(@)]
            /\ UNCHANGED <<ccLatest, ccRegistry, ccClient, ccDown>>
       ELSE closeServer(p)

ServerBeginsDrain(p) ==
    /\ ServerActs(p) /\ ServerReady(ccServer[p])
    /\ ccServer[p].state = "ready" /\ ccServer[p].drain = 0
    /\ ccServer' = [ccServer EXCEPT ![p].drain = ccServer[p].active,
            ![p].drained = "accepted", ![p].state = "draining"]
    /\ Sends(p, Frame("drain", ccServer[p].active, ""))
    /\ UNCHANGED <<ccLatest, ccRegistry, ccClient, ccUp>>

\* A replaced session, an expired lease or credential, a missed heartbeat, a
\* lost stream or a disconnect.
ServerCloses(p) == ServerOpen(p) /\ closeServer(p)

----------------------------------------------------------------------------
(* The client session.                                                      *)

ClientOpen(p) == ccClient[p].state \notin {"new", "closed"}

ClientReady(c) == c.active # 0 /\ c.ready = c.active /\ ~c.needs

\* The caller sends what the session returned, on a stream the server may
\* already have left.
Replies(p, frame) ==
    /\ Len(ccUp[p]) < ccScope.queue
    /\ ccUp' = IF ServerOpen(p) THEN [ccUp EXCEPT ![p] = Append(@, frame)] ELSE ccUp

StagedByClient(c, g) ==
    [c EXCEPT !.cand = g, !.needs = FALSE, !.ready = 0, !.state = "awaiting_ready"]

\* What ApplySnapshot may leave and answer: a duplicate, a rejection (a stale
\* generation, a failed preparation, or another candidate already prepared), or
\* a staged candidate.
SnapshotResults(c, g) ==
    LET current == IF c.cand # 0 THEN c.cand ELSE c.active
        rejected == <<c, Frame("ack_snapshot", g, "rejected")>>
    IN CASE g = current -> {<<c, Frame("ack_snapshot", g, "duplicate")>>}
         [] g # current /\ (g < current \/ c.cand # 0) -> {rejected}
         [] OTHER -> {rejected,
                <<StagedByClient(c, g), Frame("ack_snapshot", g, "applied")>>}

\* The same for ApplyDelta; the delta follows generation g - 1.
DeltaResults(c, g) ==
    LET usable == c.active # 0 /\ ~c.needs /\ c.cand = 0
        rejected == <<c, Frame("ack_delta", g, "rejected")>>
    IN CASE ~usable -> {<<c, Frame("ack_delta", g, "snapshot_required")>>}
         [] usable /\ g = c.active + 1 -> {rejected,
                <<StagedByClient(c, g), Frame("ack_delta", g, "applied")>>}
         [] usable /\ g <= c.active -> {rejected}
         [] OTHER -> {<<[c EXCEPT !.needs = TRUE],
                        Frame("ack_delta", g, "snapshot_required")>>}

RestoreClient(c) ==
    [c EXCEPT !.state = CASE ClientReady(c) -> "ready"
                          [] ~ClientReady(c) /\ c.cand # 0 -> "awaiting_ready"
                          [] OTHER -> "awaiting_snapshot"]

\* HandleDrain: the runtime may fail to stop new streams or to count them.
DrainResults(c, g) ==
    LET stopped == [c EXCEPT !.drain = g, !.drained = "accepted", !.state = "draining"]
        failed == RestoreClient([c EXCEPT !.drain = g, !.drained = "rejected"])
    IN CASE c.drain # 0 ->
                {<<c, Frame("drain_ack", g,
                            IF c.drain = g THEN c.drained ELSE "rejected")>>}
         [] c.drain = 0 /\ (~ClientReady(c) \/ g # c.active) ->
                {<<c, Frame("drain_ack", g, "rejected")>>}
         [] OTHER -> {<<stopped, Frame("drain_ack", g, "accepted")>>,
                      <<failed, Frame("drain_ack", g, "rejected")>>}

ResultsOf(c, f) ==
    CASE f.kind = "snapshot" -> SnapshotResults(c, f.gen)
      [] f.kind = "delta" -> DeltaResults(c, f.gen)
      [] f.kind = "drain" -> DrainResults(c, f.gen)

clientReads(p) ==
    /\ ClientOpen(p) /\ ccDown[p] # <<>>
    /\ \E r \in ResultsOf(ccClient[p], Head(ccDown[p])) :
        /\ ccClient' = [ccClient EXCEPT ![p] = r[1]]
        /\ Replies(p, r[2])
    /\ ccDown' = [ccDown EXCEPT ![p] = Tail(@)]
    /\ UNCHANGED <<ccLatest, ccRegistry, ccServer>>

\* MarkReadyContext when the runtime activates the prepared candidate.
MarksReady(p) ==
    /\ ClientOpen(p) /\ ccClient[p].cand # 0
    /\ ccClient' = [ccClient EXCEPT ![p].active = ccClient[p].cand, ![p].cand = 0,
            ![p].needs = FALSE, ![p].ready = ccClient[p].cand, ![p].state = "ready"]
    /\ Replies(p, Frame("ready", ccClient[p].cand, ""))
    /\ UNCHANGED <<ccLatest, ccRegistry, ccServer, ccDown>>

\* MarkReadyContext when activation fails: the candidate is dropped, and nothing
\* is told to the server.
ActivationFails(p) ==
    /\ ClientOpen(p) /\ ccClient[p].cand # 0
    /\ ccClient' = [ccClient EXCEPT
            ![p] = RestoreClient([@ EXCEPT !.cand = 0, !.needs = TRUE])]
    /\ UNCHANGED <<ccLatest, ccRegistry, ccServer, ccDown, ccUp>>

\* currentCandidateLocked: the active generation, else the staged one.
ReportedGeneration(c) == IF c.active # 0 THEN c.active ELSE c.cand

ClientBeats(p) ==
    /\ ClientOpen(p) /\ ReportedGeneration(ccClient[p]) # 0
    /\ Replies(p, Frame("heartbeat", ReportedGeneration(ccClient[p]), ""))
    /\ UNCHANGED <<ccLatest, ccRegistry, ccServer, ccClient, ccDown>>

\* CompleteDrain and DrainProgress; a settled drain repeats its outcome.
ReportsDrain(p, status) ==
    LET c == ccClient[p]
        told == IF c.drained \in DrainOutcomes THEN c.drained ELSE status
    IN /\ ClientOpen(p) /\ c.drain # 0
       /\ ccClient' = [ccClient EXCEPT ![p].drained = told]
       /\ Replies(p, Frame("drain_ack", c.drain, told))
       /\ UNCHANGED <<ccLatest, ccRegistry, ccServer, ccDown>>

\* Close, an expired lease or a heartbeat nobody acknowledged: the prepared
\* candidate is aborted.
ClientCloses(p) ==
    /\ ClientOpen(p)
    /\ ccClient' = [ccClient EXCEPT ![p].state = "closed", ![p].cand = 0,
            ![p].ready = 0, ![p].needs = FALSE]
    /\ ccDown' = [ccDown EXCEPT ![p] = <<>>]
    /\ UNCHANGED <<ccLatest, ccRegistry, ccServer, ccUp>>

ConfigurationAdvances ==
    /\ ccLatest < ccScope.gen
    /\ ccLatest' = ccLatest + 1
    /\ UNCHANGED <<ccRegistry, ccServer, ccClient, ccDown, ccUp>>

SessionSteps(p) ==
    \/ ServerAccepts(p)
    \/ \E g \in 1 .. ccLatest : OfferSnapshot(p, g)
    \/ OfferDelta(p)
    \/ handleFrame(p)
    \/ ServerBeginsDrain(p)
    \/ ServerCloses(p)
    \/ clientReads(p)
    \/ MarksReady(p)
    \/ ActivationFails(p)
    \/ ClientBeats(p)
    \/ \E status \in {"progress", "completed", "forced"} : ReportsDrain(p, status)
    \/ ClientCloses(p)

CcNext ==
    /\ UNCHANGED ccScope
    /\ \/ ConfigurationAdvances
       \/ \E p \in 1 .. ccScope.proc : SessionSteps(p)

CcSpec == CcInit /\ [][CcNext]_ccVars

----------------------------------------------------------------------------

CcTypeOK ==
    /\ ccScope \in CcScopes /\ ccLatest \in ConfigGens
    /\ ccRegistry \in 0 .. CcMaxProc
    /\ \A p \in Procs :
        /\ ccServer[p].state \in SessionStates /\ ccClient[p].state \in SessionStates
        /\ ccServer[p].drained \in DrainStatuses /\ ccClient[p].drained \in DrainStatuses
        /\ ccServer[p].ready \in {0, ccServer[p].active}
        /\ Len(ccDown[p]) <= ccScope.queue /\ Len(ccUp[p]) <= ccScope.queue

\* The channel implements the promised cutover: the control plane's active
\* generation follows the host's, never leads it, and both only move forward
\* (HandleReadiness, MarkReadyContext, OfferSnapshot, ApplySnapshot, Attach).
Cut == INSTANCE ConfigurationCutover WITH
    CutSessions <- Procs, CutGenerations <- ConfigGens,
    cutCurrent <- ccRegistry,
    cutHost <- [p \in Procs |-> ccClient[p].active],
    cutControl <- [p \in Procs |-> ccServer[p].active]

\* CcSpec implies the abstract specification of the cutover.
ImplementsCutover == Cut!CutSpec

\* A heartbeat the host sent in order never withdraws readiness: when the server
\* reads it, it names the generation the server expects, through every cutover
\* (ClientSession.Heartbeat against ServerSession.HandleHeartbeat).
HeartbeatsAreExpected ==
    \A p \in Procs :
        ServerOpen(p) /\ ccUp[p] # <<>> /\ Head(ccUp[p]).kind = "heartbeat"
            => Head(ccUp[p]).gen = ExpectedHeartbeat(ccServer[p])

\* The server records a drain as completed or forced only when the host's own
\* drain ended so: no accepted or progress report, and no report of an earlier
\* generation, settles it (HandleDrainAck).
DrainEndsAtHost ==
    \A p \in Procs : ccServer[p].drained \in {"completed", "forced"}
        => ccClient[p].drained = ccServer[p].drained

\* The newest session that is open on the server is the registered one: a late
\* close of a replaced session never removes its successor (closeLocked,
\* SessionRegistry.Disconnect).
NewestOpenIsRegistered ==
    \A p \in Procs : ServerOpen(p) =>
        \/ ccRegistry = p
        \/ \E q \in Procs : q > p /\ ccServer[q].state # "new"
=================================================================================
