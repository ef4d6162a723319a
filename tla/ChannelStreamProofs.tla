-------------------------- MODULE ChannelStreamProofs --------------------------
(***************************************************************************)
(* Proofs about what travels on the channel of ConnectorChannel, for any   *)
(* number of process generations, configuration generations and frames in  *)
(* flight: how a drain ends, which session is registered, and that the     *)
(* heartbeats of the host are the ones the server expects.                 *)
(***************************************************************************)
EXTENDS ConnectorChannelProofs

-----------------------------------------------------------------------------
(* Drains.                                                                 *)

Ended == {"completed", "forced"}

(* A host that was not asked to drain has no outcome, and an end of the    *)
(* drain that the server believes or is about to read is the host's own.   *)
Drains(s, c, up) ==
  /\ c.drain = 0 => c.drained = "none"
  /\ s.drained \in Ended => c.drained = s.drained
  /\ \A i \in 1 .. Len(up) : up[i].kind = "drain_ack" /\ up[i].status \in Ended => c.drained = up[i].status

DrainsAgree == \A p \in Procs : Drains(ccServer[p], ccClient[p], ccUp[p])

(* The server changes something else, begins a drain, or closes.           *)
LEMMA DrainsServer ==
  ASSUME NEW s, NEW t, NEW c, NEW up \in Seq(UpFrames), NEW upt, Drains(s, c, up), t.drained \in {s.drained, "accepted"},
         upt = up \/ upt = <<>> \/ (up # <<>> /\ upt = Tail(up))
  PROVE  Drains(t, c, upt)
<1>1. CASE upt = up
  BY <1>1 DEF Drains, Ended
<1>2. CASE upt = <<>>
  <2>1. 1 .. Len(upt) = {}
    BY <1>2
  <2> QED BY <2>1 DEF Drains, Ended
<1>3. CASE up # <<>> /\ upt = Tail(up)
  <2>1. \A i \in 1 .. Len(upt) : i + 1 \in 1 .. Len(up) /\ upt[i] = up[i + 1]
    BY <1>3
  <2> QED BY <2>1 DEF Drains, Ended
<1> QED BY <1>1, <1>2, <1>3

(* The server records the outcome it reads.                                *)
LEMMA DrainsLearned ==
  ASSUME NEW s, NEW t, NEW c, NEW up \in Seq(UpFrames), Drains(s, c, up), up # <<>>,
         Head(up).kind = "drain_ack", t.drained = Head(up).status
  PROVE  Drains(t, c, Tail(up))
<1>1. Head(up) = up[1] /\ 1 \in 1 .. Len(up)
  OBVIOUS
<1>2. t.drained \in Ended => c.drained = t.drained
  BY <1>1 DEF Drains
<1>3. \A i \in 1 .. Len(Tail(up)) : i + 1 \in 1 .. Len(up) /\ Tail(up)[i] = up[i + 1]
  OBVIOUS
<1> QED BY <1>2, <1>3 DEF Drains

(* The host keeps its outcome, or settles a drain that had none.           *)
LEMMA DrainsClient ==
  ASSUME NEW s, NEW c, NEW d, NEW up \in Seq(UpFrames), NEW f \in UpFrames, NEW upt, Drains(s, c, up),
         upt = up \/ upt = Append(up, f),
         (d.drained = c.drained /\ d.drain = c.drain) \/ (c.drained \notin Ended /\ d.drain # 0),
         f.kind = "drain_ack" /\ f.status \in Ended => d.drained = f.status
  PROVE  Drains(s, d, upt)
<1>1. Drains(s, d, up)
  BY DEF Drains
<1>2. CASE upt = Append(up, f)
  <2>1. \A i \in 1 .. Len(upt) : (i \in 1 .. Len(up) /\ upt[i] = up[i]) \/ upt[i] = f
    BY <1>2
  <2> QED BY <1>1, <2>1 DEF Drains
<1> QED BY <1>1, <1>2

(* Before any session exists no drain has an outcome. *)
LEMMA DrainsInit == CcInit => DrainsAgree
<1> SUFFICES ASSUME CcInit, NEW p \in Procs PROVE Drains(ccServer[p], ccClient[p], ccUp[p])
  BY DEF DrainsAgree
<1>1. ccServer[p] = NoServerSession /\ ccClient[p] = NoClientSession /\ ccUp[p] = <<>>
  BY DEF CcInit
<1>2. 1 .. Len(ccUp[p]) = {}
  BY <1>1
<1> QED BY <1>1, <1>2 DEF Drains, NoServerSession, NoClientSession, Ended

(* A frame changes the server's outcome only if it is a report of one.     *)
LEMMA FrameDrains ==
  ASSUME NEW s \in ServerSessions, NEW f \in UpFrames
  PROVE  \/ AfterFrame(s, f).drained = s.drained
         \/ f.kind = "drain_ack" /\ AfterFrame(s, f).drained = f.status
<1>0. ClosedServer(s).drained = s.drained
  BY DEF ClosedServer, NoServerSession
<1>1. CASE f.kind \in {"ack_snapshot", "ack_delta"}
  <2>1. AfterFrame(s, f) = AfterAck(s, f)
    BY <1>1 DEF AfterFrame
  <2>2. \A g : Staged(s, g).drained = s.drained
    BY DEF Staged, ServerSessions
  <2>3. AfterAck(s, f) \in {s, ClosedServer(s), Staged(s, s.pend), Staged(s, s.delta)}
    BY DEF AfterAck
  <2> QED BY <1>0, <2>1, <2>2, <2>3
<1>2. CASE f.kind = "ready"
  <2>1. AfterFrame(s, f) = AfterReadiness(s, f.gen)
    BY <1>2 DEF AfterFrame
  <2> QED BY <1>0, <2>1 DEF AfterReadiness, ServerSessions
<1>3. CASE f.kind = "heartbeat"
  <2>1. AfterFrame(s, f) = AfterHeartbeat(s, f.gen)
    BY <1>3 DEF AfterFrame
  <2> QED BY <1>0, <2>1 DEF AfterHeartbeat
<1>4. CASE f.kind = "drain_ack"
  <2>1. AfterFrame(s, f) = AfterDrainAck(s, f)
    BY <1>4 DEF AfterFrame
  <2> DEFINE t == [s EXCEPT !.drained = f.status]
  <2>2. AfterDrainAck(s, f) \in {s, ClosedServer(s), t}
    BY DEF AfterDrainAck
  <2>3. t.drained = f.status
    BY DEF ServerSessions
  <2> HIDE DEF t
  <2> QED BY <1>0, <1>4, <2>1, <2>2, <2>3
<1> QED BY <1>1, <1>2, <1>3, <1>4 DEF UpFrames, FrameKinds

(* What the host does with a frame.                                        *)
LEMMA ResultDrains ==
  ASSUME NEW c \in ClientSessions, NEW f \in DownFrames, c.drain = 0 => c.drained = "none", NEW r \in ResultsOf(c, f)
  PROVE  /\ (r[1].drained = c.drained /\ r[1].drain = c.drain) \/ (c.drained \notin Ended /\ r[1].drain # 0)
         /\ r[2].kind = "drain_ack" /\ r[2].status \in Ended => r[1].drained = r[2].status
<1> DEFINE g == f.gen
<1>0. g # 0 /\ f.kind \in {"snapshot", "delta", "drain"}
  BY GensAreNaturals DEF DownFrames
<1>1. StagedByClient(c, g).drained = c.drained /\ StagedByClient(c, g).drain = c.drain
  BY DEF StagedByClient, ClientSessions
<1>2. CASE f.kind = "snapshot"
  <2>1. r \in SnapshotResults(c, g)
    BY <1>2 DEF ResultsOf
  <2>2. r[1] \in {c, StagedByClient(c, g)} /\ r[2].kind = "ack_snapshot"
    BY <2>1 DEF SnapshotResults, Frame
  <2> QED BY <1>1, <2>2
<1>3. CASE f.kind = "delta"
  <2>1. r \in DeltaResults(c, g)
    BY <1>3 DEF ResultsOf
  <2> DEFINE d == [c EXCEPT !.needs = TRUE]
  <2>2. r[1] \in {c, StagedByClient(c, g), d} /\ r[2].kind = "ack_delta"
    BY <2>1 DEF DeltaResults, Frame
  <2>3. d.drained = c.drained /\ d.drain = c.drain
    BY DEF ClientSessions
  <2> HIDE DEF d
  <2> QED BY <1>1, <2>2, <2>3
<1>4. CASE f.kind = "drain"
  <2> DEFINE stopped == [c EXCEPT !.drain = g, !.drained = "accepted", !.state = "draining"]
             turned == [c EXCEPT !.drain = g, !.drained = "rejected"]
             failed == RestoreClient(turned)
  <2>1. r \in DrainResults(c, g)
    BY <1>4 DEF ResultsOf
  <2>2. stopped.drain = g /\ turned.drain = g
    BY DEF ClientSessions
  <2>3. failed.drain = g
    BY <2>2 DEF RestoreClient, ClientSessions
  <2>4. CASE c.drain # 0
    <3>1. r[1] = c /\ r[2].status \in {c.drained, "rejected"}
      BY <2>1, <2>4 DEF DrainResults, Frame
    <3> QED BY <3>1 DEF Ended
  <2>5. CASE c.drain = 0
    <3>1. r[1] \in {c, stopped, failed} /\ r[2].status \in {"accepted", "rejected"}
      BY <2>1, <2>5 DEF DrainResults, Frame
    <3> HIDE DEF stopped, failed
    <3> QED BY <1>0, <2>2, <2>3, <2>5, <3>1 DEF Ended
  <2> QED BY <2>4, <2>5
<1> QED BY <1>0, <1>2, <1>3, <1>4

(* A step that touches one session only has that session to account for. *)
LEMMA SteadyDrains ==
  ASSUME DrainsAgree, NEW p \in Procs, Untouched(p), Drains(ccServer'[p], ccClient'[p], ccUp'[p])
  PROVE  DrainsAgree'
BY DEF DrainsAgree, Untouched

-----------------------------------------------------------------------------
(* What the steps change, for the invariants below.                        *)

Open(s) == s.state \notin {"new", "closed"}

(* An offer or a request to drain leaves the session open, and changes     *)
(* neither what it serves nor what it prepared.                            *)
Offered(p) ==
  LET s == ccServer[p]
      t == ccServer'[p]
  IN /\ Open(s) /\ Open(t) /\ t.active = s.active /\ t.cand = s.cand /\ (t.delta # 0 => t.active # 0)
     /\ t.drained \in {s.drained, "accepted"}
     /\ Untouched(p) /\ ccUp' = ccUp /\ ccClient' = ccClient /\ ccRegistry' = ccRegistry

(* A snapshot, a delta and a drain are offered in the way Offered describes. *)
LEMMA Offers ==
  ASSUME Channel, NEW p \in Procs,
         (\E g \in 1 .. ccLatest : OfferSnapshot(p, g)) \/ OfferDelta(p) \/ ServerBeginsDrain(p)
  PROVE  Offered(p)
<1> DEFINE s == ccServer[p]
           t == ccServer'[p]
<1>1. s \in ServerSessions /\ ccServer \in [Procs -> ServerSessions]
  BY DEF Channel, ChannelTyped
<1>2. Open(s) /\ ccUp' = ccUp /\ ccClient' = ccClient /\ ccRegistry' = ccRegistry
  BY DEF OfferSnapshot, OfferDelta, ServerBeginsDrain, ServerActs, ServerOpen, Open
<1>3. /\ Open(t) /\ t.active = s.active /\ t.cand = s.cand /\ (t.delta # 0 => t.active # 0)
      /\ t.drained \in {s.drained, "accepted"} /\ \A q \in Procs : q # p => ccServer'[q] = ccServer[q]
  <2>1. CASE \E g \in 1 .. ccLatest : OfferSnapshot(p, g)
    <3>1. PICK g \in 1 .. ccLatest, st \in {"awaiting_snapshot", s.state} :
            ccServer' = [ccServer EXCEPT ![p].delta = 0, ![p].pend = g, ![p].state = st]
      BY <2>1 DEF OfferSnapshot
    <3> QED BY <1>1, <1>2, <3>1 DEF ServerSessions, Open
  <2>2. CASE OfferDelta(p)
    <3>1. ccServer' = [ccServer EXCEPT ![p].delta = s.active + 1] /\ s.active # 0
      BY <2>2 DEF OfferDelta, ServerReady
    <3> QED BY <1>1, <1>2, <3>1 DEF ServerSessions, Open
  <2>3. CASE ServerBeginsDrain(p)
    <3>1. ccServer' = [ccServer EXCEPT ![p].drain = s.active, ![p].drained = "accepted", ![p].state = "draining"] /\ s.active # 0
      BY <2>3 DEF ServerBeginsDrain, ServerReady
    <3> QED BY <1>1, <3>1 DEF ServerSessions, Open
  <2> QED BY <2>1, <2>2, <2>3
<1> HIDE DEF s, t
<1> QED BY <1>2, <1>3 DEF Offered, Untouched, s, t

(* Reading a frame the host stages something only with an agreement to it, *)
(* unless it serves something.                                             *)
LEMMA ResultHears ==
  ASSUME NEW c \in ClientSessions, NEW g \in DownFrames, NEW r \in ResultsOf(c, g)
  PROVE  /\ ~Agrees(r[2]) => c.active # 0 \/ r[1].cand = c.cand
         /\ Agrees(r[2]) => c.active # 0 \/ r[1].cand = r[2].gen
         /\ r[2].kind # "heartbeat"
<1> DEFINE h == g.gen
           current == IF c.cand # 0 THEN c.cand ELSE c.active
<1>1. h \in Gens /\ h \in Nat /\ h # 0 /\ c.active \in Nat /\ c.cand \in Nat
  BY GensAreNaturals DEF DownFrames, ClientSessions, ConfigGens
<1>2. \A k, n, st : Frame(k, n, st).kind = k /\ Frame(k, n, st).gen = n /\ Frame(k, n, st).status = st
  BY DEF Frame
<1>3. StagedByClient(c, h).cand = h
  BY <1>1, StagedIs
<1>4. CASE g.kind = "snapshot"
  <2>1. \/ r = <<c, Frame("ack_snapshot", h, "rejected")>>
        \/ r = <<c, Frame("ack_snapshot", h, "duplicate")>> /\ h = current
        \/ r = <<StagedByClient(c, h), Frame("ack_snapshot", h, "applied")>>
    BY <1>4 DEF ResultsOf, SnapshotResults
  <2>2. CASE r = <<c, Frame("ack_snapshot", h, "rejected")>>
    BY <1>2, <2>2 DEF Agrees
  <2>3. CASE r = <<c, Frame("ack_snapshot", h, "duplicate")>> /\ h = current
    BY <1>1, <1>2, <2>3 DEF Agrees
  <2>4. CASE r = <<StagedByClient(c, h), Frame("ack_snapshot", h, "applied")>>
    BY <1>2, <1>3, <2>4 DEF Agrees
  <2> QED BY <2>1, <2>2, <2>3, <2>4
<1>5. CASE g.kind = "delta"
  <2>1. r \in DeltaResults(c, h)
    BY <1>5 DEF ResultsOf
  <2> DEFINE usable == c.active # 0 /\ ~c.needs /\ c.cand = 0
  <2>2. CASE ~usable
    BY <1>2, <2>1, <2>2 DEF DeltaResults, Agrees
  <2>3. CASE usable
    <3>1. \E st : r[2] = Frame("ack_delta", h, st)
      <4>1. CASE h = c.active + 1
        BY <2>1, <2>3, <4>1, <1>1 DEF DeltaResults
      <4>2. CASE h # c.active + 1 /\ h <= c.active
        BY <2>1, <2>3, <4>2, <1>1 DEF DeltaResults
      <4>3. CASE h # c.active + 1 /\ ~(h <= c.active)
        BY <2>1, <2>3, <4>3, <1>1 DEF DeltaResults
      <4> QED BY <4>1, <4>2, <4>3
    <3> QED BY <1>2, <2>3, <3>1
  <2> QED BY <2>2, <2>3
<1>6. CASE g.kind = "drain"
  <2> DEFINE stopped == [c EXCEPT !.drain = h, !.drained = "accepted", !.state = "draining"]
             turned == [c EXCEPT !.drain = h, !.drained = "rejected"]
  <2>1. r \in DrainResults(c, h)
    BY <1>6 DEF ResultsOf
  <2>2. stopped.cand = c.cand /\ turned.cand = c.cand /\ turned \in ClientSessions
    BY <1>1 DEF ClientSessions, Statuses, DrainStatuses
  <2>3. (\E st : r = <<c, Frame("drain_ack", h, st)>>)
        \/ r = <<stopped, Frame("drain_ack", h, "accepted")>> \/ r = <<RestoreClient(turned), Frame("drain_ack", h, "rejected")>>
    <3>1. CASE c.drain # 0
      BY <2>1, <3>1 DEF DrainResults
    <3>2. CASE c.drain = 0 /\ (~ClientReady(c) \/ h # c.active)
      BY <2>1, <3>2 DEF DrainResults
    <3>3. CASE c.drain = 0 /\ ~(~ClientReady(c) \/ h # c.active)
      BY <2>1, <3>3 DEF DrainResults
    <3> QED BY <3>1, <3>2, <3>3
  <2> HIDE DEF stopped, turned
  <2>4. RestoreClient(turned).cand = c.cand
    BY <2>2, RestoredIs
  <2>5. r[1].cand = c.cand /\ r[2].kind = "drain_ack"
    BY <1>2, <2>2, <2>3, <2>4
  <2> QED BY <2>5 DEF Agrees
<1> QED BY <1>4, <1>5, <1>6 DEF DownFrames

(* A step of the host: it goes to a session d and may send f.  It drops or *)
(* keeps its candidate unless it agrees to another, a readiness is of what *)
(* it now serves, a heartbeat of what it reports, and an end of its drain  *)
(* is told as it is and never changes.                                     *)
HostMove(c, d, f) ==
  /\ d.state # "new" /\ f \in UpFrames
  /\ IF f.kind = "ready" THEN d.active = f.gen /\ d.active # 0 ELSE d.active = c.active
  /\ ~Agrees(f) => d.active # 0 \/ d.cand \in {0, c.cand}
  /\ Agrees(f) => d.active # 0 \/ d.cand = f.gen
  /\ f.kind = "heartbeat" => f.gen # 0 /\ f.gen = (IF c.active # 0 THEN c.active ELSE c.cand)
  /\ (d.drained = c.drained /\ d.drain = c.drain) \/ (c.drained \notin Ended /\ d.drain # 0)
  /\ f.kind = "drain_ack" /\ f.status \in Ended => d.drained = f.status

HostSteps(p) ==
  \/ clientReads(p) \/ MarksReady(p) \/ ActivationFails(p) \/ ClientBeats(p) \/ ClientCloses(p)
  \/ \E status \in {"progress", "completed", "forced"} : ReportsDrain(p, status)

(* Each step of the host is a HostMove, with the frame it sends if it sends one. *)
LEMMA HostMoves ==
  ASSUME Channel, NEW p \in Procs, HostSteps(p), ccClient[p].drain = 0 => ccClient[p].drained = "none"
  PROVE  /\ ccServer' = ccServer
         /\ \E d, f :
              /\ ccClient' = [ccClient EXCEPT ![p] = d] /\ HostMove(ccClient[p], d, f)
              /\ Replies(p, f) \/ (ccUp' = ccUp /\ d.active = ccClient[p].active /\ d.cand = 0)
<1> DEFINE c == ccClient[p]
           quiet == Frame("drain_ack", 0, "progress")
<1>1. c \in ClientSessions /\ ccClient \in [Procs -> ClientSessions] /\ ccDown[p] \in Seq(DownFrames)
  BY DEF Channel, ChannelTyped
<1>2. 0 \in Gens /\ "" \in Statuses /\ Ended \subseteq Statuses /\ "progress" \in Statuses /\ "progress" \notin Ended
  BY CcAssumption DEF Gens, Statuses, DrainStatuses, Ended
<1>3. c.state # "new" /\ ccServer' = ccServer
  BY DEF HostSteps, clientReads, MarksReady, ActivationFails, ClientBeats, ClientCloses, ReportsDrain, ClientOpen
<1>4. quiet \in UpFrames /\ quiet.kind = "drain_ack" /\ quiet.status \notin Ended /\ ~Agrees(quiet)
  BY <1>2 DEF Frame, UpFrames, FrameKinds, Agrees
<1>5. CASE clientReads(p)
  <2> DEFINE g == Head(ccDown[p])
  <2>1. ccDown[p] # <<>>
    BY <1>5 DEF clientReads
  <2>2. g \in DownFrames
    BY <1>1, <2>1
  <2>3. PICK r \in ResultsOf(c, g) : ccClient' = [ccClient EXCEPT ![p] = r[1]] /\ Replies(p, r[2])
    BY <1>5 DEF clientReads
  <2> HIDE DEF c, g
  <2>4. Keeps(c, r[1], r[2])
    <3>1. c.cand # 0 => c.active < c.cand
      BY Parts DEF Ordered, c
    <3>2. g.gen \in ConfigGens /\ g.kind \in {"snapshot", "delta", "drain"}
      BY <2>2 DEF DownFrames
    <3> QED BY <1>1, <1>3, <2>3, <3>1, <3>2, SnapshotKeeps, DeltaKeeps, DrainKeeps DEF ResultsOf
  <2>5. /\ ~Agrees(r[2]) => c.active # 0 \/ r[1].cand = c.cand
        /\ Agrees(r[2]) => c.active # 0 \/ r[1].cand = r[2].gen
        /\ r[2].kind # "heartbeat"
    BY <1>1, <2>2, <2>3, ResultHears
  <2>6. /\ (r[1].drained = c.drained /\ r[1].drain = c.drain) \/ (c.drained \notin Ended /\ r[1].drain # 0)
        /\ r[2].kind = "drain_ack" /\ r[2].status \in Ended => r[1].drained = r[2].status
    BY <1>1, <2>2, <2>3, ResultDrains DEF c
  <2>7. HostMove(c, r[1], r[2])
    BY <2>4, <2>5, <2>6 DEF Keeps, HostMove
  <2> QED BY <1>3, <2>3, <2>7 DEF c
<1>6. CASE MarksReady(p)
  <2> DEFINE d == [c EXCEPT !.active = c.cand, !.cand = 0, !.needs = FALSE, !.ready = c.cand, !.state = "ready"]
             f == Frame("ready", c.cand, "")
  <2>1. f \in UpFrames /\ f.kind = "ready" /\ f.gen = c.cand /\ ~Agrees(f)
    BY <1>1, <1>2 DEF Frame, UpFrames, FrameKinds, ClientSessions, Agrees
  <2>2. d.state # "new" /\ d.active = c.cand /\ d.cand = 0 /\ d.drained = c.drained /\ d.drain = c.drain
    BY <1>1 DEF ClientSessions
  <2>3. ccClient' = [ccClient EXCEPT ![p] = d] /\ Replies(p, f) /\ c.cand # 0
    BY <1>6 DEF MarksReady
  <2> HIDE DEF c, d, f
  <2>4. HostMove(c, d, f)
    BY <2>1, <2>2, <2>3 DEF HostMove
  <2> QED BY <1>3, <2>3, <2>4 DEF c
<1>7. CASE ActivationFails(p)
  <2> DEFINE b == [c EXCEPT !.cand = 0, !.needs = TRUE]
             d == RestoreClient(b)
  <2>1. b.active = c.active /\ b.cand = 0 /\ b.drained = c.drained /\ b.drain = c.drain /\ b \in ClientSessions
    BY <1>1, <1>2 DEF ClientSessions
  <2>2. ccUp' = ccUp /\ ccClient' = [ccClient EXCEPT ![p] = d]
    BY <1>7 DEF ActivationFails
  <2> HIDE DEF b, c, quiet
  <2>3. d.active = c.active /\ d.cand = 0 /\ d.state # "new"
    BY <2>1, RestoredIs
  <2>4. d.drained = c.drained /\ d.drain = c.drain
    BY <2>1 DEF RestoreClient, ClientSessions
  <2> HIDE DEF d
  <2>5. HostMove(c, d, quiet)
    BY <1>4, <2>3, <2>4 DEF HostMove
  <2> QED BY <1>3, <2>2, <2>3, <2>5 DEF c
<1>8. CASE ClientBeats(p)
  <2> DEFINE f == Frame("heartbeat", ReportedGeneration(c), "")
  <2>1. f \in UpFrames /\ f.kind = "heartbeat" /\ f.gen = ReportedGeneration(c) /\ ~Agrees(f)
    BY <1>1, <1>2 DEF Frame, UpFrames, FrameKinds, ClientSessions, ReportedGeneration, Agrees
  <2>2. ccClient' = [ccClient EXCEPT ![p] = c] /\ Replies(p, f) /\ ReportedGeneration(c) # 0
    BY <1>1, <1>8 DEF ClientBeats
  <2> HIDE DEF c, f
  <2>3. HostMove(c, c, f)
    BY <1>3, <2>1, <2>2 DEF HostMove, ReportedGeneration
  <2> QED BY <1>3, <2>2, <2>3 DEF c
<1>9. CASE ClientCloses(p)
  <2> DEFINE d == [c EXCEPT !.state = "closed", !.cand = 0, !.ready = 0, !.needs = FALSE]
  <2>1. d.state # "new" /\ d.active = c.active /\ d.cand = 0 /\ d.drained = c.drained /\ d.drain = c.drain
    BY <1>1 DEF ClientSessions
  <2>2. ccUp' = ccUp /\ ccClient' = [ccClient EXCEPT ![p] = d]
    BY <1>9 DEF ClientCloses
  <2> HIDE DEF c, d, quiet
  <2>3. HostMove(c, d, quiet)
    BY <1>4, <2>1 DEF HostMove
  <2> QED BY <1>3, <2>1, <2>2, <2>3 DEF c
<1>10. ASSUME NEW status \in {"progress", "completed", "forced"}, ReportsDrain(p, status)
       PROVE  \E d, f : /\ ccClient' = [ccClient EXCEPT ![p] = d] /\ HostMove(ccClient[p], d, f) /\ Replies(p, f)
  <2> DEFINE told == IF c.drained \in DrainOutcomes THEN c.drained ELSE status
             d == [c EXCEPT !.drained = told]
             f == Frame("drain_ack", c.drain, told)
  <2>1. told \in Statuses /\ (told = c.drained \/ c.drained \notin Ended)
    BY <1>1, <1>2, <1>10 DEF ClientSessions, DrainOutcomes, Ended
  <2>2. d.active = c.active /\ d.cand = c.cand /\ d.state = c.state /\ d.drained = told /\ d.drain = c.drain
    BY <1>1 DEF ClientSessions
  <2>3. f \in UpFrames /\ f.kind = "drain_ack" /\ f.status = told /\ ~Agrees(f)
    BY <1>1, <2>1 DEF Frame, UpFrames, FrameKinds, ClientSessions, Agrees
  <2>4. ccClient' = [ccClient EXCEPT ![p] = d] /\ Replies(p, f) /\ c.drain # 0
    BY <1>10 DEF ReportsDrain
  <2> HIDE DEF c, d, f, told
  <2>5. HostMove(c, d, f)
    BY <1>3, <2>1, <2>2, <2>3, <2>4 DEF HostMove
  <2> QED BY <2>4, <2>5 DEF c
<1> QED BY <1>3, <1>5, <1>6, <1>7, <1>8, <1>9, <1>10 DEF HostSteps

(* The server's steps leave the host's drain alone.                        *)
LEMMA ServerDrains ==
  ASSUME Channel, DrainsAgree, NEW p \in Procs, ServerAccepts(p) \/ Offered(p) \/ closeServer(p)
  PROVE  DrainsAgree'
<1> DEFINE s == ccServer[p]
           t == ccServer'[p]
<1>1. /\ s \in ServerSessions /\ ccServer \in [Procs -> ServerSessions] /\ ccClient \in [Procs -> ClientSessions]
      /\ ccUp \in [Procs -> Seq(UpFrames)] /\ ccUp[p] \in Seq(UpFrames) /\ Drains(s, ccClient[p], ccUp[p])
  BY DEF Channel, ChannelTyped, DrainsAgree
<1>2. /\ t.drained \in {s.drained, "accepted"} /\ (ccUp'[p] = ccUp[p] \/ ccUp'[p] = <<>>) /\ Untouched(p)
      /\ ccClient'[p].drained = ccClient[p].drained /\ ccClient'[p].drain = ccClient[p].drain
  <2>1. CASE ServerAccepts(p)
    <3>1. t.drained = s.drained /\ \A q \in Procs : q # p => ccServer'[q] = ccServer[q]
      BY <1>1, <2>1 DEF ServerAccepts, ServerSessions
    <3>2. /\ ccClient'[p].drained = ccClient[p].drained /\ ccClient'[p].drain = ccClient[p].drain
          /\ \A q \in Procs : q # p => ccClient'[q] = ccClient[q]
      BY <1>1, <2>1 DEF ServerAccepts, ClientSessions
    <3> QED BY <2>1, <3>1, <3>2 DEF ServerAccepts, Untouched
  <2>2. CASE Offered(p)
    BY <2>2 DEF Offered
  <2>3. CASE closeServer(p)
    <3>1. ClosedServer(s).drained = s.drained
      BY DEF ClosedServer, NoServerSession
    <3>2. t = ClosedServer(s) /\ ccUp'[p] = <<>> /\ ccClient' = ccClient /\ Untouched(p)
      BY <1>1, <2>3 DEF closeServer, Untouched
    <3> QED BY <3>1, <3>2
  <2> QED BY <2>1, <2>2, <2>3
<1> HIDE DEF s, t
<1>3. Drains(t, ccClient[p], ccUp'[p])
  BY <1>1, <1>2, DrainsServer
<1>4. Drains(t, ccClient'[p], ccUp'[p])
  BY <1>2, <1>3 DEF Drains
<1> QED BY <1>2, <1>4, SteadyDrains DEF t

(* Handling a frame keeps DrainsAgree: an outcome is only learned from an acknowledgement. *)
LEMMA HandleDrains ==
  ASSUME Channel, DrainsAgree, NEW p \in Procs, handleFrame(p)
  PROVE  DrainsAgree'
<1> DEFINE s == ccServer[p]
           f == Head(ccUp[p])
           t == AfterFrame(s, f)
<1>1. /\ s \in ServerSessions /\ ccServer \in [Procs -> ServerSessions]
      /\ ccUp \in [Procs -> Seq(UpFrames)] /\ ccUp[p] \in Seq(UpFrames) /\ Drains(s, ccClient[p], ccUp[p])
      /\ ccUp[p] # <<>>
  BY DEF Channel, ChannelTyped, DrainsAgree, handleFrame
<1>2. f \in UpFrames
  BY <1>1
<1>3. CASE closeServer(p)
  BY <1>3, ServerDrains
<1>4. CASE ccServer' = [ccServer EXCEPT ![p] = t] /\ ccUp' = [ccUp EXCEPT ![p] = Tail(@)] /\ ccClient' = ccClient
  <2>1. /\ ccServer'[p] = t /\ ccUp'[p] = Tail(ccUp[p]) /\ ccClient'[p] = ccClient[p] /\ Untouched(p)
    BY <1>1, <1>4 DEF Untouched
  <2>2. t.drained = s.drained \/ (f.kind = "drain_ack" /\ t.drained = f.status)
    BY <1>1, <1>2, FrameDrains
  <2> HIDE DEF t
  <2>3. Drains(t, ccClient[p], Tail(ccUp[p]))
    BY <1>1, <2>2, DrainsServer, DrainsLearned
  <2> QED BY <2>1, <2>3, SteadyDrains
<1> QED BY <1>3, <1>4 DEF handleFrame

(* The host's steps leave the server alone.                                *)
LEMMA HostDrains ==
  ASSUME Channel, DrainsAgree, NEW p \in Procs, HostSteps(p)
  PROVE  DrainsAgree'
<1> DEFINE c == ccClient[p]
<1>1. /\ ccClient \in [Procs -> ClientSessions] /\ ccUp \in [Procs -> Seq(UpFrames)] /\ ccUp[p] \in Seq(UpFrames)
      /\ Drains(ccServer[p], c, ccUp[p])
  BY DEF Channel, ChannelTyped, DrainsAgree
<1>2. PICK d, f : /\ ccServer' = ccServer /\ ccClient' = [ccClient EXCEPT ![p] = d] /\ HostMove(c, d, f)
                  /\ Replies(p, f) \/ ccUp' = ccUp
  BY <1>1, HostMoves DEF Drains
<1>3. ccUp' = ccUp \/ ccUp' = [ccUp EXCEPT ![p] = Append(@, f)]
  BY <1>2, RepliesUp
<1>4. ccClient'[p] = d /\ (ccUp'[p] = ccUp[p] \/ ccUp'[p] = Append(ccUp[p], f)) /\ Untouched(p)
  BY <1>1, <1>2, <1>3 DEF Untouched
<1>5. Drains(ccServer[p], d, ccUp'[p])
  BY <1>1, <1>2, <1>4, DrainsClient DEF HostMove
<1> QED BY <1>2, <1>4, <1>5, SteadyDrains
(* Every step of the channel keeps DrainsAgree. *)
LEMMA DrainsNext ==
  ASSUME Channel, DrainsAgree, [CcNext]_ccVars
  PROVE  DrainsAgree'
<1>1. CASE UNCHANGED ccVars \/ ConfigurationAdvances
  BY <1>1 DEF ccVars, ConfigurationAdvances, DrainsAgree
<1>2. ASSUME NEW p \in Procs, SessionSteps(p)
      PROVE  DrainsAgree'
  BY <1>2, Offers, ServerDrains, HandleDrains, HostDrains DEF SessionSteps, HostSteps, ServerCloses
<1>3. 1 .. ccScope.proc \subseteq Procs
  BY CcAssumption DEF Channel, ChannelTyped, Procs
<1> QED BY <1>1, <1>2, <1>3 DEF CcNext

(* The server records a drain as completed or forced only when the host's  *)
(* own drain ended so, for any number of frames in flight, repeated        *)
(* reports and sessions (HandleDrainAck, CompleteDrain, DrainProgress).    *)
THEOREM DrainEndsAtHostAlways == CcSpec => []DrainEndsAtHost
<1>1. DrainsAgree => DrainEndsAtHost
  BY DEF DrainsAgree, Drains, DrainEndsAtHost, Ended
<1>2. CcInit => Channel /\ DrainsAgree
  BY ChannelInit, DrainsInit
<1>3. Channel /\ DrainsAgree /\ [CcNext]_ccVars => (Channel /\ DrainsAgree)'
  BY ChannelNext, DrainsNext
<1> QED BY <1>1, <1>2, <1>3, PTL DEF CcSpec

-----------------------------------------------------------------------------
(* The registry.                                                           *)

(* What a step of session p does to its state and to the registration.     *)
Registers(p) ==
  /\ \A q \in Procs : q # p => ccServer'[q] = ccServer[q]
  /\ \/ ccServer'[p].state # "new" /\ ccRegistry < p /\ ccRegistry' = p
     \/ ServerOpen(p) /\ ccServer'[p].state # "new" /\ ccRegistry' = ccRegistry
     \/ ccServer'[p].state = "closed" /\ ccRegistry' = RegistryDisconnect(p)
     \/ ccServer'[p] = ccServer[p] /\ ccRegistry' = ccRegistry

(* A step that treats the registry as Registers says keeps the newest open session registered. *)
LEMMA RegistersKeeps ==
  ASSUME ChannelTyped, NewestOpenIsRegistered, NEW p \in Procs, Registers(p)
  PROVE  NewestOpenIsRegistered'
<1> SUFFICES ASSUME NEW q \in Procs, ServerOpen(q)'
             PROVE  (ccRegistry = q)' \/ \E r \in Procs : r > q /\ ccServer'[r].state # "new"
  BY DEF NewestOpenIsRegistered
<1>0. Procs \subseteq Nat /\ ccRegistry \in Nat
  BY CcAssumption DEF ChannelTyped, Procs
<1>1. \A r \in Procs : ccServer[r].state # "new" => ccServer'[r].state # "new"
  BY DEF Registers, ServerOpen
<1>2. CASE ccServer'[p].state # "new" /\ ccRegistry < p /\ ccRegistry' = p
  <2>1. CASE q = p
    BY <1>2, <2>1
  <2>2. CASE q # p
    <3>1. ServerOpen(q)
      BY <2>2 DEF Registers, ServerOpen
    <3> QED BY <1>0, <1>1, <1>2, <3>1 DEF NewestOpenIsRegistered
  <2> QED BY <2>1, <2>2
<1>3. CASE ServerOpen(p) /\ ccServer'[p].state # "new" /\ ccRegistry' = ccRegistry
  <2>1. ServerOpen(q)
    BY <1>3 DEF Registers, ServerOpen
  <2> QED BY <1>1, <1>3, <2>1 DEF NewestOpenIsRegistered
<1>4. CASE ccServer'[p].state = "closed" /\ ccRegistry' = RegistryDisconnect(p)
  <2>1. q # p /\ ServerOpen(q)
    BY <1>4 DEF Registers, ServerOpen
  <2> QED BY <1>1, <1>4, <2>1 DEF NewestOpenIsRegistered, RegistryDisconnect
<1>5. CASE ccServer'[p] = ccServer[p] /\ ccRegistry' = ccRegistry
  <2>1. ServerOpen(q)
    BY <1>5 DEF Registers, ServerOpen
  <2> QED BY <1>1, <1>5, <2>1 DEF NewestOpenIsRegistered
<1> QED BY <1>2, <1>3, <1>4, <1>5 DEF Registers

(* Every step of a session treats the registry as Registers says. *)
LEMMA SessionRegisters ==
  ASSUME Channel, NEW p \in Procs, SessionSteps(p)
  PROVE  Registers(p)
<1> DEFINE s == ccServer[p]
<1>1. s \in ServerSessions /\ ccServer \in [Procs -> ServerSessions]
  BY DEF Channel, ChannelTyped
<1>2. CASE ServerAccepts(p)
  BY <1>1, <1>2 DEF ServerAccepts, RegistryAttach, Registers, ServerSessions
<1>3. ASSUME closeServer(p) PROVE Registers(p)
  <2>1. ClosedServer(s).state = "closed"
    BY <1>1, ClosedServerIs
  <2>2. ccServer'[p] = ClosedServer(s) /\ \A q \in Procs : q # p => ccServer'[q] = ccServer[q]
    BY <1>1, <1>3 DEF closeServer
  <2> QED BY <1>3, <2>1, <2>2 DEF closeServer, Registers
<1>4. CASE (\E g \in 1 .. ccLatest : OfferSnapshot(p, g)) \/ OfferDelta(p) \/ ServerBeginsDrain(p)
  <2>1. Offered(p)
    BY <1>4, Offers
  <2> QED BY <2>1 DEF Offered, Untouched, Open, ServerOpen, Registers
<1>5. CASE handleFrame(p)
  <2> DEFINE f == Head(ccUp[p])
             t == AfterFrame(s, f)
  <2>1. CASE closeServer(p)
    BY <1>3, <2>1
  <2>2. CASE t.state # "closed" /\ ccServer' = [ccServer EXCEPT ![p] = t] /\ ccRegistry' = ccRegistry
    <3>1. ServerOpen(p) /\ ccUp[p] # <<>> /\ ccUp[p] \in Seq(UpFrames) /\ Ordered(s, ccClient[p], ccUp[p])
      BY <1>5, Parts DEF handleFrame
    <3>2. f \in UpFrames /\ f = ccUp[p][1] /\ 1 \in 1 .. Len(ccUp[p])
      BY <3>1
    <3>3. (Agrees(f) => s.active <= f.gen) /\ (s.cand # 0 => s.active <= s.cand) /\ s.state # "new"
      BY <3>1, <3>2 DEF Ordered, ServerOpen
    <3>4. t.state # "new"
      BY <1>1, <2>2, <3>2, <3>3, FrameMoves
    <3> HIDE DEF t
    <3> QED BY <1>1, <2>2, <3>1, <3>4 DEF Registers
  <2> QED BY <1>5, <2>1, <2>2 DEF handleFrame
<1>6. CASE ccServer' = ccServer /\ ccRegistry' = ccRegistry
  BY <1>6 DEF Registers
<1> QED BY <1>2, <1>3, <1>4, <1>5, <1>6
       DEF SessionSteps, ServerCloses, clientReads, MarksReady, ActivationFails, ClientBeats, ReportsDrain, ClientCloses

(* The newest session open on the server is the registered one, for any    *)
(* number of process generations: a late close of a replaced session never *)
(* removes its successor (closeLocked, SessionRegistry.Disconnect).        *)
THEOREM NewestOpenIsRegisteredAlways == CcSpec => []NewestOpenIsRegistered
<1>1. CcInit => Channel /\ NewestOpenIsRegistered
  BY ChannelInit DEF CcInit, NewestOpenIsRegistered, ServerOpen, NoServerSession
<1>2. Channel /\ NewestOpenIsRegistered /\ [CcNext]_ccVars => (Channel /\ NewestOpenIsRegistered)'
  <2> SUFFICES ASSUME Channel, NewestOpenIsRegistered, [CcNext]_ccVars PROVE NewestOpenIsRegistered'
    BY ChannelNext
  <2>1. CASE UNCHANGED ccVars \/ ConfigurationAdvances
    BY <2>1 DEF ccVars, ConfigurationAdvances, NewestOpenIsRegistered, ServerOpen
  <2>2. ASSUME NEW p \in Procs, SessionSteps(p) PROVE NewestOpenIsRegistered'
    BY <2>2, SessionRegisters, RegistersKeeps DEF Channel
  <2>3. 1 .. ccScope.proc \subseteq Procs
    BY CcAssumption DEF Channel, ChannelTyped, Procs
  <2> QED BY <2>1, <2>2, <2>3 DEF CcNext
<1> QED BY <1>1, <1>2, PTL DEF CcSpec

-----------------------------------------------------------------------------
(* Heartbeats.                                                             *)

ReadyFrames == {f \in UpFrames : f.kind = "ready"}
AgreeFrames == {f \in UpFrames : Agrees(f)}

(* After the first k frames the last of F says g; v if there is none.      *)
Latest(F, v, up, k, g) ==
  \/ \E j \in 1 .. k : up[j] \in F /\ up[j].gen = g /\ \A i \in 1 .. k : j < i => up[i] \notin F
  \/ v = g /\ \A i \in 1 .. k : up[i] \notin F

(* A frame added at the end does not change what the frames ahead of position k say. *)
LEMMA LatestAppend ==
  ASSUME NEW F, NEW v, NEW up \in Seq(UpFrames), NEW f \in UpFrames, NEW k \in 0 .. Len(up), NEW g, Latest(F, v, up, k, g)
  PROVE  Latest(F, v, Append(up, f), k, g)
<1>1. \A i \in 1 .. k : Append(up, f)[i] = up[i]
  OBVIOUS
<1> QED BY <1>1 DEF Latest

(* Nor does an added frame of another kind change what the whole stream says. *)
LEMMA LatestKeep ==
  ASSUME NEW F, NEW v, NEW up \in Seq(UpFrames), NEW f \in UpFrames, f \notin F, NEW g, Latest(F, v, up, Len(up), g)
  PROVE  Latest(F, v, Append(up, f), Len(up) + 1, g)
<1> DEFINE n == Len(up)
           upf == Append(up, f)
<1>1. n \in Nat /\ upf[n + 1] = f /\ \A i \in 1 .. n : upf[i] = up[i]
  OBVIOUS
<1>2. \A i \in 1 .. n : i \in 1 .. (n + 1)
  BY <1>1
<1>3. \A i \in 1 .. (n + 1) : i \in 1 .. n \/ i = n + 1
  BY <1>1
<1> HIDE DEF n, upf
<1>4. Latest(F, v, upf, n + 1, g)
  <2>1. CASE v = g /\ \A i \in 1 .. n : up[i] \notin F
    BY <2>1, <1>1, <1>3 DEF Latest
  <2>2. ASSUME NEW j \in 1 .. n, up[j] \in F, up[j].gen = g, \A i \in 1 .. n : j < i => up[i] \notin F
        PROVE  Latest(F, v, upf, n + 1, g)
    <3>1. j \in 1 .. (n + 1) /\ upf[j] \in F /\ upf[j].gen = g
      BY <2>2, <1>1, <1>2
    <3>2. \A i \in 1 .. (n + 1) : j < i => upf[i] \notin F
      BY <2>2, <1>1, <1>3
    <3> QED BY <3>1, <3>2 DEF Latest
  <2> QED BY <2>1, <2>2 DEF Latest, n
<1> QED BY <1>4 DEF n, upf

(* An added frame of the kind decides what the whole stream says. *)
LEMMA LatestNew ==
  ASSUME NEW F, NEW v, NEW up \in Seq(UpFrames), NEW f \in F
  PROVE  Latest(F, v, Append(up, f), Len(up) + 1, f.gen)
<1> DEFINE n == Len(up)
           upf == Append(up, f)
<1>1. n \in Nat /\ upf[n + 1] = f
  OBVIOUS
<1>2. n + 1 \in 1 .. (n + 1) /\ \A i \in 1 .. (n + 1) : ~(n + 1 < i)
  BY <1>1
<1> HIDE DEF n, upf
<1>3. Latest(F, v, upf, n + 1, f.gen)
  BY <1>1, <1>2 DEF Latest
<1> QED BY <1>3 DEF n, upf

(* Reading the first frame moves what it said from the stream to the reader. *)
LEMMA LatestTail ==
  ASSUME NEW F, NEW v, NEW w, NEW up \in Seq(UpFrames), up # <<>>, NEW k \in 1 .. Len(up), NEW g, Latest(F, v, up, k, g),
         (Head(up) \notin F /\ w = v) \/ (Head(up) \in F /\ w = Head(up).gen)
  PROVE  Latest(F, w, Tail(up), k - 1, g)
<1> DEFINE rest == Tail(up)
           h == k - 1
<1>1. k \in Nat /\ h \in Nat /\ k = h + 1 /\ Head(up) = up[1] /\ \A i \in 1 .. h : rest[i] = up[i + 1]
  OBVIOUS
<1>2. 1 \in 1 .. k /\ \A i \in 1 .. h : i + 1 \in 1 .. k /\ 1 < i + 1
  BY <1>1
<1> HIDE DEF rest, h
<1>3. CASE \A i \in 1 .. k : up[i] \notin F
  <2>1. v = g /\ w = v
    BY <1>1, <1>2, <1>3 DEF Latest
  <2>2. Latest(F, w, rest, h, g)
    BY <1>1, <1>2, <1>3, <2>1 DEF Latest
  <2> QED BY <2>2 DEF rest, h
<1>4. ASSUME NEW j \in 1 .. k, up[j] \in F, up[j].gen = g, \A i \in 1 .. k : j < i => up[i] \notin F
      PROVE  Latest(F, w, rest, h, g)
  <2>1. CASE j = 1
    <3>1. w = g
      BY <1>1, <1>4, <2>1
    <3>2. \A i \in 1 .. h : rest[i] \notin F
      BY <1>1, <1>2, <1>4, <2>1
    <3> QED BY <3>1, <3>2 DEF Latest
  <2>2. CASE j # 1
    <3>1. j - 1 \in 1 .. h /\ rest[j - 1] = up[j]
      BY <1>1, <2>2
    <3>2. \A i \in 1 .. h : j - 1 < i => j < i + 1
      BY <1>1, <2>2
    <3>3. \A i \in 1 .. h : j - 1 < i => rest[i] \notin F
      BY <1>1, <1>2, <1>4, <3>2
    <3> QED BY <1>4, <3>1, <3>3 DEF Latest
  <2> QED BY <2>1, <2>2
<1> QED BY <1>3, <1>4 DEF Latest, rest, h

(* A heartbeat under way names what the host will then be believed to      *)
(* serve, or to have prepared when it serves nothing yet.                  *)
Named(s, up, i) ==
  /\ up[i].gen # 0
  /\ \/ Latest(ReadyFrames, s.active, up, i - 1, up[i].gen)
     \/ /\ s.active = 0 /\ \A j \in 1 .. (i - 1) : up[j] \notin ReadyFrames
        /\ Latest(AgreeFrames, s.cand, up, i - 1, up[i].gen)

(* With all frames read, the server has what the host has.                 *)
InStep(s, c, up) ==
  /\ c.active # 0 => Latest(ReadyFrames, s.active, up, Len(up), c.active)
  /\ c.active = 0 => s.active = 0 /\ \A j \in 1 .. Len(up) : up[j] \notin ReadyFrames
  /\ c.active = 0 /\ c.cand # 0 => Latest(AgreeFrames, s.cand, up, Len(up), c.cand)
  /\ \A i \in 1 .. Len(up) : up[i].kind = "heartbeat" => Named(s, up, i)

Heard(s, c, up) ==
  /\ s.delta # 0 => s.active # 0
  /\ c.state = "new" => c.cand = 0
  /\ ~Open(s) => up = <<>>
  /\ Open(s) => InStep(s, c, up)

HeardAll == \A p \in Procs : Heard(ccServer[p], ccClient[p], ccUp[p])

(* Empty streams hold no heartbeat. *)
LEMMA HeardInit == CcInit => HeardAll
<1> SUFFICES ASSUME CcInit, NEW p \in Procs PROVE Heard(ccServer[p], ccClient[p], ccUp[p])
  BY DEF HeardAll
<1>1. ccServer[p] = NoServerSession /\ ccClient[p] = NoClientSession /\ ccUp[p] = <<>>
  BY DEF CcInit
<1> QED BY <1>1 DEF Heard, Open, NoServerSession, NoClientSession

(* The host sends something that is neither a readiness nor an agreement,  *)
(* and keeps or drops its candidate.                                       *)
LEMMA InStepSends ==
  ASSUME NEW s, NEW c, NEW d, NEW up \in Seq(UpFrames), NEW f \in UpFrames, InStep(s, c, up),
         IF f \in ReadyFrames THEN d.active = f.gen /\ d.active # 0 ELSE d.active = c.active,
         f \notin AgreeFrames => d.active # 0 \/ d.cand \in {0, c.cand},
         f \in AgreeFrames => d.active # 0 \/ d.cand = f.gen,
         f.kind = "heartbeat" => f.gen # 0 /\ f.gen = (IF c.active # 0 THEN c.active ELSE c.cand)
  PROVE  InStep(s, d, Append(up, f))
<1> DEFINE n == Len(up)
           upf == Append(up, f)
<1>1. n \in Nat /\ Len(upf) = n + 1 /\ upf[n + 1] = f /\ (n + 1) - 1 = n /\ n \in 0 .. Len(up)
      /\ \A i \in 1 .. n : upf[i] = up[i]
  OBVIOUS
<1>2. \A i \in 1 .. (n + 1) : i \in 1 .. n \/ i = n + 1
  BY <1>1
<1>3. \A F, v, g : Latest(F, v, up, Len(up), g) => Latest(F, v, upf, n, g)
  BY <1>1, LatestAppend
<1>4. \A F, v, g : f \notin F /\ Latest(F, v, up, Len(up), g) => Latest(F, v, upf, n + 1, g)
  BY LatestKeep
<1>5. \A F, v : f \in F => Latest(F, v, upf, n + 1, f.gen)
  BY LatestNew
<1>6. \A i \in 1 .. n : up[i].kind = "heartbeat" => Named(s, upf, i)
  <2> SUFFICES ASSUME NEW i \in 1 .. n, up[i].kind = "heartbeat" PROVE Named(s, upf, i)
    OBVIOUS
  <2>1. Named(s, up, i) /\ upf[i] = up[i] /\ i - 1 \in 0 .. Len(up)
    BY <1>1 DEF InStep
  <2>2. \A F, v, g : Latest(F, v, up, i - 1, g) => Latest(F, v, upf, i - 1, g)
    BY <2>1, LatestAppend
  <2>3. \A j \in 1 .. (i - 1) : upf[j] = up[j]
    BY <1>1
  <2> HIDE DEF upf
  <2> QED BY <2>1, <2>2, <2>3 DEF Named
<1> HIDE DEF n, upf
<1>7. d.active # 0 => Latest(ReadyFrames, s.active, upf, n + 1, d.active)
  BY <1>4, <1>5 DEF InStep
<1>8. d.active = 0 => c.active = 0 /\ f \notin ReadyFrames
  OBVIOUS
<1>9. d.active = 0 => s.active = 0 /\ \A j \in 1 .. (n + 1) : upf[j] \notin ReadyFrames
  BY <1>1, <1>2, <1>8 DEF InStep, n
<1>10. d.active = 0 /\ d.cand # 0 => Latest(AgreeFrames, s.cand, upf, n + 1, d.cand)
  BY <1>4, <1>5, <1>8 DEF InStep
<1>11. f.kind = "heartbeat" => Named(s, upf, n + 1)
  <2> SUFFICES ASSUME f.kind = "heartbeat" PROVE Named(s, upf, n + 1)
    OBVIOUS
  <2>1. upf[n + 1].gen = f.gen /\ f.gen # 0
    BY <1>1
  <2>2. CASE c.active # 0
    BY <1>1, <1>3, <2>1, <2>2 DEF InStep, Named
  <2>3. CASE c.active = 0
    <3>1. s.active = 0 /\ \A j \in 1 .. n : upf[j] \notin ReadyFrames
      BY <1>1, <2>3 DEF InStep, n
    <3>2. Latest(AgreeFrames, s.cand, upf, n, f.gen)
      BY <1>3, <2>1, <2>3 DEF InStep
    <3> QED BY <1>1, <2>1, <3>1, <3>2 DEF Named
  <2> QED BY <2>2, <2>3
<1>12. \A i \in 1 .. Len(upf) : upf[i].kind = "heartbeat" => Named(s, upf, i)
  BY <1>1, <1>2, <1>6, <1>11
<1>13. InStep(s, d, upf)
  BY <1>1, <1>7, <1>9, <1>10, <1>12 DEF InStep
<1> QED BY <1>13 DEF upf

(* A host that only gives up its candidate stays in step. *)
LEMMA InStepClient ==
  ASSUME NEW s, NEW c, NEW d, NEW up, InStep(s, c, up), d.active = c.active, d.cand \in {0, c.cand}
  PROVE  InStep(s, d, up)
BY DEF InStep

(* What the server has after a frame it accepts, when it serves nothing    *)
(* yet: the generation of an agreement becomes its candidate.              *)
LEMMA FrameHears ==
  ASSUME NEW s \in ServerSessions, NEW f \in UpFrames, s.delta # 0 => s.active # 0,
         AfterFrame(s, f).state # "closed"
  PROVE  /\ AfterFrame(s, f).delta # 0 => AfterFrame(s, f).active # 0
         /\ AfterFrame(s, f).active = (IF f.kind = "ready" THEN f.gen ELSE s.active)
         /\ s.active = 0 /\ f.kind # "ready" =>
              AfterFrame(s, f).cand = (IF Agrees(f) THEN f.gen ELSE s.cand)
<1>1. s.active \in Nat /\ s.delta \in Nat /\ s.pend \in Nat /\ s.cand \in Nat
  BY GensAreNaturals DEF ServerSessions
<1>2. CASE f.kind \in {"ack_snapshot", "ack_delta"}
  <2>1. AfterFrame(s, f) = AfterAck(s, f) /\ AfterAck(s, f).state # "closed"
    BY <1>2 DEF AfterFrame
  <2>2. ASSUME NEW g
        PROVE  Staged(s, g).delta = 0 /\ Staged(s, g).active = s.active /\ Staged(s, g).cand = g
    BY DEF Staged, ServerSessions
  <2>3. CASE s.pend # 0 /\ f.kind = "ack_snapshot" /\ f.gen = s.pend /\ f.status \in {"applied", "duplicate"}
    <3>1. AfterAck(s, f) = Staged(s, s.pend) /\ Agrees(f)
      BY <2>3 DEF AfterAck, Agrees
    <3> QED BY <1>2, <2>1, <2>2, <2>3, <3>1
  <2>4. CASE s.pend = 0 /\ s.delta # 0 /\ f.kind = "ack_delta" /\ f.gen = s.delta
             /\ f.status \in {"applied", "duplicate"} /\ s.delta = s.active + 1
    <3>1. AfterAck(s, f) = Staged(s, s.delta) /\ s.active # 0
      BY <2>4 DEF AfterAck
    <3> QED BY <1>2, <2>1, <2>2, <3>1
  <2>5. CASE s.pend = 0 /\ s.delta = 0 /\ f.status = "duplicate" /\ f.gen = (IF s.cand # 0 THEN s.cand ELSE s.active)
    <3>1. AfterAck(s, f) = s
      BY <2>5 DEF AfterAck
    <3> QED BY <1>2, <2>1, <2>5, <3>1
  <2>6. CASE AfterAck(s, f) = ClosedServer(s)
    BY <2>1, <2>6, ClosedServerIs
  <2> QED BY <2>3, <2>4, <2>5, <2>6 DEF AfterAck
<1>3. CASE f.kind = "ready"
  <2>1. AfterFrame(s, f) = AfterReadiness(s, f.gen) /\ AfterFrame(s, f) # ClosedServer(s)
    BY <1>3, ClosedServerIs DEF AfterFrame
  <2> DEFINE moved == [s EXCEPT !.active = f.gen, !.cand = 0, !.ready = f.gen, !.state = "ready"]
  <2>2. moved.active = f.gen
    BY DEF ServerSessions
  <2>3. AfterFrame(s, f) = moved /\ f.gen # 0
    BY <2>1 DEF AfterReadiness
  <2> HIDE DEF moved
  <2> QED BY <1>3, <2>2, <2>3
<1>4. CASE f.kind = "heartbeat"
  <2>1. AfterFrame(s, f) = s /\ ~Agrees(f)
    BY <1>4, ClosedServerIs DEF AfterFrame, AfterHeartbeat, Agrees
  <2> QED BY <1>4, <2>1
<1>5. CASE f.kind = "drain_ack"
  <2> DEFINE told == [s EXCEPT !.drained = f.status]
  <2>1. told.active = s.active /\ told.cand = s.cand /\ told.delta = s.delta
    BY DEF ServerSessions
  <2>2. (AfterFrame(s, f) = s \/ AfterFrame(s, f) = told) /\ ~Agrees(f)
    BY <1>5, ClosedServerIs DEF AfterFrame, AfterDrainAck, Agrees
  <2> HIDE DEF told
  <2> QED BY <1>5, <2>1, <2>2
<1> QED BY <1>2, <1>3, <1>4, <1>5 DEF UpFrames, FrameKinds

(* Reading a frame keeps the two ends in step.                             *)
LEMMA InStepReads ==
  ASSUME NEW s, NEW t, NEW c, NEW up \in Seq(UpFrames), up # <<>>, InStep(s, c, up),
         t.active = (IF Head(up).kind = "ready" THEN Head(up).gen ELSE s.active),
         s.active = 0 /\ Head(up).kind # "ready" =>
            t.cand = (IF Agrees(Head(up)) THEN Head(up).gen ELSE s.cand)
  PROVE  InStep(t, c, Tail(up))
<1> DEFINE f == Head(up)
           rest == Tail(up)
           n == Len(up)
<1>1. /\ n \in Nat \ {0} /\ Len(rest) = n - 1 /\ f \in UpFrames /\ f = up[1] /\ 1 \in 1 .. n /\ n \in 1 .. Len(up)
      /\ \A i \in 1 .. (n - 1) : i + 1 \in 1 .. n /\ rest[i] = up[i + 1]
  OBVIOUS
<1>2. (f \in ReadyFrames <=> f.kind = "ready") /\ (f \in AgreeFrames <=> Agrees(f))
  BY <1>1 DEF ReadyFrames, AgreeFrames
<1>3. \A k \in 1 .. n : \A g : Latest(ReadyFrames, s.active, up, k, g) => Latest(ReadyFrames, t.active, rest, k - 1, g)
  BY <1>2, LatestTail
<1>4. s.active = 0 /\ f.kind # "ready" =>
        \A k \in 1 .. n : \A g : Latest(AgreeFrames, s.cand, up, k, g) => Latest(AgreeFrames, t.cand, rest, k - 1, g)
  BY <1>2, LatestTail
<1> HIDE DEF f, rest, n
<1>5. c.active # 0 => Latest(ReadyFrames, t.active, rest, n - 1, c.active)
  BY <1>1, <1>3 DEF InStep, n
<1>6. c.active = 0 => s.active = 0 /\ f.kind # "ready" /\ \A j \in 1 .. n : up[j] \notin ReadyFrames
  BY <1>1, <1>2 DEF InStep, n
<1>7. c.active = 0 => t.active = 0 /\ \A j \in 1 .. (n - 1) : rest[j] \notin ReadyFrames
  BY <1>1, <1>6 DEF f
<1>8. c.active = 0 /\ c.cand # 0 => Latest(AgreeFrames, t.cand, rest, n - 1, c.cand)
  BY <1>1, <1>4, <1>6 DEF InStep, n
<1>9. ASSUME NEW i \in 1 .. (n - 1), rest[i].kind = "heartbeat"
      PROVE  Named(t, rest, i)
  <2>1. /\ i + 1 \in 1 .. n /\ rest[i] = up[i + 1] /\ (i + 1) - 1 = i /\ i \in 1 .. n /\ 1 \in 1 .. i
        /\ \A j \in 1 .. (i - 1) : rest[j] = up[j + 1] /\ j + 1 \in 1 .. i
    BY <1>1
  <2>2. Named(s, up, i + 1)
    BY <1>9, <2>1 DEF InStep, n
  <2>3. CASE Latest(ReadyFrames, s.active, up, i, up[i + 1].gen)
    BY <1>3, <2>1, <2>2, <2>3 DEF Named
  <2>4. CASE /\ s.active = 0 /\ \A j \in 1 .. i : up[j] \notin ReadyFrames
             /\ Latest(AgreeFrames, s.cand, up, i, up[i + 1].gen)
    <3>1. f.kind # "ready"
      BY <1>1, <1>2, <2>1, <2>4
    <3>2. t.active = 0
      BY <2>4, <3>1 DEF f
    <3>3. \A j \in 1 .. (i - 1) : rest[j] \notin ReadyFrames
      BY <2>1, <2>4
    <3>4. Latest(AgreeFrames, t.cand, rest, i - 1, rest[i].gen)
      BY <1>4, <2>1, <2>4, <3>1
    <3> QED BY <2>1, <2>2, <3>2, <3>3, <3>4 DEF Named
  <2> QED BY <2>1, <2>2, <2>3, <2>4 DEF Named
<1>10. InStep(t, c, rest)
  BY <1>1, <1>5, <1>7, <1>8, <1>9 DEF InStep
<1> QED BY <1>10 DEF rest

(* A step that touches one session only has that session to account for. *)
LEMMA SteadyHeard ==
  ASSUME HeardAll, NEW p \in Procs, Untouched(p), Heard(ccServer'[p], ccClient'[p], ccUp'[p])
  PROVE  HeardAll'
BY DEF HeardAll, Untouched

(* A server that keeps both generations stays in step. *)
LEMMA InStepServer ==
  ASSUME NEW s, NEW t, NEW c, NEW up, InStep(s, c, up), t.active = s.active, t.cand = s.cand
  PROVE  InStep(t, c, up)
BY DEF InStep, Named

(* Offering, draining and closing leave both ends in step.                 *)
LEMMA ServerHeard ==
  ASSUME Channel, HeardAll, NEW p \in Procs, ServerAccepts(p) \/ Offered(p) \/ closeServer(p)
  PROVE  HeardAll'
<1> DEFINE s == ccServer[p]
           c == ccClient[p]
           t == ccServer'[p]
<1>1. /\ s \in ServerSessions /\ ccServer \in [Procs -> ServerSessions] /\ ccClient \in [Procs -> ClientSessions]
      /\ c \in ClientSessions /\ ccUp \in [Procs -> Seq(UpFrames)] /\ Heard(s, c, ccUp[p]) /\ Joined(s, c)
  BY DEF Channel, ChannelTyped, HeardAll
<1>2. CASE ServerAccepts(p)
  <2>1. /\ t.state = "awaiting_snapshot" /\ t.active = s.active /\ t.cand = s.cand /\ t.delta = s.delta
        /\ \A q \in Procs : q # p => ccServer'[q] = ccServer[q]
    BY <1>1, <1>2 DEF ServerAccepts, ServerSessions
  <2>2. /\ ccClient'[p].active = c.active /\ ccClient'[p].cand = c.cand /\ ccClient'[p].state = "awaiting_snapshot"
        /\ \A q \in Procs : q # p => ccClient'[q] = ccClient[q]
    BY <1>1, <1>2 DEF ServerAccepts, ClientSessions
  <2>3. s.state = "new" /\ ccUp' = ccUp
    BY <1>2 DEF ServerAccepts
  <2>4. s.active = 0 /\ c.active = 0 /\ c.cand = 0 /\ ccUp[p] = <<>>
    BY <1>1, <2>3 DEF Joined, Heard, Open
  <2>5. Len(ccUp[p]) = 0
    BY <2>4
  <2>6. \A i \in 1 .. Len(ccUp[p]) : FALSE
    BY <2>5
  <2>7. InStep(t, ccClient'[p], ccUp'[p])
    BY <2>1, <2>2, <2>3, <2>4, <2>6 DEF InStep
  <2>8. Untouched(p)
    BY <2>1, <2>2, <2>3 DEF Untouched
  <2> HIDE DEF t
  <2>9. Heard(t, ccClient'[p], ccUp'[p])
    BY <1>1, <2>1, <2>2, <2>3, <2>4, <2>7 DEF Heard, Open
  <2> QED BY <2>8, <2>9, SteadyHeard DEF t
<1>3. CASE closeServer(p)
  <2>1. ClosedServer(s).state = "closed" /\ ClosedServer(s).delta = 0
    BY DEF ClosedServer, NoServerSession
  <2>2. t = ClosedServer(s) /\ ccUp'[p] = <<>> /\ ccClient' = ccClient /\ Untouched(p)
    BY <1>1, <1>3 DEF closeServer, Untouched
  <2>3. Heard(t, c, ccUp'[p])
    BY <1>1, <2>1, <2>2 DEF Heard, Open
  <2> QED BY <2>2, <2>3, SteadyHeard
<1>4. CASE Offered(p)
  <2>2. /\ Open(s) /\ Open(t) /\ t.active = s.active /\ t.cand = s.cand /\ (t.delta # 0 => t.active # 0)
        /\ Untouched(p) /\ ccUp' = ccUp /\ ccClient' = ccClient
    BY <1>4 DEF Offered
  <2> HIDE DEF t
  <2>4. InStep(t, c, ccUp[p])
    BY <1>1, <2>2, InStepServer DEF Heard
  <2>5. Heard(t, c, ccUp[p])
    BY <1>1, <2>2, <2>4 DEF Heard
  <2> QED BY <2>2, <2>5, SteadyHeard DEF t
<1> QED BY <1>2, <1>3, <1>4

(* Handling a frame keeps HeardAll. *)
LEMMA HandleHeard ==
  ASSUME Channel, HeardAll, NEW p \in Procs, handleFrame(p)
  PROVE  HeardAll'
<1> DEFINE s == ccServer[p]
           c == ccClient[p]
           up == ccUp[p]
           f == Head(up)
           t == AfterFrame(s, f)
<1>1. /\ s \in ServerSessions /\ ccServer \in [Procs -> ServerSessions] /\ ccUp \in [Procs -> Seq(UpFrames)]
      /\ up \in Seq(UpFrames) /\ up # <<>> /\ Heard(s, c, up) /\ Ordered(s, c, up) /\ Open(s)
  BY DEF Channel, ChannelTyped, HeardAll, handleFrame, ServerOpen, Open
<1>2. CASE closeServer(p)
  BY <1>2, ServerHeard
<1>3. CASE /\ t.state # "closed" /\ ccServer' = [ccServer EXCEPT ![p] = t]
           /\ ccUp' = [ccUp EXCEPT ![p] = Tail(@)] /\ ccClient' = ccClient
  <2>1. ccServer'[p] = t /\ ccUp'[p] = Tail(up) /\ ccClient'[p] = c /\ Untouched(p)
    BY <1>1, <1>3 DEF Untouched
  <2>2. f \in UpFrames /\ f = up[1] /\ 1 \in 1 .. Len(up) /\ s.state # "new"
    BY <1>1 DEF Open
  <2>3. (Agrees(f) => s.active <= f.gen) /\ (s.cand # 0 => s.active <= s.cand)
    BY <1>1, <2>2 DEF Ordered
  <2>4. s.delta # 0 => s.active # 0
    BY <1>1 DEF Heard
  <2> HIDE DEF s, f
  <2>5. t.state # "new"
    BY <1>1, <1>3, <2>2, <2>3, FrameMoves
  <2>6. /\ t.delta # 0 => t.active # 0
        /\ t.active = (IF f.kind = "ready" THEN f.gen ELSE s.active)
        /\ s.active = 0 /\ f.kind # "ready" => t.cand = (IF Agrees(f) THEN f.gen ELSE s.cand)
    BY <1>1, <1>3, <2>2, <2>4, FrameHears
  <2> HIDE DEF t
  <2>7. InStep(t, c, Tail(up))
    BY <1>1, <2>6, InStepReads DEF Heard, f
  <2>8. Heard(t, c, Tail(up))
    BY <1>1, <1>3, <2>5, <2>6, <2>7 DEF Heard, Open
  <2> QED BY <2>1, <2>8, SteadyHeard
<1> QED BY <1>2, <1>3 DEF handleFrame

(* A step of the host keeps HeardAll. *)
LEMMA HostHeard ==
  ASSUME Channel, DrainsAgree, HeardAll, NEW p \in Procs, HostSteps(p)
  PROVE  HeardAll'
<1> DEFINE s == ccServer[p]
           c == ccClient[p]
           up == ccUp[p]
<1>1. /\ ccClient \in [Procs -> ClientSessions] /\ ccUp \in [Procs -> Seq(UpFrames)] /\ up \in Seq(UpFrames)
      /\ Heard(s, c, up) /\ (c.drain = 0 => c.drained = "none")
  BY DEF Channel, ChannelTyped, HeardAll, DrainsAgree, Drains
<1>2. PICK d, f : /\ ccServer' = ccServer /\ ccClient' = [ccClient EXCEPT ![p] = d] /\ HostMove(c, d, f)
                  /\ Replies(p, f) \/ (ccUp' = ccUp /\ d.active = c.active /\ d.cand = 0)
  BY <1>1, HostMoves
<1>3. f \in UpFrames /\ d.state # "new" /\ (f \in ReadyFrames <=> f.kind = "ready") /\ (f \in AgreeFrames <=> Agrees(f))
  BY <1>2 DEF HostMove, ReadyFrames, AgreeFrames
<1>4. ccClient'[p] = d /\ ccServer'[p] = s
  BY <1>1, <1>2
<1>5. Untouched(p)
  <2>1. \A q \in Procs : q # p => ccUp'[q] = ccUp[q]
    BY <1>1, <1>2, RepliesUp
  <2> QED BY <1>1, <1>2, <2>1 DEF Untouched
<1>6. CASE Replies(p, f) /\ Open(s)
  <2>1. ccUp'[p] = Append(up, f) /\ InStep(s, c, up)
    BY <1>1, <1>6 DEF Replies, ServerOpen, Open, Heard
  <2>2. InStep(s, d, Append(up, f))
    BY <1>1, <1>2, <1>3, <2>1, InStepSends DEF HostMove
  <2>3. Heard(s, d, Append(up, f))
    BY <1>1, <1>3, <1>6, <2>2 DEF Heard
  <2> QED BY <1>4, <1>5, <2>1, <2>3, SteadyHeard
<1>7. CASE ccUp' = ccUp /\ (Open(s) => d.active = c.active /\ d.cand = 0)
  <2>1. Heard(s, d, up)
    BY <1>1, <1>3, <1>7, InStepClient DEF Heard
  <2> QED BY <1>4, <1>5, <1>7, <2>1, SteadyHeard
<1>8. Replies(p, f) /\ ~Open(s) => ccUp' = ccUp
  BY DEF Replies, ServerOpen, Open
<1> QED BY <1>2, <1>6, <1>7, <1>8

(* Every step of the channel keeps HeardAll. *)
LEMMA HeardNext ==
  ASSUME Channel, DrainsAgree, HeardAll, [CcNext]_ccVars
  PROVE  HeardAll'
<1>1. CASE UNCHANGED ccVars \/ ConfigurationAdvances
  BY <1>1 DEF ccVars, ConfigurationAdvances, HeardAll
<1>2. ASSUME NEW p \in Procs, SessionSteps(p)
      PROVE  HeardAll'
  BY <1>2, Offers, ServerHeard, HandleHeard, HostHeard DEF SessionSteps, HostSteps, ServerCloses
<1>3. 1 .. ccScope.proc \subseteq Procs
  BY CcAssumption DEF Channel, ChannelTyped, Procs
<1> QED BY <1>1, <1>2, <1>3 DEF CcNext

(* A heartbeat the host sent in order never withdraws readiness: when the  *)
(* server reads it, it names the generation the server then expects,       *)
(* through any number of cutovers, failed activations and frames in flight *)
(* (ClientSession.Heartbeat against ServerSession.HandleHeartbeat).        *)
THEOREM HeartbeatsAreExpectedAlways == CcSpec => []HeartbeatsAreExpected
<1>1. Channel /\ HeardAll => HeartbeatsAreExpected
  <2> SUFFICES ASSUME Channel, HeardAll, NEW p \in Procs,
                      ServerOpen(p), ccUp[p] # <<>>, Head(ccUp[p]).kind = "heartbeat"
               PROVE  Head(ccUp[p]).gen = ExpectedHeartbeat(ccServer[p])
    BY DEF HeartbeatsAreExpected
  <2> DEFINE s == ccServer[p]
             up == ccUp[p]
  <2>1. up \in Seq(UpFrames) /\ InStep(s, ccClient[p], up)
    BY DEF Channel, ChannelTyped, HeardAll, Heard, Open, ServerOpen
  <2>2. Head(up) = up[1] /\ 1 \in 1 .. Len(up) /\ 1 - 1 = 0 /\ \A j \in 1 .. 0 : FALSE
    BY <2>1
  <2>3. Named(s, up, 1)
    BY <2>1, <2>2 DEF InStep
  <2>4. up[1].gen # 0 /\ (s.active = up[1].gen \/ (s.active = 0 /\ s.cand = up[1].gen))
    BY <2>2, <2>3 DEF Named, Latest
  <2> QED BY <2>2, <2>4 DEF ExpectedHeartbeat
<1>2. CcInit => Channel /\ DrainsAgree /\ HeardAll
  BY ChannelInit, DrainsInit, HeardInit
<1>3. Channel /\ DrainsAgree /\ HeardAll /\ [CcNext]_ccVars => (Channel /\ DrainsAgree /\ HeardAll)'
  BY ChannelNext, DrainsNext, HeardNext
<1> QED BY <1>1, <1>2, <1>3, PTL DEF CcSpec
================================================================================
