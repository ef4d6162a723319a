----------------------- MODULE ConnectorChannelProofs -----------------------
(***************************************************************************)
(* The control channel implements ConfigurationCutover, for any number of  *)
(* process generations, configuration generations and frames in flight.    *)
(*                                                                         *)
(* The mapping needs an invariant about the stream from the host: a        *)
(* readiness in it is of a generation the host has reached, and an         *)
(* acknowledgement the server may stage from is neither behind what the    *)
(* server believes nor behind a readiness sent before it.  So whatever the *)
(* server stages and then learns moves it forward, and not past the host.  *)
(***************************************************************************)
EXTENDS ConnectorChannel, TLAPS

(* The part of a session's type that the cutover needs.                    *)
Gens == 0 .. CcMaxGen
Statuses == DrainStatuses \union {"", "applied", "duplicate", "snapshot_required"}
ServerSessions ==
  [state : SessionStates, pend : Gens, delta : Gens, active : Gens, cand : Gens, ready : Gens, drain : Gens,
   drained : Statuses]
ClientSessions ==
  [state : SessionStates, active : Gens, cand : Gens, ready : Gens, needs : BOOLEAN, drain : Gens, drained : Statuses]
DownFrames == [kind : {"snapshot", "delta", "drain"}, gen : ConfigGens, status : Statuses]
FrameKinds == {"ack_snapshot", "ack_delta", "ready", "heartbeat", "drain_ack"}
UpFrames == [kind : FrameKinds, gen : Gens, status : Statuses]

ChannelTyped ==
  /\ ccScope \in CcScopes /\ ccLatest \in ConfigGens /\ ccRegistry \in 0 .. CcMaxProc
  /\ ccServer \in [Procs -> ServerSessions] /\ ccClient \in [Procs -> ClientSessions]
  /\ ccDown \in [Procs -> Seq(DownFrames)] /\ ccUp \in [Procs -> Seq(UpFrames)]

(* A session that was not accepted serves nothing at either end.           *)
Joined(s, c) ==
  /\ s.state = "new" => s.active = 0 /\ c.state = "new"
  /\ c.state = "new" => c.active = 0

(* An acknowledgement after which the server may stage what it offered.    *)
Agrees(f) == f.kind = "ack_snapshot" /\ f.status \in {"applied", "duplicate"}

(* The server follows the host, a candidate is ahead of what it replaces,  *)
(* and along the stream an acknowledgement is never behind a readiness     *)
(* that was sent before it.                                                *)
Ordered(s, c, up) ==
  /\ s.active <= c.active
  /\ c.cand # 0 => c.active < c.cand
  /\ s.cand # 0 => s.active <= s.cand
  /\ \A i \in 1 .. Len(up) :
       /\ up[i].kind = "ready" => up[i].gen <= c.active
       /\ Agrees(up[i]) => s.active <= up[i].gen
       /\ Agrees(up[i]) => \A j \in 1 .. Len(up) : j < i /\ up[j].kind = "ready" => up[j].gen <= up[i].gen

Channel ==
  /\ ChannelTyped
  /\ \A p \in Procs : Joined(ccServer[p], ccClient[p]) /\ Ordered(ccServer[p], ccClient[p], ccUp[p])

(* The invariant of the channel holds initially. *)
LEMMA ChannelInit == CcInit => Channel
<1> SUFFICES ASSUME CcInit PROVE Channel
  OBVIOUS
<1> USE CcAssumption
<1>1. 0 \in Gens /\ 1 \in ConfigGens
  BY DEF Gens, ConfigGens
<1>2. NoServerSession \in ServerSessions /\ NoServerSession.state = "new" /\ NoServerSession.active = 0
      /\ NoServerSession.cand = 0
  BY <1>1 DEF NoServerSession, ServerSessions, SessionStates, Statuses, DrainStatuses
<1>3. NoClientSession \in ClientSessions /\ NoClientSession.state = "new" /\ NoClientSession.active = 0
      /\ NoClientSession.cand = 0
  BY <1>1 DEF NoClientSession, ClientSessions, SessionStates, Statuses, DrainStatuses
<1>4. ChannelTyped
  BY <1>1, <1>2, <1>3 DEF CcInit, ChannelTyped
<1>5. ASSUME NEW p \in Procs PROVE Joined(ccServer[p], ccClient[p]) /\ Ordered(ccServer[p], ccClient[p], ccUp[p])
  <2>1. ccServer[p] = NoServerSession /\ ccClient[p] = NoClientSession /\ ccUp[p] = <<>>
    BY DEF CcInit
  <2>2. Len(ccUp[p]) = 0
    BY <2>1
  <2> QED BY <2>1, <2>2, <1>2, <1>3 DEF Joined, Ordered
<1> QED BY <1>4, <1>5 DEF Channel

-----------------------------------------------------------------------------
(* The stream from the host.                                               *)

(* Generations are natural numbers, and those of configurations are not 0. *)
LEMMA GensAreNaturals ==
  /\ \A g \in Gens : g \in Nat
  /\ \A g \in ConfigGens : g \in Gens /\ g # 0
BY CcAssumption DEF Gens, ConfigGens

(* Every frame in a stream names a generation. *)
LEMMA FramesHaveGens == ASSUME NEW up \in Seq(UpFrames) PROVE \A i \in 1 .. Len(up) : up[i].gen \in Nat
<1>1. \A i \in 1 .. Len(up) : up[i] \in UpFrames
  OBVIOUS
<1> QED BY <1>1, GensAreNaturals DEF UpFrames

(* A frame the host sends: a readiness is of what it serves, an            *)
(* acknowledgement of something not older.                                 *)
LEMMA OrderedAppend ==
  ASSUME NEW s \in ServerSessions, NEW c \in ClientSessions, NEW up \in Seq(UpFrames), NEW f \in UpFrames,
         Ordered(s, c, up), f.kind = "ready" => f.gen <= c.active, Agrees(f) => c.active <= f.gen
  PROVE  Ordered(s, c, Append(up, f))
<1> DEFINE upf == Append(up, f)
<1>1. Len(upf) = Len(up) + 1 /\ Len(up) \in Nat /\ upf[Len(up) + 1] = f /\ \A i \in 1 .. Len(up) : upf[i] = up[i]
  OBVIOUS
<1>2. s.active \in Nat /\ c.active \in Nat /\ f.gen \in Nat /\ \A i \in 1 .. Len(up) : up[i].gen \in Nat
  BY GensAreNaturals, FramesHaveGens DEF ServerSessions, ClientSessions, UpFrames
<1> HIDE DEF upf
<1>3. ASSUME NEW i \in 1 .. Len(upf)
      PROVE  /\ upf[i].kind = "ready" => upf[i].gen <= c.active
             /\ Agrees(upf[i]) => s.active <= upf[i].gen
             /\ Agrees(upf[i]) => \A j \in 1 .. Len(upf) : j < i /\ upf[j].kind = "ready" => upf[j].gen <= upf[i].gen
  <2>1. CASE i \in 1 .. Len(up)
    <3>1. upf[i] = up[i]
      BY <1>1, <2>1
    <3>2. \A j \in 1 .. Len(upf) : j < i => j \in 1 .. Len(up) /\ upf[j] = up[j]
      BY <1>1, <2>1
    <3> QED BY <3>1, <3>2, <2>1 DEF Ordered
  <2>2. CASE i = Len(up) + 1
    <3>1. upf[i] = f
      BY <1>1, <2>2
    <3>2. \A j \in 1 .. Len(upf) : j < i => j \in 1 .. Len(up) /\ upf[j] = up[j]
      BY <1>1, <2>2
    <3>3. s.active <= c.active
      BY DEF Ordered
    <3>4. \A j \in 1 .. Len(up) : up[j].kind = "ready" => up[j].gen <= c.active
      BY DEF Ordered
    <3>5. Agrees(f) => s.active <= f.gen
      BY <3>3, <1>2
    <3>6. ASSUME Agrees(f), NEW j \in 1 .. Len(upf), j < i, upf[j].kind = "ready" PROVE upf[j].gen <= f.gen
      BY <3>2, <3>4, <3>6, <1>2
    <3> QED BY <3>1, <3>5, <3>6
  <2> QED BY <2>1, <2>2, <1>1
<1> QED BY <1>3 DEF Ordered, upf

(* The server takes the next frame off; its new session t is behind the    *)
(* acknowledgements that remain.                                           *)
LEMMA OrderedTail ==
  ASSUME NEW s, NEW t, NEW c, NEW up \in Seq(UpFrames), up # <<>>, Ordered(s, c, up),
         t.active <= c.active, t.cand # 0 => t.active <= t.cand,
         t.active = s.active \/ (Head(up).kind = "ready" /\ t.active = Head(up).gen)
  PROVE  Ordered(t, c, Tail(up))
<1> DEFINE rest == Tail(up)
<1>1. Len(rest) = Len(up) - 1 /\ Len(up) \in Nat /\ Len(up) >= 1 /\ Head(up) = up[1] /\ \A i \in 1 .. Len(rest) : rest[i] = up[i + 1]
  OBVIOUS
<1> HIDE DEF rest
<1>2. ASSUME NEW i \in 1 .. Len(rest)
      PROVE  /\ rest[i].kind = "ready" => rest[i].gen <= c.active
             /\ Agrees(rest[i]) => t.active <= rest[i].gen
             /\ Agrees(rest[i]) => \A j \in 1 .. Len(rest) : j < i /\ rest[j].kind = "ready" => rest[j].gen <= rest[i].gen
  <2>1. i + 1 \in 1 .. Len(up) /\ rest[i] = up[i + 1] /\ 1 \in 1 .. Len(up) /\ 1 < i + 1
    BY <1>1
  <2>2. \A j \in 1 .. Len(rest) : j < i => j + 1 \in 1 .. Len(up) /\ rest[j] = up[j + 1] /\ j + 1 < i + 1
    BY <1>1
  <2>3. Agrees(up[i + 1]) => t.active <= up[i + 1].gen
    BY <2>1, <1>1 DEF Ordered
  <2> QED BY <2>1, <2>2, <2>3 DEF Ordered
<1> QED BY <1>2 DEF Ordered, rest

(* The host moves forward, or changes something else.                      *)
LEMMA OrderedClient ==
  ASSUME NEW s \in ServerSessions, NEW c \in ClientSessions, NEW d \in ClientSessions, NEW up \in Seq(UpFrames),
         Ordered(s, c, up), c.active <= d.active, d.cand # 0 => d.active < d.cand
  PROVE  Ordered(s, d, up)
<1>1. s.active \in Nat /\ c.active \in Nat /\ d.active \in Nat /\ \A i \in 1 .. Len(up) : up[i].gen \in Nat
  BY GensAreNaturals, FramesHaveGens DEF ServerSessions, ClientSessions, UpFrames
<1>2. s.active <= d.active
  BY <1>1 DEF Ordered
<1>3. \A i \in 1 .. Len(up) : up[i].kind = "ready" => up[i].gen <= d.active
  BY <1>1 DEF Ordered
<1> QED BY <1>2, <1>3 DEF Ordered

(* The server changes something else, or closes and drops the stream.      *)
LEMMA OrderedServer ==
  ASSUME NEW s, NEW t, NEW c, NEW up, NEW upt, Ordered(s, c, up), t.active = s.active, t.cand \in {0, s.cand},
         upt = up \/ upt = <<>>
  PROVE  Ordered(t, c, upt)
<1>1. CASE upt = up
  BY <1>1 DEF Ordered
<1>2. CASE upt = <<>>
  <2>1. 1 .. Len(upt) = {}
    BY <1>2
  <2> QED BY <2>1 DEF Ordered
<1> QED BY <1>1, <1>2

-----------------------------------------------------------------------------
(* Steps.                                                                  *)

(* What a step of session p does to the registration, to the generation    *)
(* the host serves and to the one the control plane believes.              *)
Moves(p) ==
  LET s == ccServer[p].active
      s1 == ccServer'[p].active
      c == ccClient[p].active
      c1 == ccClient'[p].active
  IN
  \/ /\ s1 = s /\ c1 = c
     /\ \/ ccRegistry' = ccRegistry
        \/ ccRegistry = p /\ ccRegistry' = 0
        \/ ccRegistry < p /\ ccRegistry' = p /\ s = 0 /\ c = 0
  \/ ccRegistry' = ccRegistry /\ s1 = s /\ c < c1
  \/ ccRegistry' = ccRegistry /\ ccRegistry = p /\ c1 = c /\ s < s1 /\ s1 <= c

Untouched(p) ==
  \A q \in Procs : q # p => ccServer'[q] = ccServer[q] /\ ccClient'[q] = ccClient[q] /\ ccUp'[q] = ccUp[q]

(* A step of one session that moves as above keeps the invariant and is a  *)
(* step of the abstract specification, or none.                            *)
LEMMA SessionStep ==
  ASSUME Channel, NEW p \in Procs, ChannelTyped', Untouched(p), Moves(p),
         Joined(ccServer'[p], ccClient'[p]), Ordered(ccServer'[p], ccClient'[p], ccUp'[p])
  PROVE  Channel' /\ [Cut!CutNext]_(Cut!cutVars)
<1>1. Channel'
  BY DEF Channel, Untouched
<1> DEFINE host == [q \in Procs |-> ccClient[q].active]
           host1 == [q \in Procs |-> ccClient'[q].active]
           control == [q \in Procs |-> ccServer[q].active]
           control1 == [q \in Procs |-> ccServer'[q].active]
<1>2. \A q \in Procs : q # p => host1[q] = host[q] /\ control1[q] = control[q]
  BY DEF Untouched
<1>3. /\ host[p] = ccClient[p].active /\ host1[p] = ccClient'[p].active
      /\ control[p] = ccServer[p].active /\ control1[p] = ccServer'[p].active
  OBVIOUS
<1>4. /\ host1[p] \in Gens /\ control1[p] \in Gens /\ host[p] \in Gens /\ control[p] \in Gens
  BY DEF Channel, ChannelTyped, ServerSessions, ClientSessions
<1>5. /\ host = [q \in Procs |-> host[q]] /\ host1 = [q \in Procs |-> host1[q]]
      /\ control = [q \in Procs |-> control[q]] /\ control1 = [q \in Procs |-> control1[q]]
  OBVIOUS
<1>6. CASE host1[p] = host[p] /\ control1[p] = control[p]
  <2>1. host1 = host /\ control1 = control
    BY <1>2, <1>6
  <2>2. CASE ccRegistry' = ccRegistry
    BY <2>1, <2>2, <1>1 DEF Cut!cutVars
  <2>3. CASE ccRegistry = p /\ ccRegistry' = 0
    <3>1. p # 0
      BY CcAssumption DEF Procs
    <3>2. Cut!CutLeave
      BY <2>1, <2>3, <3>1 DEF Cut!CutLeave
    <3> QED BY <3>2, <1>1 DEF Cut!CutNext
  <2>4. CASE ccRegistry < p /\ ccRegistry' = p /\ control[p] = 0 /\ host[p] = 0
    <3>1. Cut!CutRegister(p)
      BY <2>1, <2>4 DEF Cut!CutRegister
    <3> QED BY <3>1, <1>1 DEF Cut!CutNext
  <2>5. control[p] \in Nat /\ host[p] \in Nat
    BY <1>4, GensAreNaturals
  <2>6. ~(control[p] < control[p]) /\ ~(host[p] < host[p])
    BY <2>5
  <2> QED BY <1>3, <1>6, <2>2, <2>3, <2>4, <2>6 DEF Moves
<1>7. CASE ccRegistry' = ccRegistry /\ control1[p] = control[p] /\ host[p] < host1[p]
  <2>1. control1 = control /\ host1 = [host EXCEPT ![p] = host1[p]]
    BY <1>2, <1>5, <1>7
  <2>2. host1[p] \in ConfigGens
    BY <1>4, <1>7, CcAssumption DEF Gens, ConfigGens
  <2>3. PICK g \in ConfigGens : g = host1[p]
    BY <2>2
  <2>4. Cut!CutServe(p, g)
    BY <1>7, <2>1, <2>3 DEF Cut!CutServe
  <2> QED BY <2>4, <1>1 DEF Cut!CutNext
<1>8. CASE ccRegistry' = ccRegistry /\ ccRegistry = p /\ host1[p] = host[p] /\ control[p] < control1[p] /\ control1[p] <= host[p]
  <2>1. host1 = host /\ control1 = [control EXCEPT ![p] = control1[p]]
    BY <1>2, <1>5, <1>8
  <2>2. control1[p] \in ConfigGens
    BY <1>4, <1>8, CcAssumption DEF Gens, ConfigGens
  <2>3. PICK g \in ConfigGens : g = control1[p]
    BY <2>2
  <2>4. Cut!CutLearn(p, g)
    BY <1>8, <2>1, <2>3 DEF Cut!CutLearn
  <2> QED BY <2>4, <1>1 DEF Cut!CutNext
<1> QED BY <1>3, <1>6, <1>7, <1>8 DEF Moves

(* What the invariant says of one session. *)
LEMMA Parts ==
  ASSUME Channel, NEW p \in Procs
  PROVE  /\ ccServer[p] \in ServerSessions /\ ccClient[p] \in ClientSessions
         /\ ccDown[p] \in Seq(DownFrames) /\ ccUp[p] \in Seq(UpFrames)
         /\ Joined(ccServer[p], ccClient[p]) /\ Ordered(ccServer[p], ccClient[p], ccUp[p])
         /\ ccServer[p].active \in Nat /\ ccClient[p].active \in Nat
BY GensAreNaturals DEF Channel, ChannelTyped, ServerSessions, ClientSessions

(* The control plane's end changes in something other than what it         *)
(* believes, or closes.                                                    *)
LEMMA ServerStep ==
  ASSUME Channel, NEW p \in Procs, NEW t \in ServerSessions, ccServer' = [ccServer EXCEPT ![p] = t],
         t.active = ccServer[p].active, t.cand \in {0, ccServer[p].cand}, t.state # "new",
         ccClient' = ccClient, ccScope' = ccScope, ccLatest' = ccLatest, ccDown' \in [Procs -> Seq(DownFrames)],
         ccUp' = ccUp \/ ccUp' = [ccUp EXCEPT ![p] = <<>>],
         ccRegistry' = ccRegistry \/ (ccRegistry = p /\ ccRegistry' = 0)
  PROVE  Channel' /\ [Cut!CutNext]_(Cut!cutVars)
<1>1. ccServer'[p] = t /\ ccServer' \in [Procs -> ServerSessions] /\ \A q \in Procs : q # p => ccServer'[q] = ccServer[q]
  BY DEF Channel, ChannelTyped
<1>2. ccUp' \in [Procs -> Seq(UpFrames)] /\ (ccUp'[p] = ccUp[p] \/ ccUp'[p] = <<>>) /\ \A q \in Procs : q # p => ccUp'[q] = ccUp[q]
  <2>1. ccUp \in [Procs -> Seq(UpFrames)] /\ <<>> \in Seq(UpFrames)
    BY DEF Channel, ChannelTyped
  <2>2. CASE ccUp' = ccUp
    BY <2>1, <2>2
  <2>3. CASE ccUp' = [ccUp EXCEPT ![p] = <<>>]
    BY <2>1, <2>3
  <2> QED BY <2>2, <2>3
<1>3. ChannelTyped'
  <2>1. ccRegistry' \in 0 .. CcMaxProc
    BY CcAssumption DEF Channel, ChannelTyped
  <2> QED BY <1>1, <1>2, <2>1 DEF Channel, ChannelTyped
<1>4. Untouched(p)
  BY <1>1, <1>2 DEF Untouched
<1>5. Joined(ccServer'[p], ccClient'[p])
  BY <1>1, Parts DEF Joined
<1>6. Ordered(ccServer'[p], ccClient'[p], ccUp'[p])
  BY <1>1, <1>2, Parts, OrderedServer
<1>7. Moves(p)
  BY <1>1 DEF Moves
<1> QED BY <1>3, <1>4, <1>5, <1>6, <1>7, SessionStep

(* The host's end changes, and may move its traffic forward.               *)
LEMMA ClientStep ==
  ASSUME Channel, NEW p \in Procs, NEW d \in ClientSessions, ccClient' = [ccClient EXCEPT ![p] = d],
         ccClient[p].state # "new", d.state # "new",
         ccClient[p].active <= d.active, d.cand # 0 => d.active < d.cand,
         ccServer' = ccServer, ccScope' = ccScope, ccLatest' = ccLatest, ccRegistry' = ccRegistry,
         ccDown' \in [Procs -> Seq(DownFrames)],
         NEW f \in UpFrames, f.kind = "ready" => f.gen <= d.active, Agrees(f) => d.active <= f.gen,
         ccUp' = ccUp \/ ccUp' = [ccUp EXCEPT ![p] = Append(@, f)]
  PROVE  Channel' /\ [Cut!CutNext]_(Cut!cutVars)
<1>1. ccClient'[p] = d /\ ccClient' \in [Procs -> ClientSessions] /\ \A q \in Procs : q # p => ccClient'[q] = ccClient[q]
  BY DEF Channel, ChannelTyped
<1>0. ccUp \in [Procs -> Seq(UpFrames)] /\ ccUp[p] \in Seq(UpFrames) /\ Append(ccUp[p], f) \in Seq(UpFrames)
  BY DEF Channel, ChannelTyped
<1>2. /\ ccUp' \in [Procs -> Seq(UpFrames)] /\ (ccUp'[p] = ccUp[p] \/ ccUp'[p] = Append(ccUp[p], f))
      /\ \A q \in Procs : q # p => ccUp'[q] = ccUp[q]
  <2>2. CASE ccUp' = ccUp
    BY <1>0, <2>2
  <2>3. CASE ccUp' = [ccUp EXCEPT ![p] = Append(@, f)]
    <3> DEFINE longer == Append(ccUp[p], f)
    <3>1. longer \in Seq(UpFrames) /\ ccUp' = [ccUp EXCEPT ![p] = longer]
      BY <1>0, <2>3
    <3> HIDE DEF longer
    <3>2. ccUp' \in [Procs -> Seq(UpFrames)] /\ ccUp'[p] = longer /\ \A q \in Procs : q # p => ccUp'[q] = ccUp[q]
      BY <1>0, <3>1
    <3> QED BY <3>2 DEF longer
  <2> QED BY <2>2, <2>3
<1>3. ChannelTyped'
  BY <1>1, <1>2 DEF Channel, ChannelTyped
<1>4. Untouched(p)
  BY <1>1, <1>2 DEF Untouched
<1>5. Joined(ccServer'[p], ccClient'[p])
  BY <1>1, Parts DEF Joined
<1>6. Ordered(ccServer[p], d, ccUp[p])
  BY Parts, OrderedClient
<1>7. Ordered(ccServer'[p], ccClient'[p], ccUp'[p])
  <2>1. Ordered(ccServer[p], d, Append(ccUp[p], f))
    BY <1>6, Parts, OrderedAppend
  <2> QED BY <1>1, <1>2, <1>6, <2>1
<1>8. Moves(p)
  <2>1. d.active \in Nat /\ ccClient[p].active \in Nat
    BY Parts, GensAreNaturals DEF ClientSessions
  <2>2. d.active = ccClient[p].active \/ ccClient[p].active < d.active
    BY <2>1
  <2> QED BY <1>1, <2>2 DEF Moves
<1> QED BY <1>3, <1>4, <1>5, <1>7, <1>8, SessionStep

-----------------------------------------------------------------------------
(* The control plane's actions.                                            *)

(* Sending a frame keeps the streams to the hosts well formed. *)
LEMMA SendsFrames ==
  ASSUME Channel, NEW p \in Procs, NEW f \in DownFrames, Sends(p, f)
  PROVE  ccDown' \in [Procs -> Seq(DownFrames)]
<1>1. ccDown \in [Procs -> Seq(DownFrames)] /\ Append(ccDown[p], f) \in Seq(DownFrames)
  BY DEF Channel, ChannelTyped
<1>2. ccDown' = ccDown \/ ccDown' = [ccDown EXCEPT ![p] = Append(ccDown[p], f)]
  BY <1>1 DEF Sends
<1> DEFINE longer == Append(ccDown[p], f)
<1> HIDE DEF longer
<1> QED BY <1>1, <1>2 DEF longer

(* A single frame is a stream. *)
LEMMA OneFrame ==
  ASSUME NEW S, NEW f \in S
  PROVE  <<f>> \in Seq(S)
OBVIOUS

(* Offers of the server keep the invariant and are steps of the abstract cutover. *)
LEMMA OffersRefine ==
  ASSUME Channel, NEW p \in Procs, ccScope' = ccScope,
         (\E g \in 1 .. ccLatest : OfferSnapshot(p, g)) \/ OfferDelta(p) \/ ServerBeginsDrain(p)
  PROVE  Channel' /\ [Cut!CutNext]_(Cut!cutVars)
<1> DEFINE s == ccServer[p]
<1>1. s \in ServerSessions /\ ccLatest \in ConfigGens /\ ccServer \in [Procs -> ServerSessions]
  BY DEF Channel, ChannelTyped
<1>2. "" \in Statuses /\ "accepted" \in Statuses
  BY DEF Statuses, DrainStatuses
<1>3. ASSUME NEW g \in 1 .. ccLatest, OfferSnapshot(p, g) PROVE Channel' /\ [Cut!CutNext]_(Cut!cutVars)
  <2> DEFINE t == [s EXCEPT !.delta = 0, !.pend = g, !.state = IF s.active = 0 THEN "awaiting_snapshot" ELSE s.state]
  <2>1. g \in ConfigGens /\ g \in Gens /\ 0 \in Gens
    BY <1>1, <1>3, CcAssumption DEF ConfigGens, Gens
  <2>2. ccServer' = [ccServer EXCEPT ![p] = t]
    BY <1>1, <1>3 DEF OfferSnapshot, ServerSessions
  <2>3. s.state # "new"
    BY <1>3 DEF OfferSnapshot, ServerActs, ServerOpen
  <2>4. t \in ServerSessions /\ t.active = s.active /\ t.cand = s.cand /\ t.state # "new"
    BY <1>1, <2>1, <2>3 DEF ServerSessions, SessionStates
  <2>5. Frame("snapshot", g, "") \in DownFrames
    BY <2>1, <1>2 DEF Frame, DownFrames
  <2>6. ccDown' \in [Procs -> Seq(DownFrames)]
    BY <2>5, <1>3, SendsFrames DEF OfferSnapshot
  <2> HIDE DEF t
  <2> QED BY <2>2, <2>4, <2>6, <1>3, ServerStep DEF OfferSnapshot
<1>4. ASSUME OfferDelta(p) PROVE Channel' /\ [Cut!CutNext]_(Cut!cutVars)
  <2> DEFINE t == [s EXCEPT !.delta = s.active + 1]
  <2>1. s.active + 1 \in ConfigGens /\ s.active + 1 \in Gens
    <3>1. s.active \in Nat /\ s.active < ccLatest
      BY <1>4, Parts DEF OfferDelta
    <3> QED BY <1>1, <3>1, CcAssumption DEF ConfigGens, Gens
  <2>2. ccServer' = [ccServer EXCEPT ![p] = t]
    BY <1>1, <1>4 DEF OfferDelta, ServerSessions
  <2>3. s.state # "new"
    BY <1>4 DEF OfferDelta, ServerActs, ServerOpen
  <2>4. t \in ServerSessions /\ t.active = s.active /\ t.cand = s.cand /\ t.state # "new"
    BY <1>1, <2>1, <2>3 DEF ServerSessions
  <2>5. Frame("delta", s.active + 1, "") \in DownFrames
    BY <2>1, <1>2 DEF Frame, DownFrames
  <2>6. ccDown' \in [Procs -> Seq(DownFrames)]
    BY <2>5, <1>4, SendsFrames DEF OfferDelta
  <2> HIDE DEF t
  <2> QED BY <2>2, <2>4, <2>6, <1>4, ServerStep DEF OfferDelta
<1>5. ASSUME ServerBeginsDrain(p) PROVE Channel' /\ [Cut!CutNext]_(Cut!cutVars)
  <2> DEFINE t == [s EXCEPT !.drain = s.active, !.drained = "accepted", !.state = "draining"]
  <2>1. s.active \in ConfigGens /\ s.active \in Gens
    <3>1. s.active \in Gens /\ s.active # 0
      BY <1>1, <1>5 DEF ServerBeginsDrain, ServerReady, ServerSessions
    <3> QED BY <3>1, CcAssumption DEF ConfigGens, Gens
  <2>2. ccServer' = [ccServer EXCEPT ![p] = t]
    BY <1>1, <1>5 DEF ServerBeginsDrain, ServerSessions
  <2>4. t \in ServerSessions /\ t.active = s.active /\ t.cand = s.cand /\ t.state # "new"
    BY <1>1, <1>2, <2>1 DEF ServerSessions, SessionStates
  <2>5. Frame("drain", s.active, "") \in DownFrames
    BY <2>1, <1>2 DEF Frame, DownFrames
  <2>6. ccDown' \in [Procs -> Seq(DownFrames)]
    BY <2>5, <1>5, SendsFrames DEF ServerBeginsDrain
  <2> HIDE DEF t
  <2> QED BY <2>2, <2>4, <2>6, <1>5, ServerStep DEF ServerBeginsDrain
<1> QED BY <1>3, <1>4, <1>5

(* What closing leaves of the server's end. *)
LEMMA ClosedServerIs ==
  ASSUME NEW s \in ServerSessions
  PROVE  /\ ClosedServer(s) \in ServerSessions /\ ClosedServer(s).state = "closed"
         /\ ClosedServer(s).active = s.active /\ ClosedServer(s).cand = 0
<1>1. 0 \in Gens
  BY CcAssumption DEF Gens
<1> QED BY <1>1 DEF ClosedServer, NoServerSession, ServerSessions, SessionStates

(* So is closing the server's end. *)
LEMMA CloseRefines ==
  ASSUME Channel, NEW p \in Procs, ccScope' = ccScope, closeServer(p)
  PROVE  Channel' /\ [Cut!CutNext]_(Cut!cutVars)
<1> DEFINE t == ClosedServer(ccServer[p])
<1>1. t \in ServerSessions /\ t.state = "closed" /\ t.active = ccServer[p].active /\ t.cand = 0
  BY Parts, ClosedServerIs
<1>2. ccServer' = [ccServer EXCEPT ![p] = t]
  BY DEF closeServer, Channel, ChannelTyped
<1>3. ccRegistry' = ccRegistry \/ (ccRegistry = p /\ ccRegistry' = 0)
  BY DEF closeServer, RegistryDisconnect
<1>4. ccDown' \in [Procs -> Seq(DownFrames)]
  BY DEF closeServer, Channel, ChannelTyped
<1> HIDE DEF t
<1> QED BY <1>1, <1>2, <1>3, <1>4, ServerStep DEF closeServer

(* Accepting a connection: both ends start with nothing.                   *)
LEMMA AcceptRefines ==
  ASSUME Channel, NEW p \in Procs, ccScope' = ccScope, ServerAccepts(p)
  PROVE  Channel' /\ [Cut!CutNext]_(Cut!cutVars)
<1> DEFINE s == ccServer[p]
           c == ccClient[p]
           t == [s EXCEPT !.state = "awaiting_snapshot", !.pend = ccLatest]
           d == [c EXCEPT !.state = "awaiting_snapshot"]
<1>1. /\ s \in ServerSessions /\ c \in ClientSessions /\ ccLatest \in ConfigGens /\ ccLatest \in Gens
      /\ ccServer \in [Procs -> ServerSessions] /\ ccClient \in [Procs -> ClientSessions]
      /\ ccDown \in [Procs -> Seq(DownFrames)]
  BY GensAreNaturals DEF Channel, ChannelTyped
<1>2. s.state = "new" /\ s.active = 0 /\ c.active = 0
  BY Parts DEF ServerAccepts, Joined
<1>3. t \in ServerSessions /\ t.active = s.active /\ t.cand = s.cand /\ t.state = "awaiting_snapshot"
  BY <1>1 DEF ServerSessions, SessionStates
<1>4. d \in ClientSessions /\ d.active = c.active /\ d.cand = c.cand /\ d.state = "awaiting_snapshot"
  BY <1>1 DEF ClientSessions, SessionStates
<1>5. ccServer' = [ccServer EXCEPT ![p] = t] /\ ccClient' = [ccClient EXCEPT ![p] = d]
  BY <1>1 DEF ServerAccepts, ServerSessions, ClientSessions
<1>6. Ordered(s, c, ccUp[p])
  BY Parts
<1> HIDE DEF t, d
<1>7. /\ ccServer' \in [Procs -> ServerSessions] /\ ccClient' \in [Procs -> ClientSessions]
      /\ ccServer'[p] = t /\ ccClient'[p] = d
      /\ \A q \in Procs : q # p => ccServer'[q] = ccServer[q] /\ ccClient'[q] = ccClient[q]
  BY <1>1, <1>3, <1>4, <1>5
<1>8. ccDown' \in [Procs -> Seq(DownFrames)]
  <2> DEFINE first == <<Frame("snapshot", ccLatest, "")>>
  <2>1. Frame("snapshot", ccLatest, "") \in DownFrames
    BY <1>1 DEF Frame, DownFrames, Statuses
  <2>2. first \in Seq(DownFrames)
    BY <2>1, OneFrame
  <2>3. ccDown' = [ccDown EXCEPT ![p] = first]
    BY DEF ServerAccepts
  <2> HIDE DEF first
  <2> QED BY <2>2, <2>3, <1>1
<1>9. ChannelTyped'
  <2>1. p \in 0 .. CcMaxProc
    BY CcAssumption DEF Procs
  <2> QED BY <1>7, <1>8, <2>1 DEF ServerAccepts, RegistryAttach, Channel, ChannelTyped
<1>10. Untouched(p) /\ ccUp'[p] = ccUp[p]
  BY <1>7 DEF Untouched, ServerAccepts
<1>11. Joined(t, d)
  BY <1>3, <1>4 DEF Joined
<1>12. Ordered(t, d, ccUp[p])
  BY <1>3, <1>4, <1>6 DEF Ordered
<1>13. Moves(p)
  BY <1>2, <1>3, <1>4, <1>7 DEF Moves, ServerAccepts, RegistryAttach
<1> QED BY <1>7, <1>9, <1>10, <1>11, <1>12, <1>13, SessionStep

-----------------------------------------------------------------------------
(* The control plane reads a frame.                                        *)

(* An acknowledgement stages what was offered, never behind what is active.*)
LEMMA AckMoves ==
  ASSUME NEW s \in ServerSessions, NEW f \in UpFrames, Agrees(f) => s.active <= f.gen,
         s.cand # 0 => s.active <= s.cand, s.state # "new",
         f.kind \in {"ack_snapshot", "ack_delta"}, AfterAck(s, f).state # "closed"
  PROVE  /\ AfterAck(s, f) \in ServerSessions /\ AfterAck(s, f).state # "new"
         /\ AfterAck(s, f).active = s.active
         /\ AfterAck(s, f).cand # 0 => s.active <= AfterAck(s, f).cand
<1>1. 0 \in Gens /\ s.active \in Nat /\ s.delta \in Nat /\ s.pend \in Nat
  BY GensAreNaturals, CcAssumption DEF Gens, ServerSessions
<1>2. ASSUME NEW g \in Gens
      PROVE  /\ Staged(s, g) \in ServerSessions /\ Staged(s, g).state # "new"
             /\ Staged(s, g).active = s.active /\ Staged(s, g).cand = g
  BY <1>1 DEF Staged, ServerSessions, SessionStates
<1>3. CASE s.pend # 0 /\ f.kind = "ack_snapshot" /\ f.gen = s.pend /\ f.status \in {"applied", "duplicate"}
  <2>1. AfterAck(s, f) = Staged(s, s.pend)
    BY <1>3 DEF AfterAck
  <2>2. s.pend \in Gens /\ s.active <= s.pend
    BY <1>3 DEF Agrees, ServerSessions
  <2> QED BY <1>2, <2>1, <2>2
<1>4. CASE s.pend = 0 /\ s.delta # 0 /\ f.kind = "ack_delta" /\ f.gen = s.delta
           /\ f.status \in {"applied", "duplicate"} /\ s.delta = s.active + 1
  <2>1. AfterAck(s, f) = Staged(s, s.delta)
    BY <1>4 DEF AfterAck
  <2>2. s.delta \in Gens /\ s.active <= s.delta
    BY <1>1, <1>4 DEF ServerSessions
  <2> QED BY <1>2, <2>1, <2>2
<1>5. CASE s.pend = 0 /\ s.delta = 0 /\ f.status = "duplicate" /\ f.gen = (IF s.cand # 0 THEN s.cand ELSE s.active)
  BY <1>5 DEF AfterAck
<1>6. CASE AfterAck(s, f) = ClosedServer(s)
  BY <1>6, ClosedServerIs
<1> QED BY <1>3, <1>4, <1>5, <1>6 DEF AfterAck

(* Readiness moves the control plane to the generation the host reported.  *)
LEMMA FrameMoves ==
  ASSUME NEW s \in ServerSessions, NEW f \in UpFrames, Agrees(f) => s.active <= f.gen,
         s.cand # 0 => s.active <= s.cand, s.state # "new", AfterFrame(s, f).state # "closed"
  PROVE  /\ AfterFrame(s, f) \in ServerSessions /\ AfterFrame(s, f).state # "new"
         /\ AfterFrame(s, f).cand # 0 => AfterFrame(s, f).active <= AfterFrame(s, f).cand
         /\ \/ AfterFrame(s, f).active = s.active
            \/ f.kind = "ready" /\ AfterFrame(s, f).active = f.gen /\ s.active <= f.gen
<1>1. 0 \in Gens /\ s.active \in Nat /\ f.gen \in Gens
  BY GensAreNaturals, CcAssumption DEF Gens, ServerSessions, UpFrames
<1>2. CASE f.kind \in {"ack_snapshot", "ack_delta"}
  <2>1. AfterFrame(s, f) = AfterAck(s, f)
    BY <1>2 DEF AfterFrame
  <2> QED BY <1>2, <2>1, AckMoves
<1>3. CASE f.kind = "ready"
  <2>1. AfterFrame(s, f) = AfterReadiness(s, f.gen)
    BY <1>3 DEF AfterFrame
  <2> DEFINE moved == [s EXCEPT !.active = f.gen, !.cand = 0, !.ready = f.gen, !.state = "ready"]
  <2>2. moved \in ServerSessions /\ moved.active = f.gen /\ moved.cand = 0 /\ moved.state = "ready"
    BY <1>1 DEF ServerSessions, SessionStates
  <2>3. AfterReadiness(s, f.gen) # ClosedServer(s)
    BY <2>1, ClosedServerIs
  <2>4. AfterReadiness(s, f.gen) = moved /\ f.gen = (IF s.cand # 0 THEN s.cand ELSE s.active)
    BY <2>3 DEF AfterReadiness
  <2>5. s.active <= f.gen
    BY <2>4, <1>1
  <2> HIDE DEF moved
  <2> QED BY <1>3, <2>1, <2>2, <2>4, <2>5
<1>4. CASE f.kind = "heartbeat"
  <2>1. AfterFrame(s, f) = s
    BY <1>4, ClosedServerIs DEF AfterFrame, AfterHeartbeat
  <2> QED BY <2>1
<1>5. CASE f.kind = "drain_ack"
  <2>1. AfterFrame(s, f) = s \/ AfterFrame(s, f) = [s EXCEPT !.drained = f.status]
    BY <1>5, ClosedServerIs DEF AfterFrame, AfterDrainAck
  <2>2. f.status \in Statuses
    BY DEF UpFrames
  <2>3. /\ [s EXCEPT !.drained = f.status] \in ServerSessions /\ [s EXCEPT !.drained = f.status].active = s.active
        /\ [s EXCEPT !.drained = f.status].cand = s.cand /\ [s EXCEPT !.drained = f.status].state = s.state
    BY <2>2 DEF ServerSessions
  <2> QED BY <2>1, <2>3
<1> QED BY <1>2, <1>3, <1>4, <1>5 DEF UpFrames, FrameKinds

(* So is handling a frame of the host. *)
LEMMA HandleRefines ==
  ASSUME Channel, NEW p \in Procs, ccScope' = ccScope, handleFrame(p)
  PROVE  Channel' /\ [Cut!CutNext]_(Cut!cutVars)
<1> DEFINE s == ccServer[p]
           c == ccClient[p]
           up == ccUp[p]
           f == Head(up)
           t == AfterFrame(s, f)
<1>1. /\ s \in ServerSessions /\ c \in ClientSessions /\ up \in Seq(UpFrames) /\ up # <<>>
      /\ Joined(s, c) /\ Ordered(s, c, up) /\ s.state # "new"
  BY Parts DEF handleFrame, ServerOpen
<1>2. CASE ~(ccRegistry = p /\ t.state # "closed")
  BY <1>2, CloseRefines DEF handleFrame
<1>3. CASE ccRegistry = p /\ t.state # "closed"
  <2>1. /\ f \in UpFrames /\ f = up[1] /\ 1 \in 1 .. Len(up)
    BY <1>1
  <2>2. (Agrees(f) => s.active <= f.gen) /\ (f.kind = "ready" => f.gen <= c.active) /\ (s.cand # 0 => s.active <= s.cand)
    BY <1>1, <2>1 DEF Ordered
  <2> HIDE DEF s, c, up, f
  <2>3. /\ t \in ServerSessions /\ t.state # "new" /\ (t.cand # 0 => t.active <= t.cand)
        /\ t.active = s.active \/ (f.kind = "ready" /\ t.active = f.gen /\ s.active <= f.gen)
    BY <1>1, <1>3, <2>1, <2>2, FrameMoves
  <2>4. /\ ccServer' = [ccServer EXCEPT ![p] = t] /\ ccUp' = [ccUp EXCEPT ![p] = Tail(up)]
        /\ ccLatest' = ccLatest /\ ccRegistry' = ccRegistry /\ ccClient' = ccClient /\ ccDown' = ccDown
    BY <1>3 DEF handleFrame, s, f, up
  <2>5. Tail(up) \in Seq(UpFrames)
    BY <1>1
  <2> HIDE DEF t
  <2>6. /\ ccServer' \in [Procs -> ServerSessions] /\ ccUp' \in [Procs -> Seq(UpFrames)]
        /\ ccServer'[p] = t /\ ccUp'[p] = Tail(up)
        /\ \A q \in Procs : q # p => ccServer'[q] = ccServer[q] /\ ccUp'[q] = ccUp[q]
    BY <2>3, <2>4, <2>5 DEF Channel, ChannelTyped
  <2>7. ChannelTyped' /\ Untouched(p)
    BY <2>4, <2>6 DEF Channel, ChannelTyped, Untouched
  <2>8. ccClient'[p] = c /\ ccClient[p] = c /\ ccServer[p] = s
    BY <2>4 DEF c, s
  <2>9. Joined(t, c)
    BY <1>1, <2>3 DEF Joined
  <2>10. Ordered(t, c, Tail(up))
    <3>1. t.active <= c.active
      BY <1>1, <2>2, <2>3 DEF Ordered
    <3>2. t.active = s.active \/ (up[1].kind = "ready" /\ t.active = up[1].gen)
      BY <2>1, <2>3
    <3> QED BY <1>1, <2>3, <3>1, <3>2, OrderedTail
  <2>11. Moves(p)
    <3>1. t.active \in Nat /\ s.active \in Nat /\ c.active \in Nat
      BY <1>1, <2>3, GensAreNaturals DEF ServerSessions, ClientSessions
    <3>2. t.active = s.active \/ (s.active < t.active /\ t.active <= c.active)
      BY <2>2, <2>3, <3>1
    <3>3. ccServer[p].active = s.active /\ ccServer'[p].active = t.active
          /\ ccClient[p].active = c.active /\ ccClient'[p].active = c.active
      BY <2>6, <2>8
    <3> QED BY <1>3, <2>4, <3>2, <3>3 DEF Moves
  <2> QED BY <2>6, <2>7, <2>8, <2>9, <2>10, <2>11, SessionStep
<1> QED BY <1>2, <1>3

-----------------------------------------------------------------------------
(* The host's actions.                                                     *)

(* What staging a generation leaves of the host's end. *)
LEMMA StagedIs ==
  ASSUME NEW c \in ClientSessions, NEW g \in Gens
  PROVE  /\ StagedByClient(c, g) \in ClientSessions /\ StagedByClient(c, g).state # "new"
         /\ StagedByClient(c, g).active = c.active /\ StagedByClient(c, g).cand = g
<1>1. 0 \in Gens
  BY CcAssumption DEF Gens
<1> QED BY <1>1 DEF StagedByClient, ClientSessions, SessionStates

(* Restoring the host's state keeps both of its generations. *)
LEMMA RestoredIs ==
  ASSUME NEW c \in ClientSessions
  PROVE  /\ RestoreClient(c) \in ClientSessions /\ RestoreClient(c).state # "new"
         /\ RestoreClient(c).active = c.active /\ RestoreClient(c).cand = c.cand
<1> DEFINE st == CASE ClientReady(c) -> "ready"
                   [] ~ClientReady(c) /\ c.cand # 0 -> "awaiting_ready"
                   [] OTHER -> "awaiting_snapshot"
<1>1. st \in SessionStates /\ st # "new"
  <2>1. CASE ClientReady(c)
    BY <2>1 DEF SessionStates
  <2>2. CASE ~ClientReady(c) /\ c.cand # 0
    BY <2>2 DEF SessionStates
  <2>3. CASE ~ClientReady(c) /\ ~(c.cand # 0)
    BY <2>3 DEF SessionStates
  <2> QED BY <2>1, <2>2, <2>3
<1>2. RestoreClient(c) = [c EXCEPT !.state = st]
  BY DEF RestoreClient
<1> HIDE DEF st
<1> QED BY <1>1, <1>2 DEF ClientSessions

(* A frame built from its three fields is a frame with those fields. *)
LEMMA FrameTyped ==
  ASSUME NEW g \in Gens, NEW st \in Statuses, NEW k \in FrameKinds
  PROVE  /\ Frame(k, g, st) \in UpFrames
         /\ Frame(k, g, st).kind = k /\ Frame(k, g, st).gen = g /\ Frame(k, g, st).status = st
BY DEF Frame, UpFrames

(* What the host may do with a frame: it keeps what it serves, stages only *)
(* something newer, and agrees only to something at least as new.          *)
Keeps(c, d, f) ==
  /\ d \in ClientSessions /\ d.state # "new" /\ d.active = c.active
  /\ d.cand # 0 => c.active < d.cand
  /\ f \in UpFrames /\ f.kind # "ready"
  /\ Agrees(f) => c.active <= f.gen

(* What the host makes of a snapshot satisfies Keeps. *)
LEMMA SnapshotKeeps ==
  ASSUME NEW c \in ClientSessions, c.state # "new", c.cand # 0 => c.active < c.cand,
         NEW g \in ConfigGens, NEW r \in SnapshotResults(c, g)
  PROVE  Keeps(c, r[1], r[2])
<1> DEFINE current == IF c.cand # 0 THEN c.cand ELSE c.active
<1>1. g \in Gens /\ g \in Nat /\ c.active \in Nat /\ c.cand \in Nat /\ current \in Nat /\ c.active <= current
  BY GensAreNaturals DEF ClientSessions
<1>2. "rejected" \in Statuses /\ "applied" \in Statuses /\ "duplicate" \in Statuses
  BY DEF Statuses, DrainStatuses
<1>3. \/ r = <<c, Frame("ack_snapshot", g, "rejected")>>
      \/ r = <<c, Frame("ack_snapshot", g, "duplicate")>> /\ g = current
      \/ r = <<StagedByClient(c, g), Frame("ack_snapshot", g, "applied")>> /\ current < g
  BY <1>1 DEF SnapshotResults
<1>4. CASE r = <<c, Frame("ack_snapshot", g, "rejected")>>
  BY <1>1, <1>2, <1>4, FrameTyped DEF FrameKinds, Keeps, Agrees
<1>5. CASE r = <<c, Frame("ack_snapshot", g, "duplicate")>> /\ g = current
  BY <1>1, <1>2, <1>5, FrameTyped DEF FrameKinds, Keeps
<1>6. CASE r = <<StagedByClient(c, g), Frame("ack_snapshot", g, "applied")>> /\ current < g
  <2>1. c.active < g
    BY <1>1, <1>6
  <2> QED BY <1>1, <1>2, <1>6, <2>1, FrameTyped, StagedIs DEF FrameKinds, Keeps
<1> QED BY <1>3, <1>4, <1>5, <1>6

(* So does what it makes of a delta. *)
LEMMA DeltaKeeps ==
  ASSUME NEW c \in ClientSessions, c.state # "new", c.cand # 0 => c.active < c.cand,
         NEW g \in ConfigGens, NEW r \in DeltaResults(c, g)
  PROVE  Keeps(c, r[1], r[2])
<1>1. g \in Gens /\ g \in Nat /\ c.active \in Nat
  BY GensAreNaturals DEF ClientSessions
<1>2. "rejected" \in Statuses /\ "applied" \in Statuses /\ "snapshot_required" \in Statuses
  BY DEF Statuses, DrainStatuses
<1>3. \/ \E st \in {"rejected", "snapshot_required"} : r = <<c, Frame("ack_delta", g, st)>>
      \/ r = <<[c EXCEPT !.needs = TRUE], Frame("ack_delta", g, "snapshot_required")>>
      \/ r = <<StagedByClient(c, g), Frame("ack_delta", g, "applied")>> /\ c.active < g
  <2> DEFINE usable == c.active # 0 /\ ~c.needs /\ c.cand = 0
  <2>1. CASE ~usable
    BY <2>1 DEF DeltaResults
  <2>2. CASE usable /\ g = c.active + 1
    BY <1>1, <2>2 DEF DeltaResults
  <2>3. CASE usable /\ g # c.active + 1 /\ g <= c.active
    BY <1>1, <2>3 DEF DeltaResults
  <2>4. CASE usable /\ g # c.active + 1 /\ ~(g <= c.active)
    BY <1>1, <2>4 DEF DeltaResults
  <2> QED BY <2>1, <2>2, <2>3, <2>4
<1>4. ASSUME NEW st \in {"rejected", "snapshot_required"}, r = <<c, Frame("ack_delta", g, st)>> PROVE Keeps(c, r[1], r[2])
  BY <1>1, <1>2, <1>4, FrameTyped DEF FrameKinds, Keeps, Agrees
<1>5. CASE r = <<[c EXCEPT !.needs = TRUE], Frame("ack_delta", g, "snapshot_required")>>
  <2> DEFINE d == [c EXCEPT !.needs = TRUE]
  <2>1. d \in ClientSessions /\ d.state = c.state /\ d.active = c.active /\ d.cand = c.cand
    BY DEF ClientSessions
  <2> HIDE DEF d
  <2>2. r[1] = d /\ r[2] = Frame("ack_delta", g, "snapshot_required")
    BY <1>5 DEF d
  <2> QED BY <1>1, <1>2, <2>1, <2>2, FrameTyped DEF FrameKinds, Keeps, Agrees
<1>6. CASE r = <<StagedByClient(c, g), Frame("ack_delta", g, "applied")>> /\ c.active < g
  BY <1>1, <1>2, <1>6, FrameTyped, StagedIs DEF FrameKinds, Keeps, Agrees
<1> QED BY <1>3, <1>4, <1>5, <1>6

(* So does what it makes of a drain. *)
LEMMA DrainKeeps ==
  ASSUME NEW c \in ClientSessions, c.state # "new", c.cand # 0 => c.active < c.cand,
         NEW g \in ConfigGens, NEW r \in DrainResults(c, g)
  PROVE  Keeps(c, r[1], r[2])
<1> DEFINE stopped == [c EXCEPT !.drain = g, !.drained = "accepted", !.state = "draining"]
           turned == [c EXCEPT !.drain = g, !.drained = "rejected"]
           failed == RestoreClient(turned)
<1>1. g \in Gens /\ c.drained \in Statuses
  BY GensAreNaturals DEF ClientSessions
<1>2. "rejected" \in Statuses /\ "accepted" \in Statuses
  BY DEF Statuses, DrainStatuses
<1>3. stopped \in ClientSessions /\ stopped.state # "new" /\ stopped.active = c.active /\ stopped.cand = c.cand
  BY <1>1, <1>2 DEF ClientSessions, SessionStates
<1>4. turned \in ClientSessions /\ turned.active = c.active /\ turned.cand = c.cand
  BY <1>1, <1>2 DEF ClientSessions
<1>5. (\E st \in Statuses : r = <<c, Frame("drain_ack", g, st)>>)
      \/ r = <<stopped, Frame("drain_ack", g, "accepted")>> \/ r = <<failed, Frame("drain_ack", g, "rejected")>>
  <2>1. CASE c.drain # 0
    BY <1>1, <1>2, <2>1 DEF DrainResults
  <2>2. CASE c.drain = 0 /\ (~ClientReady(c) \/ g # c.active)
    BY <1>2, <2>2 DEF DrainResults
  <2>3. CASE c.drain = 0 /\ ~(~ClientReady(c) \/ g # c.active)
    BY <2>3 DEF DrainResults
  <2> QED BY <2>1, <2>2, <2>3
<1> HIDE DEF stopped, turned
<1>6. failed \in ClientSessions /\ failed.state # "new" /\ failed.active = c.active /\ failed.cand = c.cand
  BY <1>4, RestoredIs
<1> HIDE DEF failed
<1>7. ASSUME NEW d, NEW st \in Statuses, r = <<d, Frame("drain_ack", g, st)>>,
             d \in ClientSessions, d.state # "new", d.active = c.active, d.cand = c.cand
      PROVE  Keeps(c, r[1], r[2])
  BY <1>1, <1>7, FrameTyped DEF FrameKinds, Keeps, Agrees
<1> QED BY <1>2, <1>3, <1>5, <1>6, <1>7

(* The host changes its session and may answer with f.                     *)
LEMMA RepliesUp ==
  ASSUME NEW p \in Procs, NEW f, Replies(p, f)
  PROVE  ccUp' = ccUp \/ ccUp' = [ccUp EXCEPT ![p] = Append(@, f)]
BY DEF Replies

(* Reading a frame at the host keeps the invariant and is a step of the abstract cutover. *)
LEMMA ReadsRefines ==
  ASSUME Channel, NEW p \in Procs, ccScope' = ccScope, clientReads(p)
  PROVE  Channel' /\ [Cut!CutNext]_(Cut!cutVars)
<1> DEFINE c == ccClient[p]
           f == Head(ccDown[p])
<1>1. /\ c \in ClientSessions /\ ccDown[p] \in Seq(DownFrames) /\ ccDown[p] # <<>> /\ c.state # "new"
      /\ c.active \in Nat /\ (c.cand # 0 => c.active < c.cand)
  BY Parts DEF clientReads, ClientOpen, Ordered
<1>2. f \in DownFrames /\ Tail(ccDown[p]) \in Seq(DownFrames)
  BY <1>1
<1>3. PICK r \in ResultsOf(c, f) : ccClient' = [ccClient EXCEPT ![p] = r[1]] /\ Replies(p, r[2])
  BY DEF clientReads
<1>4. ccServer' = ccServer /\ ccLatest' = ccLatest /\ ccRegistry' = ccRegistry
  BY DEF clientReads
<1>5. ccDown' \in [Procs -> Seq(DownFrames)]
  <2> DEFINE rest == Tail(ccDown[p])
  <2>1. ccDown' = [ccDown EXCEPT ![p] = rest] /\ ccDown \in [Procs -> Seq(DownFrames)]
    BY DEF clientReads, Channel, ChannelTyped
  <2> HIDE DEF rest
  <2> QED BY <2>1, <1>2 DEF rest
<1> HIDE DEF f
<1>6. Keeps(c, r[1], r[2])
  <2>1. f.gen \in ConfigGens /\ f.kind \in {"snapshot", "delta", "drain"}
    BY <1>2 DEF DownFrames
  <2>2. CASE f.kind = "snapshot"
    BY <1>1, <2>1, <2>2, SnapshotKeeps DEF ResultsOf
  <2>3. CASE f.kind = "delta"
    BY <1>1, <2>1, <2>3, DeltaKeeps DEF ResultsOf
  <2>4. CASE f.kind = "drain"
    BY <1>1, <2>1, <2>4, DrainKeeps DEF ResultsOf
  <2> QED BY <2>1, <2>2, <2>3, <2>4
<1> DEFINE d == r[1]
           reply == r[2]
<1>7. /\ d \in ClientSessions /\ d.state # "new" /\ c.active = d.active /\ (d.cand # 0 => d.active < d.cand)
      /\ reply \in UpFrames /\ reply.kind # "ready" /\ (Agrees(reply) => d.active <= reply.gen)
  BY <1>6 DEF Keeps
<1>8. ccClient' = [ccClient EXCEPT ![p] = d] /\ (ccUp' = ccUp \/ ccUp' = [ccUp EXCEPT ![p] = Append(@, reply)])
  BY <1>3, RepliesUp
<1>9. ccClient[p].active <= d.active /\ ccClient[p].state # "new"
  BY <1>1, <1>7
<1> HIDE DEF c, d, reply
<1> QED BY <1>4, <1>5, <1>7, <1>8, <1>9, ClientStep

(* So is the activation of a generation. *)
LEMMA MarksReadyRefines ==
  ASSUME Channel, NEW p \in Procs, ccScope' = ccScope, MarksReady(p)
  PROVE  Channel' /\ [Cut!CutNext]_(Cut!cutVars)
<1> DEFINE c == ccClient[p]
           d == [c EXCEPT !.active = c.cand, !.cand = 0, !.needs = FALSE, !.ready = c.cand, !.state = "ready"]
           f == Frame("ready", c.cand, "")
<1>1. c \in ClientSessions /\ c.state # "new" /\ c.cand # 0 /\ c.active < c.cand
  BY Parts DEF MarksReady, ClientOpen, Ordered
<1>2. c.cand \in Gens /\ c.cand \in Nat /\ c.active \in Nat /\ 0 \in Gens /\ "" \in Statuses
  <2>1. c.cand \in Gens /\ c.active \in Gens
    BY <1>1 DEF ClientSessions
  <2>2. 0 \in Gens /\ "" \in Statuses
    BY CcAssumption DEF Gens, Statuses
  <2> QED BY <2>1, <2>2, GensAreNaturals
<1>3. d \in ClientSessions /\ d.state = "ready" /\ d.active = c.cand /\ d.cand = 0
  BY <1>1, <1>2 DEF ClientSessions, SessionStates
<1>4. ccClient' = [ccClient EXCEPT ![p] = d]
  BY <1>1 DEF MarksReady, Channel, ChannelTyped, ClientSessions
<1>5. f \in UpFrames /\ f.kind = "ready" /\ f.gen = c.cand
  BY <1>2 DEF Frame, UpFrames, FrameKinds
<1>6. ccUp' = ccUp \/ ccUp' = [ccUp EXCEPT ![p] = Append(@, f)]
  BY RepliesUp DEF MarksReady
<1>7. /\ ccServer' = ccServer /\ ccLatest' = ccLatest /\ ccRegistry' = ccRegistry
      /\ ccDown' \in [Procs -> Seq(DownFrames)]
  BY DEF MarksReady, Channel, ChannelTyped
<1>8. ~Agrees(f) /\ f.gen <= d.active /\ ccClient[p].active <= d.active /\ ccClient[p].state # "new"
  <2>1. ~Agrees(f)
    BY <1>5 DEF Agrees
  <2> HIDE DEF d, f
  <2>2. c.active <= c.cand /\ c.cand <= c.cand
    <3>1. c.active < c.cand /\ c.cand \in Nat /\ c.active \in Nat
      BY <1>1, <1>2
    <3> HIDE DEF c
    <3> QED BY ONLY <3>1
  <2> QED BY <2>1, <2>2, <1>1, <1>3, <1>5
<1> HIDE DEF c, d, f
<1> QED BY <1>3, <1>4, <1>5, <1>6, <1>7, <1>8, ClientStep

(* The steps of the host that leave what it serves alone.                  *)
LEMMA QuietClientStep ==
  ASSUME Channel, NEW p \in Procs, NEW d \in ClientSessions, ccClient' = [ccClient EXCEPT ![p] = d],
         ccClient[p].state # "new", d.state # "new", d.active = ccClient[p].active, d.cand \in {0, ccClient[p].cand},
         ccServer' = ccServer, ccScope' = ccScope, ccLatest' = ccLatest, ccRegistry' = ccRegistry,
         ccDown' \in [Procs -> Seq(DownFrames)],
         NEW f \in UpFrames, f.kind \in {"heartbeat", "drain_ack"},
         ccUp' = ccUp \/ ccUp' = [ccUp EXCEPT ![p] = Append(@, f)]
  PROVE  Channel' /\ [Cut!CutNext]_(Cut!cutVars)
<1>1. ccClient[p].active <= d.active /\ (d.cand # 0 => d.active < d.cand)
  BY Parts DEF Ordered
<1>2. ~Agrees(f) /\ f.kind # "ready"
  BY DEF Agrees
<1> QED BY <1>1, <1>2, ClientStep

(* So are the host's steps that activate nothing. *)
LEMMA QuietRefines ==
  ASSUME Channel, NEW p \in Procs, ccScope' = ccScope,
         \/ ActivationFails(p) \/ ClientBeats(p) \/ ClientCloses(p)
         \/ \E status \in {"progress", "completed", "forced"} : ReportsDrain(p, status)
  PROVE  Channel' /\ [Cut!CutNext]_(Cut!cutVars)
<1> DEFINE c == ccClient[p]
           beat == Frame("heartbeat", 0, "")
<1>1. /\ c \in ClientSessions /\ ccClient \in [Procs -> ClientSessions]
      /\ ccDown \in [Procs -> Seq(DownFrames)] /\ 0 \in Gens
  BY CcAssumption DEF Channel, ChannelTyped, Gens
<1>2. /\ "" \in Statuses /\ "progress" \in Statuses /\ "completed" \in Statuses /\ "forced" \in Statuses
  BY DEF Statuses, DrainStatuses
<1>3. beat \in UpFrames /\ beat.kind = "heartbeat"
  BY <1>1, <1>2 DEF Frame, UpFrames, FrameKinds
<1> HIDE DEF beat
<1>4. CASE ActivationFails(p)
  <2> DEFINE dropped == [c EXCEPT !.cand = 0, !.needs = TRUE]
             d == RestoreClient(dropped)
  <2>1. dropped \in ClientSessions /\ dropped.active = c.active /\ dropped.cand = 0
    BY <1>1 DEF ClientSessions
  <2> HIDE DEF dropped
  <2>2. d \in ClientSessions /\ d.state # "new" /\ d.active = c.active /\ d.cand = 0
    BY <2>1, RestoredIs
  <2>3. ccClient' = [ccClient EXCEPT ![p] = d] /\ c.state # "new"
    BY <1>1, <1>4 DEF ActivationFails, ClientOpen, dropped
  <2>4. /\ ccServer' = ccServer /\ ccLatest' = ccLatest /\ ccRegistry' = ccRegistry
        /\ ccDown' \in [Procs -> Seq(DownFrames)] /\ ccUp' = ccUp
    BY <1>1, <1>4 DEF ActivationFails
  <2> HIDE DEF d
  <2> QED BY <1>3, <2>2, <2>3, <2>4, QuietClientStep
<1>5. CASE ClientBeats(p)
  <2> DEFINE g == ReportedGeneration(c)
             f == Frame("heartbeat", g, "")
  <2>1. g \in Gens
    BY <1>1 DEF ReportedGeneration, ClientSessions
  <2> HIDE DEF g
  <2>2. f \in UpFrames /\ f.kind = "heartbeat"
    BY <2>1, <1>2 DEF Frame, UpFrames, FrameKinds
  <2>3. ccClient' = [ccClient EXCEPT ![p] = c] /\ c.state # "new"
    BY <1>1, <1>5 DEF ClientBeats, ClientOpen
  <2>4. /\ ccServer' = ccServer /\ ccLatest' = ccLatest /\ ccRegistry' = ccRegistry
        /\ ccDown' \in [Procs -> Seq(DownFrames)]
    BY <1>1, <1>5 DEF ClientBeats
  <2>5. ccUp' = ccUp \/ ccUp' = [ccUp EXCEPT ![p] = Append(@, f)]
    BY <1>5, RepliesUp DEF ClientBeats, g
  <2> HIDE DEF f
  <2> QED BY <1>1, <2>2, <2>3, <2>4, <2>5, QuietClientStep
<1>6. CASE ClientCloses(p)
  <2> DEFINE d == [c EXCEPT !.state = "closed", !.cand = 0, !.ready = 0, !.needs = FALSE]
  <2>1. d \in ClientSessions /\ d.state = "closed" /\ d.active = c.active /\ d.cand = 0
    BY <1>1 DEF ClientSessions, SessionStates
  <2>2. ccClient' = [ccClient EXCEPT ![p] = d] /\ c.state # "new"
    BY <1>1, <1>6 DEF ClientCloses, ClientOpen, ClientSessions
  <2>3. /\ ccServer' = ccServer /\ ccLatest' = ccLatest /\ ccRegistry' = ccRegistry /\ ccUp' = ccUp
    BY <1>6 DEF ClientCloses
  <2>4. ccDown' \in [Procs -> Seq(DownFrames)]
    BY <1>1, <1>6 DEF ClientCloses
  <2> HIDE DEF d
  <2> QED BY <1>3, <2>1, <2>2, <2>3, <2>4, QuietClientStep
<1>7. ASSUME NEW status \in {"progress", "completed", "forced"}, ReportsDrain(p, status)
      PROVE  Channel' /\ [Cut!CutNext]_(Cut!cutVars)
  <2> DEFINE told == IF c.drained \in DrainOutcomes THEN c.drained ELSE status
             d == [c EXCEPT !.drained = told]
             f == Frame("drain_ack", c.drain, told)
  <2>1. told \in Statuses /\ c.drain \in Gens
    BY <1>1, <1>2 DEF ClientSessions
  <2>2. ccClient' = [ccClient EXCEPT ![p] = d] /\ c.state # "new" /\ Replies(p, f)
    BY <1>1, <1>7 DEF ReportsDrain, ClientOpen, ClientSessions
  <2>3. /\ ccServer' = ccServer /\ ccLatest' = ccLatest /\ ccRegistry' = ccRegistry
        /\ ccDown' \in [Procs -> Seq(DownFrames)]
    BY <1>1, <1>7 DEF ReportsDrain
  <2> HIDE DEF told
  <2>4. d \in ClientSessions /\ d.state = c.state /\ d.active = c.active /\ d.cand = c.cand
    BY <1>1, <2>1 DEF ClientSessions
  <2>5. f \in UpFrames /\ f.kind = "drain_ack"
    BY <2>1 DEF Frame, UpFrames, FrameKinds
  <2>6. ccUp' = ccUp \/ ccUp' = [ccUp EXCEPT ![p] = Append(@, f)]
    BY <2>2, RepliesUp
  <2> HIDE DEF d, f
  <2> QED BY <2>2, <2>3, <2>4, <2>5, <2>6, QuietClientStep
<1> QED BY <1>4, <1>5, <1>6, <1>7

-----------------------------------------------------------------------------
(* The refinement.                                                         *)

(* So is a new configuration. *)
LEMMA AdvanceRefines ==
  ASSUME Channel, ccScope' = ccScope, ConfigurationAdvances
  PROVE  Channel' /\ [Cut!CutNext]_(Cut!cutVars)
<1>1. /\ ccRegistry' = ccRegistry /\ ccServer' = ccServer /\ ccClient' = ccClient
      /\ ccDown' = ccDown /\ ccUp' = ccUp
  BY DEF ConfigurationAdvances
<1>2. ccLatest' \in ConfigGens
  <2>1. ccScope.gen \in 1 .. CcMaxGen /\ ccLatest \in ConfigGens
    BY CcAssumption DEF Channel, ChannelTyped
  <2> QED BY <2>1, CcAssumption DEF ConfigurationAdvances, ConfigGens
<1>3. Channel'
  BY <1>1, <1>2 DEF Channel, ChannelTyped
<1>4. UNCHANGED Cut!cutVars
  BY <1>1 DEF Cut!cutVars
<1> QED BY <1>3, <1>4

(* Every step keeps the invariant and is a step, or a stutter, of the abstract cutover. *)
LEMMA ChannelNext ==
  ASSUME Channel, [CcNext]_ccVars
  PROVE  Channel' /\ [Cut!CutNext]_(Cut!cutVars)
<1>1. CASE UNCHANGED ccVars
  BY <1>1 DEF ccVars, Channel, ChannelTyped, Cut!cutVars
<1>2. CASE CcNext /\ ConfigurationAdvances
  BY <1>2, AdvanceRefines DEF CcNext
<1>3. ASSUME CcNext, NEW p \in 1 .. ccScope.proc, SessionSteps(p)
      PROVE  Channel' /\ [Cut!CutNext]_(Cut!cutVars)
  <2>1. p \in Procs
    <3>1. ccScope.proc \in 1 .. CcMaxProc
      BY CcAssumption DEF Channel, ChannelTyped
    <3> QED BY <3>1, CcAssumption DEF Procs
  <2>2. ccScope' = ccScope
    BY <1>3 DEF CcNext
  <2>3. CASE ServerAccepts(p)
    BY <2>1, <2>2, <2>3, AcceptRefines
  <2>4. CASE (\E g \in 1 .. ccLatest : OfferSnapshot(p, g)) \/ OfferDelta(p) \/ ServerBeginsDrain(p)
    BY <2>1, <2>2, <2>4, OffersRefine
  <2>5. CASE handleFrame(p)
    BY <2>1, <2>2, <2>5, HandleRefines
  <2>6. CASE ServerCloses(p)
    BY <2>1, <2>2, <2>6, CloseRefines DEF ServerCloses
  <2>7. CASE clientReads(p)
    BY <2>1, <2>2, <2>7, ReadsRefines
  <2>8. CASE MarksReady(p)
    BY <2>1, <2>2, <2>8, MarksReadyRefines
  <2>9. CASE \/ ActivationFails(p) \/ ClientBeats(p) \/ ClientCloses(p)
             \/ \E status \in {"progress", "completed", "forced"} : ReportsDrain(p, status)
    BY <2>1, <2>2, <2>9, QuietRefines
  <2> QED BY <1>3, <2>3, <2>4, <2>5, <2>6, <2>7, <2>8, <2>9 DEF SessionSteps
<1> QED BY <1>1, <1>2, <1>3 DEF CcNext

(* Initial states of the channel are initial states of the abstract cutover. *)
LEMMA CutoverStarts == CcInit => Cut!CutInit
BY DEF CcInit, Cut!CutInit, NoServerSession, NoClientSession

(* The control channel implements the cutover it promises, for any number  *)
(* of process generations, configuration generations and frames in flight: *)
(* the control plane's active generation follows the host's and never      *)
(* leads it, both only move forward, and only the registered session's     *)
(* moves (HandleReadiness, MarkReadyContext, OfferSnapshot, ApplySnapshot, *)
(* Attach).                                                                *)
THEOREM CutoverImplemented == CcSpec => ImplementsCutover
<1>1. CcInit => Channel /\ Cut!CutInit
  BY ChannelInit, CutoverStarts
<1>2. Channel /\ [CcNext]_ccVars => Channel' /\ [Cut!CutNext]_(Cut!cutVars)
  BY ChannelNext
<1> QED BY <1>1, <1>2, PTL DEF CcSpec, ImplementsCutover, Cut!CutSpec
=============================================================================
