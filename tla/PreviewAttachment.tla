-------------------------- MODULE PreviewAttachment --------------------------
(***************************************************************************)
(* The binding of one preview lease to the edge process that carries it     *)
(* (src/internal/previewattachment).  The host allocates an attachment      *)
(* row, renews, observes and releases it with a machine proof; the edge     *)
(* process pulls a complete snapshot of desired admissions and a list of    *)
(* detach commands, acknowledges what it installed and reports readiness.   *)
(* Every change of the row is a compare-and-swap on its attachment          *)
(* generation and its whole binding, and every change the edge has to hear  *)
(* of is written to an outbox in the same transaction.                      *)
(*                                                                          *)
(* Lease renewals and ends (PreviewLeases), edge registrations (RelayNodes  *)
(* and EdgeRoutes) and machine reconnects are events of the environment.    *)
(* A binding keeps its three moving parts: lease generation, connector      *)
(* process generation and edge process epoch.                               *)
(***************************************************************************)
EXTENDS Naturals, FiniteSets

CONSTANTS PaRequests,   \* concurrent requests of the host
          PaBounds,     \* bounds on lease, process and epoch generations; a
                        \* behaviour has one of them
          PaNone

PaAssumption ==
    /\ PaBounds \subseteq [lease : Nat \ {0}, proc : Nat \ {0}, epoch : Nat \ {0}, gen : Nat \ {0}]

VARIABLES paMax,     \* the bound this behaviour keeps to
          paLease,   \* the preview lease: active or not, and its generation
          paProc,    \* worker generation of the owner machine
          paNode,    \* the process epoch the edge node is registered with
          paRow,     \* the attachment row
          paOutbox,  \* admit and detach commands for the edge
          paCall,    \* requests of the host in progress
          paHandle,  \* the attachment the host was last told of
          paEdge,    \* what each edge process has installed and is doing
          paProven   \* carriers an edge process reported ready since the last rebinding

paVars == <<paMax, paLease, paProc, paNode, paRow, paOutbox, paCall, paHandle, paEdge, paProven>>

PaBindings == [lease : 1..paMax.lease, proc : 1..paMax.proc, epoch : 1..paMax.epoch]
PaLiveStates == {"pending", "admitted", "edge_ready", "ready"}

NoAttachment == [state |-> "none", gen |-> 0, bind |-> PaNone, late |-> FALSE]
NoCommand == [gen |-> 0, bind |-> PaNone]
NoHostCall == [op |-> "idle", bind |-> PaNone, gen |-> 0]
NewEdgeProcess == [has |-> NoCommand, stage |-> "idle", adm |-> NoCommand, det |-> {},
                   gone |-> {}, obs |-> NoCommand]

(***************************************************************************)
(* The rows                                                                 *)
(***************************************************************************)
isTerminal(row) == row.state \in {"failed", "released"}
CommandOf(row) == [gen |-> row.gen, bind |-> row.bind]

dataCarrierBindingEqual(a, b) == a.proc = b.proc /\ a.epoch = b.epoch
carrierBindingEqual(a, b) == a = b

\* The trigger that keeps a live row tied to an active lease.
AttachmentGuard(row) == isTerminal(row) \/ paLease.active

\* INSERT ... ON CONFLICT DO NOTHING of one command per generation and action.
Queued(box, action, cmd) ==
    IF \E o \in box : o.gen = cmd.gen /\ o.action = action THEN box
    ELSE box \cup {[gen |-> cmd.gen, action |-> action, bind |-> cmd.bind, state |-> "pending"]}
prepareAdmissionOutbox(box, row) == Queued(box, "admit", CommandOf(row))
enqueueDetachOutbox(box, row) == Queued(box, "detach", CommandOf(row))

prepareAdmissionTx(row) ==
    IF row.state = "pending" THEN prepareAdmissionOutbox(paOutbox, row) ELSE paOutbox

Advanced(row, state) == [row EXCEPT !.state = state, !.gen = @ + 1]

insertAttachment(b) == [state |-> "pending", gen |-> 1, bind |-> b, late |-> FALSE]

\* The updates: each applies to the row it read, at its generation, while it
\* has not expired, and leaves any other row alone.
Fenced(cmd) == paRow.gen = cmd.gen /\ paRow.bind = cmd.bind /\ ~isTerminal(paRow)

admitAttachment(row) == Advanced(row, "admitted")
observeEdgeAttachment(row) == Advanced(row, "edge_ready")
observeOriginAttachment(row, ready) == Advanced(row, IF ready THEN "ready" ELSE "edge_ready")
releaseAttachment(row) == [Advanced(row, "released") EXCEPT !.late = FALSE]
expireAttachment(row) == [Advanced(row, "failed") EXCEPT !.late = FALSE]

\* A carrier that changed in session, process or edge epoch is pending again;
\* a newer lease generation alone keeps the state.
renewAttachment(row, next) ==
    [state |-> IF dataCarrierBindingEqual(row.bind, next) THEN row.state ELSE "pending",
     gen |-> row.gen + 1, bind |-> next, late |-> FALSE]

\* The ghost: what was proved ready of the carrier the row names.
Reproven(row, next) == IF dataCarrierBindingEqual(row.bind, next) THEN paProven ELSE {}

(***************************************************************************)
(* What the requests read                                                   *)
(***************************************************************************)
ResolvePreviewLease == paLease.active
IssuePreviewCarrier == [lease |-> paLease.gen, proc |-> paProc, epoch |-> paNode]

assertPreviewEdgeProcessEpochTx(e) == paNode = e

ResolvePreviewAttachment(q, op, gen) ==
    /\ ResolvePreviewLease /\ ~isTerminal(paRow)
    /\ paCall' = [paCall EXCEPT ![q] = [op |-> op, bind |-> IssuePreviewCarrier, gen |-> gen]]
    /\ UNCHANGED <<paLease, paProc, paNode, paRow, paOutbox, paHandle, paEdge, paProven>>

(***************************************************************************)
(* The host's requests                                                      *)
(***************************************************************************)
\* Requests about an ended row only read it; they are not begun here.
PaRest(q) == paCall' = [paCall EXCEPT ![q] = NoHostCall]

\* The answer reaches the host or is lost.
PaAnswers(row) == paHandle' \in {paHandle, CommandOf(row)}

PaBeginAllocate(q) == paCall[q] = NoHostCall /\ ResolvePreviewAttachment(q, "allocate", 0)
PaBeginRenew(q) ==
    /\ paCall[q] = NoHostCall /\ paHandle # NoCommand
    /\ ResolvePreviewAttachment(q, "renew", paHandle.gen)

\* The repository transactions.
CreatePending(b) ==
    /\ paRow = NoAttachment /\ AttachmentGuard(insertAttachment(b))
    /\ paRow' = insertAttachment(b)
    /\ paOutbox' = prepareAdmissionOutbox(paOutbox, insertAttachment(b))
    /\ UNCHANGED paProven

RenewsAttachment(b) ==
    LET next == renewAttachment(paRow, b) IN
    /\ paRow.state \in PaLiveStates /\ ~paRow.late /\ paRow.gen < paMax.gen
    /\ AttachmentGuard(next)
    /\ paRow' = next
    /\ paOutbox' = IF next.state = "pending" THEN prepareAdmissionOutbox(paOutbox, next) ELSE paOutbox
    /\ paProven' = Reproven(paRow, b)

\* Allocate: insert, or find the row of the same operation and rebind it.
PaAllocate(q) ==
    /\ paCall[q].op = "allocate"
    /\ \/ CreatePending(paCall[q].bind)
       \/ /\ paRow.state \in PaLiveStates
          /\ ~carrierBindingEqual(paRow.bind, paCall[q].bind)
          /\ RenewsAttachment(paCall[q].bind)
       \/ /\ paRow.state \in PaLiveStates
          /\ carrierBindingEqual(paRow.bind, paCall[q].bind)
          /\ paOutbox' = prepareAdmissionTx(paRow)
          /\ UNCHANGED <<paRow, paProven>>
    /\ paCall' = [paCall EXCEPT ![q] = [op |-> "admit", bind |-> paCall[q].bind, gen |-> paRow'.gen]]
    /\ UNCHANGED <<paLease, paProc, paNode, paHandle, paEdge>>

\* The updates the requests end in, each fenced by the command it read.
AdmitsAttachment(cmd) ==
    IF paRow.state = "pending" /\ Fenced(cmd) /\ ~paRow.late THEN admitAttachment(paRow) ELSE paRow
ObservesEdge(cmd) ==
    /\ paRow.bind = cmd.bind /\ paRow.state = "admitted" /\ paRow.gen = cmd.gen + 1
    /\ ~paRow.late /\ paRow.gen < paMax.gen /\ AttachmentGuard(paRow)
ObservesOrigin(ready) ==
    /\ paRow.state \in {"edge_ready", "ready"} /\ ~paRow.late /\ paRow.gen < paMax.gen
    /\ AttachmentGuard(paRow)
    /\ paRow' = observeOriginAttachment(paRow, ready)
ReleasesAttachment(cmd) ==
    /\ Fenced(cmd)
    /\ paRow' = releaseAttachment(paRow)
    /\ paOutbox' = enqueueDetachOutbox(paOutbox, releaseAttachment(paRow))

\* PublishPreviewCarrierAdmission: accepted only when the edge acknowledged it.
PublishPreviewCarrierAdmission(cmd) ==
    \E o \in paOutbox : o.gen = cmd.gen /\ o.action = "admit" /\ o.state = "delivered"

\* Admit, the second half of the allocate handler: it resolves again, and
\* admits the row it was told of once the edge has acknowledged it.
PaAdmit(q) ==
    LET cmd == [gen |-> paCall[q].gen, bind |-> paCall[q].bind]
        admits == /\ ResolvePreviewLease /\ carrierBindingEqual(cmd.bind, IssuePreviewCarrier)
                  /\ PublishPreviewCarrierAdmission(cmd)
    IN /\ paCall[q].op = "admit"
       /\ paRow' = IF admits THEN AdmitsAttachment(cmd) ELSE paRow
       /\ PaRest(q)
       /\ IF isTerminal(paRow) THEN UNCHANGED paHandle ELSE PaAnswers(paRow')
       /\ UNCHANGED <<paLease, paProc, paNode, paOutbox, paEdge, paProven>>

\* Renew: fenced by the generation the host names.
PaRenew(q) ==
    /\ paCall[q].op = "renew" /\ paRow.gen = paCall[q].gen
    /\ RenewsAttachment(paCall[q].bind)
    /\ PaRest(q) /\ PaAnswers(paRow')
    /\ UNCHANGED <<paLease, paProc, paNode, paEdge>>

\* A request the row refuses, or whose caller went away.
PaRefused(q) ==
    /\ paCall[q].op \in {"allocate", "renew"}
    /\ PaRest(q)
    /\ UNCHANGED <<paLease, paProc, paNode, paRow, paOutbox, paHandle, paEdge, paProven>>

\* ObserveOrigin: for the carrier in force, at the row's generation or one
\* behind it when only the edge's report came between.
PaObserveOrigin(ready) ==
    /\ paHandle # NoCommand /\ paHandle.bind = paRow.bind
    /\ ResolvePreviewLease
    /\ carrierBindingEqual(paHandle.bind, IssuePreviewCarrier)
    /\ \/ paRow.gen = paHandle.gen
       \/ paRow.gen = paHandle.gen + 1 /\ paRow.state = "edge_ready" /\ ready
    /\ ObservesOrigin(ready)
    /\ PaAnswers(paRow')
    /\ UNCHANGED <<paLease, paProc, paNode, paOutbox, paCall, paEdge, paProven>>

\* Release needs the exact handle, not a live lease.
PaRelease ==
    /\ paHandle # NoCommand /\ ReleasesAttachment(paHandle)
    /\ UNCHANGED <<paLease, paProc, paNode, paCall, paHandle, paEdge, paProven>>

(***************************************************************************)
(* The maintenance worker                                                   *)
(***************************************************************************)
PaExpire ==
    /\ paRow.state \in PaLiveStates /\ paRow.late
    /\ paRow' = expireAttachment(paRow)
    /\ paOutbox' = enqueueDetachOutbox(paOutbox, expireAttachment(paRow))
    /\ UNCHANGED <<paLease, paProc, paNode, paCall, paHandle, paEdge, paProven>>

PaRequeue ==
    /\ \E o \in paOutbox : o.state = "in_flight"
    /\ paOutbox' = {IF o.state = "in_flight" THEN [o EXCEPT !.state = "pending"] ELSE o : o \in paOutbox}
    /\ UNCHANGED <<paLease, paProc, paNode, paRow, paCall, paHandle, paEdge, paProven>>

(***************************************************************************)
(* The edge's requests                                                      *)
(***************************************************************************)
EdgeIs(e, r) == paEdge' = [paEdge EXCEPT ![e] = r]
Delivered(cmd, action) ==
    paOutbox' = {IF o.gen = cmd.gen /\ o.action = action /\ o.bind = cmd.bind
                 THEN [o EXCEPT !.state = "delivered"] ELSE o : o \in paOutbox}

\* The generation of the newest admit command with the row's whole binding,
\* or the row's own when there is none.
SnapshotGeneration(row) ==
    LET same == {o \in paOutbox : o.action = "admit" /\ o.bind = row.bind}
    IN IF same = {} THEN row.gen ELSE (CHOOSE o \in same : \A p \in same : p.gen <= o.gen).gen

pullPreviewCarrierSnapshot(e) ==
    IF paRow.state \in PaLiveStates /\ paRow.bind.epoch = e /\ ~paRow.late /\ paLease.active
    THEN [gen |-> SnapshotGeneration(paRow), bind |-> paRow.bind] ELSE NoCommand

pullPreviewCarrierDetachOutbox(e) ==
    {o \in paOutbox : o.action = "detach" /\ o.bind.epoch = e /\ o.state = "pending"}

claimPreviewCarrierOutbox(claimed) ==
    (paOutbox \ claimed) \cup {[o EXCEPT !.state = "in_flight"] : o \in claimed}

\* One pull is two transactions, the snapshot and the detach commands.
PullPreviewCarrierSnapshot(e) ==
    /\ paEdge[e].stage = "idle" /\ assertPreviewEdgeProcessEpochTx(e)
    /\ EdgeIs(e, [paEdge[e] EXCEPT !.stage = "snap", !.adm = pullPreviewCarrierSnapshot(e)])
    /\ UNCHANGED <<paLease, paProc, paNode, paRow, paOutbox, paCall, paHandle, paProven>>

PullPreviewCarrierDetachOutbox(e) ==
    LET claimed == pullPreviewCarrierDetachOutbox(e) IN
    /\ paEdge[e].stage = "snap" /\ assertPreviewEdgeProcessEpochTx(e)
    /\ paOutbox' = claimPreviewCarrierOutbox(claimed)
    /\ EdgeIs(e, [paEdge[e] EXCEPT !.stage = "sent",
                                   !.det = {[gen |-> o.gen, bind |-> o.bind] : o \in claimed}])
    /\ UNCHANGED <<paLease, paProc, paNode, paRow, paCall, paHandle, paProven>>

\* The edge process replaces what it has by the snapshot, and then drops what
\* it was told to detach.
PaInstall(e) ==
    LET p == paEdge[e] IN
    /\ p.stage = "sent"
    /\ EdgeIs(e, [p EXCEPT !.stage = "idle", !.adm = NoCommand, !.det = {},
                           !.has = IF p.det = {} THEN p.adm ELSE NoCommand,
                           !.gone = @ \cup p.det])
    /\ UNCHANGED <<paLease, paProc, paNode, paRow, paOutbox, paCall, paHandle, paProven>>

\* The answer to a pull is lost.
PaPullLost(e) ==
    /\ paEdge[e].stage \in {"snap", "sent"}
    /\ EdgeIs(e, [paEdge[e] EXCEPT !.stage = "idle", !.adm = NoCommand, !.det = {}])
    /\ UNCHANGED <<paLease, paProc, paNode, paRow, paOutbox, paCall, paHandle, paProven>>

\* The admission transaction of an acknowledgement.
acknowledgeAdmissionTx(cmd) ==
    /\ \E o \in paOutbox : o.gen = cmd.gen /\ o.action = "admit" /\ o.bind = cmd.bind
                           /\ o.state # "delivered"
    /\ paRow.bind = cmd.bind
    /\ \/ paRow.gen >= cmd.gen + 1 /\ paRow.state \in {"admitted", "edge_ready", "ready"}
       \/ /\ paRow.state = "pending" /\ paRow.gen = cmd.gen /\ ~paRow.late /\ paRow.gen < paMax.gen
          /\ AttachmentGuard(paRow)
    /\ paRow' = IF paRow.state = "pending" THEN admitAttachment(paRow) ELSE paRow
    /\ Delivered(cmd, "admit")

AcknowledgePreviewCarrierOutbox(e, cmd, action) ==
    /\ assertPreviewEdgeProcessEpochTx(e)
    /\ IF action = "admit" THEN acknowledgeAdmissionTx(cmd)
       ELSE Delivered(cmd, action) /\ UNCHANGED paRow

PaAck(e) ==
    /\ paEdge[e].has # NoCommand
    /\ AcknowledgePreviewCarrierOutbox(e, paEdge[e].has, "admit")
    /\ UNCHANGED <<paLease, paProc, paNode, paCall, paHandle, paEdge, paProven>>

\* An observation: the node is verified before the handler acts on it.
VerifyPreviewEdgeRequest(e) ==
    /\ paEdge[e].has # NoCommand /\ paEdge[e].obs = NoCommand
    /\ paNode = e
    /\ EdgeIs(e, [paEdge[e] EXCEPT !.obs = paEdge[e].has])
    /\ UNCHANGED <<paLease, paProc, paNode, paRow, paOutbox, paCall, paHandle, paProven>>

observeOne(e) ==
    LET cmd == paEdge[e].obs
        applies == ObservesEdge(cmd)
    IN /\ cmd # NoCommand
       /\ paRow' = IF applies THEN observeEdgeAttachment(paRow) ELSE paRow
       /\ paProven' = IF applies THEN paProven \cup {cmd.bind} ELSE paProven
       /\ EdgeIs(e, [paEdge[e] EXCEPT !.obs = NoCommand])
       /\ UNCHANGED <<paLease, paProc, paNode, paOutbox, paCall, paHandle>>

\* The edge reports a detachment; the report may be lost.
PaDetach(e) ==
    \E cmd \in paEdge[e].gone :
        /\ EdgeIs(e, [paEdge[e] EXCEPT !.gone = @ \ {cmd}])
        /\ paRow.bind = cmd.bind /\ isTerminal(paRow) /\ paRow.gen = cmd.gen
        /\ AcknowledgePreviewCarrierOutbox(e, cmd, "detach")
        /\ UNCHANGED <<paLease, paProc, paNode, paCall, paHandle, paProven>>
PaDetachLost(e) ==
    /\ paEdge[e].gone # {}
    /\ EdgeIs(e, [paEdge[e] EXCEPT !.gone = {}])
    /\ UNCHANGED <<paLease, paProc, paNode, paRow, paOutbox, paCall, paHandle, paProven>>

(***************************************************************************)
(* The environment                                                          *)
(***************************************************************************)
PaLeaseRenews ==
    /\ paLease.active /\ paLease.gen < paMax.lease
    /\ paLease' = [paLease EXCEPT !.gen = @ + 1]
    /\ UNCHANGED <<paProc, paNode, paRow, paOutbox, paCall, paHandle, paEdge, paProven>>
PaLeaseEnds ==
    /\ paLease.active
    /\ paLease' = [paLease EXCEPT !.active = FALSE]
    /\ UNCHANGED <<paProc, paNode, paRow, paOutbox, paCall, paHandle, paEdge, paProven>>
PaReconnects ==
    /\ paProc < paMax.proc
    /\ paProc' = paProc + 1
    /\ UNCHANGED <<paLease, paNode, paRow, paOutbox, paCall, paHandle, paEdge, paProven>>
\* A new edge process registers.  The old one keeps what it has and the
\* observation the server already verified; its other answers and reports in
\* flight can change nothing at the server any more and are dropped.
PaEdgeReplaced ==
    /\ paNode < paMax.epoch
    /\ paNode' = paNode + 1
    /\ EdgeIs(paNode, [NewEdgeProcess EXCEPT !.has = paEdge[paNode].has, !.obs = paEdge[paNode].obs])
    /\ UNCHANGED <<paLease, paProc, paRow, paOutbox, paCall, paHandle, paProven>>
PaTimePasses ==
    /\ paRow.state \in PaLiveStates /\ ~paRow.late
    /\ paRow' = [paRow EXCEPT !.late = TRUE]
    /\ UNCHANGED <<paLease, paProc, paNode, paOutbox, paCall, paHandle, paEdge, paProven>>

(***************************************************************************)
(* The specification                                                        *)
(***************************************************************************)
PaInit ==
    /\ paMax \in PaBounds
    /\ paLease = [active |-> TRUE, gen |-> 1] /\ paProc = 1
    /\ paNode = 1
    /\ paRow = NoAttachment /\ paOutbox = {} /\ paHandle = NoCommand
    /\ paCall = [q \in PaRequests |-> NoHostCall]
    /\ paEdge = [e \in 1..paMax.epoch |-> NewEdgeProcess]
    /\ paProven = {}

PaStep ==
    \/ \E q \in PaRequests : \/ PaBeginAllocate(q) \/ PaBeginRenew(q) \/ PaAllocate(q)
                             \/ PaAdmit(q) \/ PaRenew(q) \/ PaRefused(q)
    \/ \E ready \in BOOLEAN : PaObserveOrigin(ready)
    \/ PaRelease \/ PaExpire \/ PaRequeue
    \/ \E e \in 1..paNode :
          \/ PullPreviewCarrierSnapshot(e) \/ PullPreviewCarrierDetachOutbox(e)
          \/ PaInstall(e) \/ PaPullLost(e) \/ PaAck(e)
          \/ VerifyPreviewEdgeRequest(e) \/ observeOne(e) \/ PaDetach(e) \/ PaDetachLost(e)
    \/ PaLeaseRenews \/ PaLeaseEnds \/ PaReconnects \/ PaEdgeReplaced
    \/ PaTimePasses

PaNext == PaStep /\ UNCHANGED paMax
PaSpec == PaInit /\ [][PaNext]_paVars

(***************************************************************************)
(* Properties                                                               *)
(***************************************************************************)
PaTypeOK ==
    /\ paRow.state \in PaLiveStates \cup {"none", "failed", "released"} /\ paRow.gen \in 0..paMax.gen + 1
    /\ \A o \in paOutbox : o.gen \in 1..paMax.gen + 1 /\ o.bind \in PaBindings
                           /\ o.state \in {"pending", "in_flight", "delivered"}

\* A row is shown as edge-ready or ready only when an edge process reported
\* exactly this carrier, session and edge epoch, since the row last went back
\* to pending: neither a renewal that changes the carrier nor a late report
\* leaves readiness of another process behind (renewAttachmentSQL, ObserveEdge).
ReadinessIsOfThisCarrier ==
    paRow.state \in {"edge_ready", "ready"} =>
        \E b \in paProven : dataCarrierBindingEqual(b, paRow.bind)

\* A detach command counts as delivered only when the edge process it names
\* does not carry the preview, and it never carries it again: snapshots of
\* ended rows, answers in flight and re-delivered commands do not bring it
\* back (PullPreviewCarrierSnapshot, detach).
DetachedStaysGone ==
    \A o \in paOutbox : (o.action = "detach" /\ o.state = "delivered")
        => paEdge[o.bind.epoch].has = NoCommand /\ paEdge[o.bind.epoch].adm = NoCommand

\* An attachment is admitted only by the registered process of the node its
\* binding names: an acknowledgement of a replaced process admits nothing
\* (assertPreviewEdgeProcessEpochTx).
AdmittedByRegisteredProcess ==
    (paRow.state = "pending" /\ paRow'.state = "admitted")
       => paRow.bind.epoch = paNode

=============================================================================
