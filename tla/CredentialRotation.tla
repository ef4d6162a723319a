------------------------- MODULE CredentialRotation -------------------------
(***************************************************************************)
(* Rotation of the connector credentials of one tunnel                     *)
(* (connectorprotocol/rotation.go, rotation_dispatcher.go and the rotation *)
(* half of sql_store.go).  A rotation operation captures every connector   *)
(* of the tunnel as a target.  Per target the dispatcher challenges the    *)
(* live session of the old credential, stages the new credential on a      *)
(* proof, sees the connector come back on the new one, and, once EVERY     *)
(* target is ready, asks each connector to give up the old credential.     *)
(* The coordinator's memory is rebuilt from the rows before each step, so  *)
(* the rows are the state; every store call is one transaction.            *)
(*                                                                         *)
(* A session is its process generation: a connector has at most one live   *)
(* session and generations only grow (ConnectorSessions).                  *)
(***************************************************************************)
EXTENDS Naturals, FiniteSets

CONSTANTS
  RtConnectors,   \* connectors of the tunnel
  RtOps,          \* rotation operations that may be requested
  RtMaxGen,       \* bound: credential generations of a connector
  RtMaxProc,      \* bound: process generations of a connector
  RtNone          \* no operation

RtAssumption ==
  /\ RtMaxGen \in Nat \ {0, 1}
  /\ RtMaxProc \in Nat \ {0}
  /\ RtNone \notin RtOps

VARIABLES
  rtConn,      \* tunnel_connectors: rotation_generation and whether revoked
  rtCred,      \* tunnel_connector_credential_generations, per connector
  rtSession,   \* the newest session of each connector
  rtOp,        \* operations of type connector.credentials.rotate: state
  rtOver,      \* has overlap_until of the operation passed
  rtTarget     \* tunnel_connector_rotation_targets

rtVars == <<rtConn, rtCred, rtSession, rtOp, rtOver, rtTarget>>

Generations == 1..RtMaxGen
Processes == 0..RtMaxProc

NoGeneration == [state |-> "none", op |-> RtNone, valid |-> FALSE]
NoTarget == [state |-> "none", old |-> 0, proof |-> 0, replacement |-> 0,
             revoke |-> 0, late |-> FALSE]

TargetStates == {"none", "pending", "challenged", "installed", "ready",
                 "revoking", "revoked", "failed"}

(* Types of the rows. *)
RtTypeOK ==
  /\ rtConn \in [RtConnectors -> [generation : Generations, revoked : BOOLEAN]]
  /\ \A c \in RtConnectors : \A g \in Generations :
       /\ rtCred[c][g].state \in {"none", "active", "overlap", "revoked"}
       /\ rtCred[c][g].op \in RtOps \cup {RtNone}
       /\ rtCred[c][g].valid \in BOOLEAN
  /\ rtSession \in [RtConnectors -> [proc : Processes, cred : Generations,
                                     live : BOOLEAN]]
  /\ rtOp \in [RtOps -> {"none", "running", "uncertain", "succeeded", "failed"}]
  /\ rtOver \in [RtOps -> BOOLEAN]
  /\ \A o \in RtOps, c \in RtConnectors :
       /\ rtTarget[o][c].state \in TargetStates
       /\ rtTarget[o][c].old \in 0..RtMaxGen
       /\ {rtTarget[o][c].proof, rtTarget[o][c].replacement,
           rtTarget[o][c].revoke} \subseteq Processes
       /\ rtTarget[o][c].late \in BOOLEAN

RtInit ==
  /\ rtConn = [c \in RtConnectors |-> [generation |-> 1, revoked |-> FALSE]]
  /\ rtCred = [c \in RtConnectors |-> [g \in Generations |->
                 IF g = 1 THEN [state |-> "active", op |-> RtNone, valid |-> TRUE]
                          ELSE NoGeneration]]
  /\ rtSession = [c \in RtConnectors |-> [proc |-> 0, cred |-> 1, live |-> FALSE]]
  /\ rtOp = [o \in RtOps |-> "none"]
  /\ rtOver = [o \in RtOps |-> FALSE]
  /\ rtTarget = [o \in RtOps |-> [c \in RtConnectors |-> NoTarget]]

-----------------------------------------------------------------------------
(* Reading the rows.                                                       *)

OpenRotation(o) == rtOp[o] \in {"running", "uncertain"}
OldGeneration(o, c) == rtTarget[o][c].old
NewGeneration(o, c) == rtTarget[o][c].old + 1
TargetIn(o, c, states) == rtTarget[o][c].state \in states
RotationTargets(o) == {c \in RtConnectors : ~TargetIn(o, c, {"none"})}

(* loadProofMaterial's condition on a credential generation. *)
UsableCredential(c, g) == /\ rtCred[c][g].state \in {"active", "overlap"}
                          /\ rtCred[c][g].valid
                          /\ ~rtConn[c].revoked

(* The session p of c is live on credential generation g, and c may go on. *)
authorizeRotationSession(c, p, g) ==
  /\ rtSession[c] = [proc |-> p, cred |-> g, live |-> TRUE]
  /\ ~rtConn[c].revoked

authorizeRotationRecoverySession(c, p, g) ==
  /\ rtSession[c].live
  /\ rtSession[c].proc = p
  /\ ~rtConn[c].revoked
  /\ rtSession[c].cred = g

(* A staged credential is taken for a ready one (mutant only). *)
LaggardsBeforeInstall(o) ==
  {c \in RotationTargets(o) : TargetIn(o, c, {"pending", "challenged", "failed"})}

(* The targets that still count as incomplete. *)
IncompleteTargets(o) ==
  {c \in RotationTargets(o) : ~TargetIn(o, c, {"ready", "revoking", "revoked"})}

allRotationTargetsReady(o) ==
  RotationTargets(o) # {} /\ IncompleteTargets(o) = {}

SetTarget(o, c, t) == rtTarget' = [rtTarget EXCEPT ![o][c] = t]

(* rotationResultAckMatchesTarget / rotationNegativeAckMatches: the session *)
(* a negative answer must come from.                                       *)
AnsweringSession(t) ==
  CASE t.state \in {"challenged", "installed"} -> t.proof
    [] t.state = "ready" -> t.replacement
    [] t.state = "revoking" -> t.revoke
    [] OTHER -> 0

-----------------------------------------------------------------------------
(* The request: every connector not revoked becomes a target.              *)

ListActiveTunnelConnectorsForUpdateV1 == {c \in RtConnectors : ~rtConn[c].revoked}

RotateResourceCredentials(o) ==
  LET targets == ListActiveTunnelConnectorsForUpdateV1
  IN  /\ rtOp[o] = "none"
      /\ \A c \in targets : rtConn[c].generation < RtMaxGen
      /\ rtOp' = [rtOp EXCEPT ![o] = IF targets = {} THEN "succeeded" ELSE "running"]
      /\ rtTarget' = [rtTarget EXCEPT ![o] = [c \in RtConnectors |->
           IF c \in targets
           THEN [NoTarget EXCEPT !.state = "pending", !.old = rtConn[c].generation]
           ELSE NoTarget]]
      /\ UNCHANGED <<rtConn, rtCred, rtSession, rtOver>>

(* The service: a replayed request finds its operation and changes nothing. *)
RotateCredentials(o) == rtOp[o] = "none" /\ RotateResourceCredentials(o)

-----------------------------------------------------------------------------
(* The store: one transaction each.                                        *)

(* A pending target takes a challenge for an authorised session; an expired *)
(* one takes a fresh challenge without looking at the session again.        *)
RecordCredentialRotationChallenge(o, c, p) ==
  /\ \/ TargetIn(o, c, {"pending"}) /\ authorizeRotationSession(c, p, OldGeneration(o, c))
     \/ TargetIn(o, c, {"challenged"}) /\ rtTarget[o][c].late
  /\ SetTarget(o, c, [rtTarget[o][c] EXCEPT !.state = "challenged",
                                           !.proof = p, !.late = FALSE])
  /\ UNCHANGED <<rtConn, rtCred, rtSession, rtOp, rtOver>>

(* verifyRotationProofInTx: the proof is signed with the old credential. *)
verifyRotationProofInTx(o, c) == UsableCredential(c, OldGeneration(o, c))

(* INSERT ... ON CONFLICT DO NOTHING, then the stored row must be ours. *)
StagedCredential(o, c) ==
  IF rtCred[c][NewGeneration(o, c)].state = "none"
  THEN [state |-> "overlap", op |-> o, valid |-> TRUE]
  ELSE rtCred[c][NewGeneration(o, c)]

RecordCredentialRotationProof(o, c) ==
  LET staged == StagedCredential(o, c)
  IN  /\ TargetIn(o, c, {"challenged"})
      /\ authorizeRotationSession(c, rtTarget[o][c].proof, OldGeneration(o, c))
      /\ verifyRotationProofInTx(o, c)
      /\ staged.op = o /\ staged.state = "overlap"
      /\ OpenRotation(o)
      /\ rtCred' = [rtCred EXCEPT ![c][NewGeneration(o, c)] = staged]
      /\ SetTarget(o, c, [rtTarget[o][c] EXCEPT !.state = "installed"])
      /\ rtOp' = [rtOp EXCEPT ![o] = "running"]
      /\ UNCHANGED <<rtConn, rtSession, rtOver>>

(* Old generation to overlap, new generation to active, in one transaction. *)
PromoteStaged(o, c) ==
  rtCred' = [rtCred EXCEPT ![c][OldGeneration(o, c)].state = "overlap",
                           ![c][NewGeneration(o, c)].state = "active"]

RecordCredentialRotationReady(o, c, p) ==
  LET old == OldGeneration(o, c)
      new == NewGeneration(o, c)
  IN  /\ TargetIn(o, c, {"installed"})
      /\ ~rtOver[o]
      /\ rtSession[c] = [proc |-> p, cred |-> new, live |-> TRUE]
      /\ rtCred[c][old].state = "active" /\ rtCred[c][old].valid
      /\ rtCred[c][new].state = "overlap" /\ rtCred[c][new].valid
      /\ rtConn[c] = [generation |-> old, revoked |-> FALSE]
      /\ PromoteStaged(o, c)
      /\ SetTarget(o, c, [rtTarget[o][c] EXCEPT !.state = "ready", !.replacement = p])
      /\ rtConn' = [rtConn EXCEPT ![c].generation = new]
      /\ UNCHANGED <<rtSession, rtOp, rtOver>>

RecordCredentialRotationRevoke(o, c) ==
  /\ TargetIn(o, c, {"ready"})
  /\ IncompleteTargets(o) = {}
  /\ SetTarget(o, c, [rtTarget[o][c] EXCEPT !.state = "revoking", !.late = FALSE,
                                           !.revoke = rtTarget[o][c].replacement])
  /\ UNCHANGED <<rtConn, rtCred, rtSession, rtOp, rtOver>>

(* updateRotationOperation: the aggregate from the targets it is left with. *)
updateRotationOperation(o, targets, failed) ==
  IF failed THEN "failed"
  ELSE IF \A c \in RotationTargets(o) : targets[c].state = "revoked" THEN "succeeded"
  ELSE "running"

(* RecordCredentialRotationResult with a negative answer from session p. *)
RecordNegativeResult(o, c, p) ==
  /\ AnsweringSession(rtTarget[o][c]) = p /\ p # 0
  /\ OpenRotation(o)
  /\ SetTarget(o, c, [rtTarget[o][c] EXCEPT !.state = "failed"])
  /\ rtOp' = [rtOp EXCEPT ![o] = updateRotationOperation(o, rtTarget[o], TRUE)]
  /\ UNCHANGED <<rtConn, rtCred, rtSession, rtOver>>

(* What the 'revoked' answer of session p must satisfy in the transaction. *)
RevokedAnswerFits(o, c, p) ==
  /\ TargetIn(o, c, {"revoking"})
  /\ p = rtTarget[o][c].replacement
  /\ rtSession[c].live /\ rtSession[c].proc = p
  /\ ~rtConn[c].revoked
  /\ rtSession[c].cred = NewGeneration(o, c)

(* RecordCredentialRotationResult with 'revoked' from session p. *)
RecordRevokedResult(o, c, p) ==
  LET targets == [rtTarget[o] EXCEPT ![c].state = "revoked"]
  IN  /\ RevokedAnswerFits(o, c, p)
      /\ rtCred[c][OldGeneration(o, c)].state = "overlap"
      /\ OpenRotation(o)
      /\ rtTarget' = [rtTarget EXCEPT ![o] = targets]
      /\ rtCred' = [rtCred EXCEPT ![c][OldGeneration(o, c)].state = "revoked"]
      /\ rtOp' = [rtOp EXCEPT ![o] = updateRotationOperation(o, targets, FALSE)]
      /\ UNCHANGED <<rtConn, rtSession, rtOver>>

(* The proof was stored but the install was lost: discard the staged row. *)
ResetCredentialRotationInstall(o, c, p) ==
  LET new == NewGeneration(o, c)
  IN  /\ TargetIn(o, c, {"installed"})
      /\ p > rtTarget[o][c].proof
      /\ authorizeRotationRecoverySession(c, p, OldGeneration(o, c))
      /\ rtCred[c][new].state = "overlap" /\ rtCred[c][new].op = o
      /\ rtCred' = [rtCred EXCEPT ![c][new] = NoGeneration]
      /\ SetTarget(o, c, [rtTarget[o][c] EXCEPT !.state = "challenged", !.late = TRUE,
                                               !.replacement = 0, !.revoke = 0])
      /\ UNCHANGED <<rtConn, rtSession, rtOp, rtOver>>

RebindCredentialRotationRevoke(o, c, p) ==
  /\ TargetIn(o, c, {"revoking"})
  /\ p > rtTarget[o][c].revoke
  /\ authorizeRotationRecoverySession(c, p, NewGeneration(o, c))
  /\ SetTarget(o, c, [rtTarget[o][c] EXCEPT !.revoke = p, !.late = FALSE])
  /\ UNCHANGED <<rtConn, rtCred, rtSession, rtOp, rtOver>>

(* The staged verifier of this operation, if there is one, is revoked. *)
RevokeStaged(o, c) ==
  LET new == NewGeneration(o, c)
  IN  IF rtCred[c][new].op = o /\ rtCred[c][new].state = "overlap"
      THEN [rtCred EXCEPT ![c][new].state = "revoked"]
      ELSE rtCred

FailCredentialRotationTarget(o, c) ==
  /\ TargetIn(o, c, {"pending", "challenged", "installed"})
  /\ OpenRotation(o)
  /\ rtCred' = RevokeStaged(o, c)
  /\ SetTarget(o, c, [rtTarget[o][c] EXCEPT !.state = "failed"])
  /\ rtOp' = [rtOp EXCEPT ![o] = "failed"]
  /\ UNCHANGED <<rtConn, rtSession, rtOver>>

(* Plans of running operations only (mutant only). *)
ListsRunningPlans == {o \in RtOps : rtOp[o] = "running"}

ListCredentialRotationPlans == {o \in RtOps : OpenRotation(o)}

-----------------------------------------------------------------------------
(* The coordinator, resumed from the rows.                                 *)

(* The phases a row claims, and the phase boundary a resumed row must respect. *)
HasInstall(t) == t.state \in {"installed", "ready", "revoking", "revoked"}
HasReady(t) == t.state \in {"ready", "revoking", "revoked"}
HasRevoke(t) == t.state \in {"revoking", "revoked"}

validateRotationResumeTarget(t) ==
  /\ HasInstall(t) => t.proof # 0
  /\ HasReady(t) => t.replacement > t.proof
  /\ HasRevoke(t) => t.revoke >= t.replacement
  /\ t.state = "pending" => t.proof = 0
  /\ t.state = "challenged" => t.proof # 0

Resume(o) ==
  \A c \in RotationTargets(o) : validateRotationResumeTarget(rtTarget[o][c])

(* coordinator / findCoordinator: a listed plan, resumed. *)
Resumed(o) == o \in ListCredentialRotationPlans /\ Resume(o)

(* frameMatchesSession: frames count only from the registered session. *)
frameMatchesSession(c) == rtSession[c].live

ChallengeWithCredentialExpiry(o, c, p) ==
  /\ TargetIn(o, c, {"pending"}) \/ (TargetIn(o, c, {"challenged"}) /\ rtTarget[o][c].late)
  /\ authorizeRotationSession(c, p, OldGeneration(o, c))
  /\ RecordCredentialRotationChallenge(o, c, p)

AcceptProof(o, c, p) ==
  /\ TargetIn(o, c, {"challenged"})
  /\ rtTarget[o][c].proof = p
  /\ ~rtTarget[o][c].late /\ ~rtOver[o]
  /\ RecordCredentialRotationProof(o, c)

MarkReady(o, c, p) ==
  /\ TargetIn(o, c, {"installed"})
  /\ p > rtTarget[o][c].proof
  /\ RecordCredentialRotationReady(o, c, p)

RevokeOldCredential(o, c) ==
  /\ \A d \in RotationTargets(o) : ~TargetIn(o, d, {"failed"})
  /\ allRotationTargetsReady(o)
  /\ RecordCredentialRotationRevoke(o, c)

HandleNegativeAck(o, c, p) ==
  /\ ~TargetIn(o, c, {"revoked", "failed"})
  /\ AnsweringSession(rtTarget[o][c]) = p
  /\ RecordNegativeResult(o, c, p)

HandleRevokedAck(o, c, p) ==
  /\ TargetIn(o, c, {"revoking"})
  /\ rtTarget[o][c].revoke = p
  /\ RecordRevokedResult(o, c, p)

FailRevoking(o, c) ==
  /\ ~TargetIn(o, c, {"revoked", "failed"})
  /\ RecordNegativeResult(o, c, AnsweringSession(rtTarget[o][c]))

-----------------------------------------------------------------------------
(* The dispatcher: reconciling a listed plan, and frames of the registered *)
(* session.                                                                *)

(* Reconciling target c of plan o, by the state of the target. *)
reconcileTarget(o, c) ==
  LET s == rtSession[c]
      t == rtTarget[o][c]
      early == TargetIn(o, c, {"pending", "challenged", "installed"})
  IN  /\ Resumed(o)
      /\ \/ early /\ rtOver[o] /\ FailCredentialRotationTarget(o, c)
         \/ /\ ~rtOver[o] /\ s.live /\ s.cred = t.old
            /\ ChallengeWithCredentialExpiry(o, c, s.proc)
         \/ /\ ~rtOver[o] /\ s.live /\ s.cred = t.old
            /\ ResetCredentialRotationInstall(o, c, s.proc)
         \/ RevokeOldCredential(o, c)
         \/ TargetIn(o, c, {"revoking"}) /\ t.late /\ FailRevoking(o, c)
         \/ ~t.late /\ s.live /\ RebindCredentialRotationRevoke(o, c, s.proc)

(* Frames: the connector answers on its live session. *)
ProofArrives(o, c) ==
  /\ Resumed(o)
  /\ frameMatchesSession(c) /\ rtSession[c].cred = OldGeneration(o, c)
  /\ AcceptProof(o, c, rtSession[c].proc)

ReadyArrives(o, c) ==
  /\ Resumed(o)
  /\ frameMatchesSession(c) /\ rtSession[c].cred = NewGeneration(o, c)
  /\ MarkReady(o, c, rtSession[c].proc)

RevokedAckArrives(o, c) ==
  /\ Resumed(o)
  /\ frameMatchesSession(c)
  /\ HandleRevokedAck(o, c, rtSession[c].proc)

NegativeAckArrives(o, c) ==
  /\ Resumed(o)
  /\ frameMatchesSession(c)
  /\ HandleNegativeAck(o, c, rtSession[c].proc)

-----------------------------------------------------------------------------
(* Sessions, revocation, time.                                             *)

(* markDisconnectedOperations: rotations with an unfinished target that is *)
(* bound to the lost session, or to none, become uncertain.                *)
Disconnected(c) ==
  [o \in RtOps |->
     IF /\ OpenRotation(o)
        /\ ~TargetIn(o, c, {"none", "revoked", "failed"})
        /\ \/ rtSession[c].proc \in {rtTarget[o][c].proof, rtTarget[o][c].replacement}
           \/ rtTarget[o][c].proof = 0 /\ rtTarget[o][c].replacement = 0
     THEN "uncertain" ELSE rtOp[o]]

(* A connector (re)connects with a usable credential, replacing its session. *)
RotationSessionOpens(c, g) ==
  /\ rtSession[c].proc < RtMaxProc
  /\ UsableCredential(c, g)
  /\ rtSession' = [rtSession EXCEPT ![c] = [proc |-> @.proc + 1, cred |-> g, live |-> TRUE]]
  /\ rtOp' = IF rtSession[c].live THEN Disconnected(c) ELSE rtOp
  /\ UNCHANGED <<rtConn, rtCred, rtOver, rtTarget>>

RotationSessionEnds(c) ==
  /\ rtSession[c].live
  /\ rtSession' = [rtSession EXCEPT ![c].live = FALSE]
  /\ rtOp' = Disconnected(c)
  /\ UNCHANGED <<rtConn, rtCred, rtOver, rtTarget>>

ConnectorRevoked(c) ==
  /\ ~rtConn[c].revoked
  /\ rtConn' = [rtConn EXCEPT ![c].revoked = TRUE]
  /\ UNCHANGED <<rtCred, rtSession, rtOp, rtOver, rtTarget>>

OverlapEnds(o) ==
  /\ rtOp[o] # "none" /\ ~rtOver[o]
  /\ rtOver' = [rtOver EXCEPT ![o] = TRUE]
  /\ rtCred' = [c \in RtConnectors |-> [g \in Generations |->
       [rtCred[c][g] EXCEPT !.valid =
          @ /\ ~(rtTarget[o][c].replacement # 0 /\ g = OldGeneration(o, c))]]]
  /\ UNCHANGED <<rtConn, rtSession, rtOp, rtTarget>>

(* A challenge, or the deadline of a revoke, expires. *)
TargetFallsLate(o, c) ==
  /\ OpenRotation(o) /\ TargetIn(o, c, {"challenged", "revoking"}) /\ ~rtTarget[o][c].late
  /\ SetTarget(o, c, [rtTarget[o][c] EXCEPT !.late = TRUE])
  /\ UNCHANGED <<rtConn, rtCred, rtSession, rtOp, rtOver>>

RtNext ==
  \/ \E o \in RtOps : RotateCredentials(o) \/ OverlapEnds(o)
  \/ \E o \in RtOps, c \in RtConnectors :
       \/ reconcileTarget(o, c)
       \/ ProofArrives(o, c)
       \/ ReadyArrives(o, c)
       \/ RevokedAckArrives(o, c)
       \/ NegativeAckArrives(o, c)
       \/ TargetFallsLate(o, c)
  \/ \E c \in RtConnectors :
       \/ RotationSessionEnds(c)
       \/ ConnectorRevoked(c)
       \/ \E g \in Generations : RotationSessionOpens(c, g)

RtSpec == RtInit /\ [][RtNext]_rtVars

(* Time passes, and the dispatcher's Run loop keeps reconciling. *)
RtFairness ==
  \A o \in RtOps : /\ WF_rtVars(OverlapEnds(o))
                   /\ \A c \in RtConnectors : /\ WF_rtVars(reconcileTarget(o, c))
                                              /\ WF_rtVars(TargetFallsLate(o, c))

-----------------------------------------------------------------------------
(* Properties.                                                             *)

(* "Readers never observe a connector without an active key": exactly one  *)
(* credential generation of a connector is active and it is the one        *)
(* tunnel_connectors names, through overlapping and failing rotations.     *)
OneActiveCredential ==
  \A c \in RtConnectors :
    {g \in Generations : rtCred[c][g].state = "active"} = {rtConn[c].generation}

(* A rotation takes a connector's old credential away only once every      *)
(* connector of the rotation runs on its new one.                          *)
OldCredentialOutlivesLaggards ==
  \A o \in RtOps, c \in RtConnectors :
    TargetIn(o, c, {"revoking"}) /\ rtTarget'[o][c].state = "revoked" =>
      \A d \in RotationTargets(o) : rtConn[d].generation > OldGeneration(o, d)

(* A rotation reported as succeeded has retired the old credential of      *)
(* every connector it captured: none of them can authenticate with it.     *)
SucceededMeansRetired ==
  \A o \in RtOps, c \in RtConnectors :
    rtOp[o] = "succeeded" /\ ~TargetIn(o, c, {"none"}) =>
      rtCred[c][OldGeneration(o, c)].state = "revoked"

RotationDone(o) == rtOp[o] \in {"succeeded", "failed"}

(* Every rotation settles, whatever connectors do, lose or refuse: the     *)
(* overlap window and the revoke deadline bound it.                        *)
RotationSettles == \A o \in RtOps : OpenRotation(o) ~> RotationDone(o)

=============================================================================
