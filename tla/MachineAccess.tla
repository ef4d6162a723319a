--------------------------- MODULE MachineAccess ----------------------------
(***************************************************************************)
(* usermachines: the sessions through which a CLI reaches a machine.  A    *)
(* descriptor is prepared from reads, credentials are issued, and the      *)
(* session row is written under the lock of team mutations; a change of    *)
(* the machine or of the team's grant revokes rows by trigger.  Revocation *)
(* is recorded first and propagated to the credential issuer afterwards,   *)
(* by the request that revoked and by a worker that retries.               *)
(*                                                                         *)
(* Sessions of the kind "operation" carry tokens this server signs and     *)
(* have nothing to propagate.  A machine's connector may be lost for good. *)
(***************************************************************************)
EXTENDS Naturals, FiniteSets

CONSTANTS MaMachines, MaSessions, MaRequests, MaNone,
          MaRevokers,  \* requests that revoke a machine's sessions
          MaWorker,    \* the worker that retries
          MaModes      \* the states a live machine goes through

VARIABLES maMachine,   \* user_machines.state
          maShared,    \* machines whose team grant covers the member
          maSession,   \* user_machine_access_sessions
          maRemote,    \* sessions the downstream issuer still honours
          maRequest,
          maBatch,     \* rows a revoking request or the worker has yet to propagate
          maReachable  \* machines whose connector answers

maVars == <<maMachine, maShared, maSession, maRemote, maRequest, maBatch, maReachable>>

MaUsers == {"owner", "member"}

MaNoSession == [state |-> "none", machine |-> MaNone, user |-> "owner", kind |-> "connect",
                propagated |-> FALSE]
MaIdle == [pc |-> "idle", session |-> MaNone]

MaTypeOK ==
  /\ maMachine \in [MaMachines -> {"online", "offline", "incapable", "revoked"}]
  /\ maShared \subseteq MaMachines /\ maReachable \subseteq MaMachines
  /\ maSession \in [MaSessions ->
       [state: {"none", "drawn", "active", "revoked"}, machine: MaMachines \cup {MaNone},
        user: MaUsers, kind: {"connect", "operation"}, propagated: BOOLEAN]]
  /\ maRemote \subseteq MaSessions
  /\ maRequest \in [MaRequests -> [pc: {"idle", "issue", "persist", "cleanup"},
                                   session: MaSessions \cup {MaNone}]]
  /\ maBatch \in [MaRevokers \cup {MaWorker} -> SUBSET MaSessions]

MaInit ==
  /\ maMachine = [m \in MaMachines |-> "online"]
  /\ maShared = {}
  /\ maSession = [s \in MaSessions |-> MaNoSession]
  /\ maRemote = {}
  /\ maRequest = [r \in MaRequests |-> MaIdle]
  /\ maBatch = [w \in MaRevokers \cup {MaWorker} |-> {}]
  /\ maReachable = MaMachines

-----------------------------------------------------------------------------
(* Preparing a descriptor *)

MachineCapabilityAllowed(u, m) ==
  /\ maMachine[m] # "revoked"
  /\ u = "owner" \/ m \in maShared

GetUserMachineForCapability(u, m) == MachineCapabilityAllowed(u, m)

\* The checks a descriptor starts with; the session's identifiers are drawn.
Prepare(r, s, u, m, kind, pc) ==
  /\ maRequest[r].pc = "idle" /\ maSession[s].state = "none"
  /\ GetUserMachineForCapability(u, m)
  /\ maMachine[m] = "online"
  /\ maSession' = [maSession EXCEPT ![s] = [MaNoSession EXCEPT !.state = "drawn",
                     !.machine = m, !.user = u, !.kind = kind]]
  /\ maRequest' = [maRequest EXCEPT ![r] = [pc |-> pc, session |-> s]]
  /\ UNCHANGED <<maMachine, maShared, maRemote, maBatch, maReachable>>

ConnectTerminalSession(r, s, u, m) == Prepare(r, s, u, m, "connect", "issue")

\* exec, ssh and file transfer descriptors: signed here, then stored.
OperationDescriptor(r, s, u, m) == Prepare(r, s, u, m, "operation", "persist")

IssueUserMachineCredentials(r) ==
  LET s == maRequest[r].session IN
  /\ maRequest[r].pc = "issue"
  /\ \/ /\ maSession[s].machine \in maReachable
        /\ maRemote' = maRemote \cup {s}
        /\ maRequest' = [maRequest EXCEPT ![r].pc = "persist"]
     \/ /\ maRequest' = [maRequest EXCEPT ![r] = MaIdle]
        /\ UNCHANGED maRemote
  /\ UNCHANGED <<maMachine, maShared, maSession, maBatch, maReachable>>

TrustsPreparation(s) == TRUE

\* Under the lock the permission and the machine's state are read again.
Authorized(s) ==
  /\ MachineCapabilityAllowed(maSession[s].user, maSession[s].machine)
  /\ maMachine[maSession[s].machine] = "online"

CreateAccessSession(r) ==
  LET s == maRequest[r].session IN
  /\ maRequest[r].pc = "persist"
  /\ IF Authorized(s)
     THEN /\ maSession' = [maSession EXCEPT ![s].state = "active"]
          /\ maRequest' = [maRequest EXCEPT ![r] = MaIdle]
     ELSE /\ maRequest' = [maRequest EXCEPT ![r].pc = "cleanup"]
          /\ UNCHANGED maSession
  /\ UNCHANGED <<maMachine, maShared, maRemote, maBatch, maReachable>>

\* access_session_persistence_failed: the credentials are revoked at once.
RevokeUnstoredCredentials(r) ==
  LET s == maRequest[r].session IN
  /\ maRequest[r].pc = "cleanup"
  /\ maRemote' = IF maSession[s].machine \in maReachable THEN maRemote \ {s} ELSE maRemote
  /\ maRequest' = [maRequest EXCEPT ![r] = MaIdle]
  /\ UNCHANGED <<maMachine, maShared, maSession, maBatch, maReachable>>

-----------------------------------------------------------------------------
(* What takes access away.  The trigger runs in the transaction of the change. *)

Serves(m, mode, shared, s) ==
  /\ maSession[s].machine = m
  /\ mode \notin {"revoked", "incapable"}
  /\ maSession[s].user = "owner" \/ shared

RevokeInvalidTeamMachineAccess(m, mode, shared) ==
  [s \in MaSessions |->
     IF maSession[s].state = "active" /\ maSession[s].machine = m /\ ~Serves(m, mode, shared, s)
     THEN [maSession[s] EXCEPT !.state = "revoked"] ELSE maSession[s]]

\* Heartbeats and their absence, and a capability switched off.
UpdateUserMachineStatus(m, mode) ==
  /\ maMachine[m] # "revoked" /\ mode # "revoked"
  /\ mode # maMachine[m]
  /\ maMachine' = [maMachine EXCEPT ![m] = mode]
  /\ maSession' = RevokeInvalidTeamMachineAccess(m, mode, m \in maShared)
  /\ UNCHANGED <<maShared, maRemote, maRequest, maBatch, maReachable>>

\* A disconnected, deleted or unpaid machine.
RevokeUserMachine(m) ==
  /\ maMachine[m] # "revoked"
  /\ maMachine' = [maMachine EXCEPT ![m] = "revoked"]
  /\ maSession' = RevokeInvalidTeamMachineAccess(m, "revoked", m \in maShared)
  /\ UNCHANGED <<maShared, maRemote, maRequest, maBatch, maReachable>>

TeamGrantChanges(m) ==
  /\ maShared' = IF m \in maShared THEN maShared \ {m} ELSE maShared \cup {m}
  /\ maSession' = RevokeInvalidTeamMachineAccess(m, maMachine[m], m \in maShared')
  /\ UNCHANGED <<maMachine, maRemote, maRequest, maBatch, maReachable>>

-----------------------------------------------------------------------------
(* Propagation *)

Unpropagated == {s \in MaSessions : maSession[s].state = "revoked" /\ ~maSession[s].propagated}

\* RevokeUserMachineSessions: active rows are revoked, and those and the ones
\* still pending are propagated by the caller.
RevokeUserMachineAccessSessions(w, m) ==
  LET rows == {s \in MaSessions : maSession[s].machine = m /\
                                  (maSession[s].state = "active" \/ s \in Unpropagated)} IN
  /\ maBatch[w] = {} /\ rows # {}
  /\ maMachine[m] = "revoked"
  /\ maSession' = [s \in MaSessions |-> IF s \in rows
                                        THEN [maSession[s] EXCEPT !.state = "revoked"]
                                        ELSE maSession[s]]
  /\ maBatch' = [maBatch EXCEPT ![w] = rows]
  /\ UNCHANGED <<maMachine, maShared, maRemote, maRequest, maReachable>>

RetryPendingRevocations ==
  /\ maBatch[MaWorker] = {} /\ Unpropagated # {}
  /\ maBatch' = [maBatch EXCEPT ![MaWorker] = Unpropagated]
  /\ UNCHANGED <<maMachine, maShared, maSession, maRemote, maRequest, maReachable>>

Canonical(s) == maSession[s].kind = "operation"

CallSucceeds(s) == Canonical(s) \/ maSession[s].machine \in maReachable

\* The rows left after a failed one: the others are still tried.
RestAfterFailure(batch, s) == batch \ {s}

\* One row: the issuer is called, and then the row is marked.
MarkUserMachineAccessSessionRevoked(w, s) ==
  /\ s \in maBatch[w]
  /\ IF CallSucceeds(s)
     THEN /\ maRemote' = IF maSession[s].machine \in maReachable THEN maRemote \ {s} ELSE maRemote
          /\ maSession' = [maSession EXCEPT ![s].propagated = TRUE]
          /\ maBatch' = [maBatch EXCEPT ![w] = @ \ {s}]
     ELSE /\ maBatch' = [maBatch EXCEPT ![w] = RestAfterFailure(@, s)]
          /\ UNCHANGED <<maRemote, maSession>>
  /\ UNCHANGED <<maMachine, maShared, maRequest, maReachable>>

ConnectorLost(m) ==
  /\ m \in maReachable
  /\ maReachable' = maReachable \ {m}
  /\ UNCHANGED <<maMachine, maShared, maSession, maRemote, maRequest, maBatch>>

\* The server restarts: requests and batches are lost.
MaRestart ==
  /\ maRequest' = [r \in MaRequests |-> MaIdle]
  /\ maBatch' = [w \in MaRevokers \cup {MaWorker} |-> {}]
  /\ maRequest' # maRequest
  /\ UNCHANGED <<maMachine, maShared, maSession, maRemote, maReachable>>

MaNext ==
  \/ \E r \in MaRequests, s \in MaSessions, u \in MaUsers, m \in MaMachines :
       ConnectTerminalSession(r, s, u, m)
  \/ \E r \in MaRequests, s \in MaSessions, u \in MaUsers, m \in MaMachines :
       OperationDescriptor(r, s, u, m)
  \/ \E r \in MaRequests : IssueUserMachineCredentials(r)
  \/ \E r \in MaRequests : CreateAccessSession(r)
  \/ \E r \in MaRequests : RevokeUnstoredCredentials(r)
  \/ \E m \in MaMachines, mode \in MaModes :
       UpdateUserMachineStatus(m, mode)
  \/ \E m \in MaMachines : RevokeUserMachine(m)
  \/ \E m \in MaMachines : TeamGrantChanges(m)
  \/ \E w \in MaRevokers, m \in MaMachines : RevokeUserMachineAccessSessions(w, m)
  \/ RetryPendingRevocations
  \/ \E w \in MaRevokers \cup {MaWorker}, s \in MaSessions : MarkUserMachineAccessSessionRevoked(w, s)
  \/ \E m \in MaMachines : ConnectorLost(m)
  \/ MaRestart

MaSpec == MaInit /\ [][MaNext]_maVars

-----------------------------------------------------------------------------
(* An active session is one its user may have now: whatever was withdrawn  *)
(* while its descriptor was being prepared, the row was not written, and   *)
(* whatever is withdrawn later revokes it in the same transaction.         *)
ActiveIsAuthorized ==
  \A s \in MaSessions :
    maSession[s].state = "active" =>
      /\ MachineCapabilityAllowed(maSession[s].user, maSession[s].machine)
      /\ maMachine[maSession[s].machine] # "incapable"

(* A row is marked as propagated only when no credential of the session is *)
(* honoured downstream any more, however requests and the worker overlap.  *)
PropagatedIsDead ==
  \A s \in MaSessions : maSession[s].propagated => s \notin maRemote

=============================================================================
