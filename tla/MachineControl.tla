--------------------------- MODULE MachineControl ---------------------------
(***************************************************************************)
(* usermachines/machine_control.go: the one renewable control credential   *)
(* of a machine.  A request reads the machine and checks a proof, and then *)
(* mints in a transaction of its own: the proof's operation id reserves a  *)
(* renewal row, and the machine's single session row is moved on to it.    *)
(* Deleting the machine removes both rows; pairing it again starts a new   *)
(* installation.  A request may be repeated, and its answer may be lost.   *)
(***************************************************************************)
EXTENDS Naturals, FiniteSets

CONSTANTS McOperations, McRequests, McMaxJti, McMaxInstallation, McNone

McAssumption == McMaxJti \in Nat /\ McMaxInstallation \in Nat

VARIABLES mcMachine,   \* user_machines: active or not, installation_generation
          mcRenewal,   \* machine_control_renewals, by operation id
          mcSession,   \* machine_control_sessions of the machine
          mcIssued,    \* credentials signed
          mcJti,       \* identifiers drawn
          mcRequest    \* requests between their checks and their transaction

mcVars == <<mcMachine, mcRenewal, mcSession, mcIssued, mcJti, mcRequest>>

McNoRenewal == [jti |-> 0, installation |-> 0, session |-> 0, superseded |-> FALSE, age |-> "live"]
McNoSession == [generation |-> 0, installation |-> 0, op |-> McNone, jti |-> 0]
McIdle == [op |-> McNone, installation |-> 0]

McTypeOK ==
  /\ mcMachine \in [active: BOOLEAN, installation: 1..McMaxInstallation]
  /\ mcRenewal \in [McOperations ->
       [jti: 0..McMaxJti, installation: 0..McMaxInstallation, session: 0..McMaxJti,
        superseded: BOOLEAN, age: {"live", "expired", "old"}]]
  /\ mcSession \in [generation: 0..McMaxJti, installation: 0..McMaxInstallation,
                    op: McOperations \cup {McNone}, jti: 0..McMaxJti]
  /\ mcIssued \subseteq [jti: 1..McMaxJti, installation: 1..McMaxInstallation,
                         session: 1..McMaxJti, op: McOperations, expired: BOOLEAN]
  /\ mcJti \in 0..McMaxJti
  /\ mcRequest \in [McRequests -> [op: McOperations \cup {McNone}, installation: 0..McMaxInstallation]]

McInit ==
  /\ mcMachine = [active |-> TRUE, installation |-> 1]
  /\ mcRenewal = [o \in McOperations |-> McNoRenewal]
  /\ mcSession = McNoSession
  /\ mcIssued = {} /\ mcJti = 0
  /\ mcRequest = [r \in McRequests |-> McIdle]

-----------------------------------------------------------------------------
(* Queries *)

GetActiveUserMachineForControl == mcMachine.active

GetCurrentMachineControlSession(c) ==
  /\ mcSession.generation # 0 /\ mcSession.jti = c.jti
  /\ mcSession.installation = mcMachine.installation

DeleteExpiredMachineControlRenewals ==
  [o \in McOperations |-> IF mcRenewal[o].age = "old" /\ mcSession.op # o THEN McNoRenewal
                                                                         ELSE mcRenewal[o]]

CreateMachineControlRenewal(rows, o, installation) ==
  [rows EXCEPT ![o] = [McNoRenewal EXCEPT !.jti = mcJti + 1, !.installation = installation]]

RotateMachineControlRenewal(rows, o) ==
  [rows EXCEPT ![o].jti = mcJti + 1, ![o].session = 0, ![o].age = "live"]

MarkMachineControlRenewalSuperseded(rows) == [rows EXCEPT ![mcSession.op].superseded = TRUE]

CreateMachineControlSession(o, row) ==
  [generation |-> 1, installation |-> row.installation, op |-> o, jti |-> row.jti]

RotateMachineControlSession(o, row) ==
  [generation |-> mcSession.generation + 1, installation |-> row.installation, op |-> o,
   jti |-> row.jti]

BindMachineControlRenewalSession(rows, o, session) ==
  [rows EXCEPT ![o].session = session.generation]

-----------------------------------------------------------------------------
(* Requests *)

Starts(r, o) ==
  /\ mcRequest[r] = McIdle /\ GetActiveUserMachineForControl
  /\ mcRequest' = [mcRequest EXCEPT ![r] = [op |-> o, installation |-> mcMachine.installation]]
  /\ UNCHANGED <<mcMachine, mcRenewal, mcSession, mcIssued, mcJti>>

\* Issued on a user's session with a proof of the machine's key.
IssueMachineControl(r, o) == Starts(r, o)

\* Issued on a verified helper identity, when a host is being set up.
IssueInitialMachineControl(r, o) == Starts(r, o)

\* Issued on the current credential, which may have expired within the hour.
RenewMachineControl(r, o) ==
  /\ \E c \in mcIssued : /\ c.installation = mcMachine.installation
                         /\ GetCurrentMachineControlSession(c)
                         /\ c.session = mcSession.generation
  /\ Starts(r, o)

\* An operation that is bound already answers with the credential it issued.
Replays(o, row) ==
  /\ row.session # 0 /\ row.age = "live"
  /\ mcSession.op = o /\ mcSession.jti = row.jti /\ mcSession.generation = row.session

\* Otherwise the session moves to the operation, unless the operation lost it.
Resolvable(o, row, installation) ==
  /\ row.installation = installation /\ ~row.superseded
  /\ row.session # 0 => (mcSession.op = o /\ mcSession.jti = row.jti
                         /\ mcSession.generation = row.session)
  /\ row.session = 0 => mcSession.op # o

\* Signed after the transaction; nothing else happens in between that counts.
Sign(o, row) ==
  mcIssued' = mcIssued \cup {[jti |-> row.jti, installation |-> row.installation,
                              session |-> row.session, op |-> o, expired |-> FALSE]}

Moves(o, rows) ==
  LET row == rows[o]
      marked == IF mcSession.generation # 0 /\ mcSession.op # o
                THEN MarkMachineControlRenewalSuperseded(rows) ELSE rows
      session == IF mcSession.generation = 0 THEN CreateMachineControlSession(o, row)
                                             ELSE RotateMachineControlSession(o, row)
  IN /\ mcSession' = session
     /\ mcRenewal' = BindMachineControlRenewalSession(marked, o, session)
     /\ Sign(o, [row EXCEPT !.session = session.generation])

\* The transaction, and the request's end; the answer may be lost.
MintMachineControl(r) ==
  LET o == mcRequest[r].op
      kept == DeleteExpiredMachineControlRenewals
      installation == mcRequest[r].installation
      rows == IF kept[o].jti = 0 THEN CreateMachineControlRenewal(kept, o, installation) ELSE kept
  IN /\ o # McNone /\ mcJti < McMaxJti
     /\ mcRequest' = [mcRequest EXCEPT ![r] = McIdle]
     /\ mcJti' = mcJti + 1
     /\ \/ /\ ~Resolvable(o, rows[o], installation)
           /\ UNCHANGED <<mcRenewal, mcSession, mcIssued>>
        \/ /\ Resolvable(o, rows[o], installation) /\ Replays(o, rows[o])
           /\ mcRenewal' = kept /\ UNCHANGED mcSession
           /\ Sign(o, rows[o])
        \/ /\ Resolvable(o, rows[o], installation) /\ ~Replays(o, rows[o])
           /\ Moves(o, IF rows[o].session # 0 THEN RotateMachineControlRenewal(rows, o) ELSE rows)
     /\ UNCHANGED mcMachine

-----------------------------------------------------------------------------
(* The machine, and time *)

\* RevokeUserMachine or DeleteUserMachine with the cleanup of the device.
McMachineRemoved ==
  /\ mcMachine.active
  /\ mcMachine' = [mcMachine EXCEPT !.active = FALSE]
  /\ mcSession' = McNoSession
  /\ mcRenewal' = [o \in McOperations |-> McNoRenewal]
  /\ UNCHANGED <<mcIssued, mcJti, mcRequest>>

\* Pairing adds the host role again, or the role changes: a new installation.
McMachineInstalled ==
  /\ mcMachine.installation < McMaxInstallation
  /\ mcMachine' = [active |-> TRUE, installation |-> mcMachine.installation + 1]
  /\ UNCHANGED <<mcRenewal, mcSession, mcIssued, mcJti, mcRequest>>

\* Credentials live for an hour and their rows are kept for another.
McExpires(o) ==
  /\ mcRenewal[o].jti # 0 /\ mcRenewal[o].age # "old"
  /\ mcRenewal' = [mcRenewal EXCEPT ![o].age = IF @ = "live" THEN "expired" ELSE "old"]
  /\ mcIssued' = {IF c.jti = mcRenewal[o].jti THEN [c EXCEPT !.expired = TRUE] ELSE c : c \in mcIssued}
  /\ UNCHANGED <<mcMachine, mcSession, mcJti, mcRequest>>

McNext ==
  \/ \E r \in McRequests, o \in McOperations : 
       IssueMachineControl(r, o) \/ IssueInitialMachineControl(r, o) \/ RenewMachineControl(r, o)
  \/ \E r \in McRequests : MintMachineControl(r)
  \/ McMachineRemoved \/ McMachineInstalled
  \/ \E o \in McOperations : McExpires(o)

McSpec == McInit /\ [][McNext]_mcVars

-----------------------------------------------------------------------------
(* Properties *)

\* What VerifyMachineControlRequest asks of the number a credential carries.
Presentable(c) == mcMachine.active /\ c.installation = mcMachine.installation

\* RotateMachineControlSession: within an installation a session's number is
\* never given to two credentials, so a credential cannot pass for a later one.
GenerationNamesOneCredential ==
  \A c, d \in mcIssued :
    (Presentable(c) /\ Presentable(d) /\ c.session = d.session) => c.jti = d.jti

\* mintMachineControl: however often one operation is repeated, by however
\* many requests, the credentials it hands out that still live are one.
OperationIssuesOneCredential ==
  \A c, d \in mcIssued :
    (Presentable(c) /\ Presentable(d) /\ c.op = d.op /\ ~c.expired /\ ~d.expired) => c.jti = d.jti
=============================================================================
