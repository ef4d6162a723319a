-------------------------- MODULE TerminalSessions --------------------------
(***************************************************************************)
(* terminalsessions and the terminal sessions of usermachines: named       *)
(* terminals of one hosted project, or of one user machine, and the        *)
(* operations (close, delete history) the server queues for the helper     *)
(* that runs them.  An operation is recorded with the change it follows    *)
(* from, and applied afterwards, by the request and by a worker that       *)
(* retries; both may hold the same operation in hand.                      *)
(*                                                                         *)
(* The helper is external: it carries out an operation id once and answers *)
(* a repetition from its record.                                           *)
(***************************************************************************)
EXTENDS Naturals, FiniteSets, FiniteSetsExt

CONSTANTS TsSessions, TsMaxOps, TsRequests, TsWorker, TsMaxActive, TsNone

TsAssumption == TsMaxOps \in Nat /\ TsMaxActive \in Nat \ {0}

VARIABLES tsKind,     \* whose terminals: a hosted project's or a user machine's
          tsGone,     \* the project's provider resources were destroyed
          tsSession,  \* *_terminal_sessions
          tsOp,       \* *_terminal_session_operations, by order of creation
          tsHand,     \* operations an actor has listed, and the one it has sent
          tsExecuted, \* operations the helper has carried out
          tsStopped   \* sessions the helper has stopped since they were last opened

tsVars == <<tsKind, tsGone, tsSession, tsOp, tsHand, tsExecuted, tsStopped>>

TsOps == 1..TsMaxOps
TsActors == TsRequests \cup {TsWorker}

TsNoSession == [desired |-> "none", runtime |-> "unknown"]
TsNoOp == [state |-> "none", session |-> TsNone, operation |-> "close", due |-> TRUE]
TsFree == [listed |-> {}, sent |-> 0]

TsTypeOK ==
  /\ tsKind \in {"project", "machine"} /\ tsGone \in BOOLEAN
  /\ tsSession \in [TsSessions -> [desired: {"none", "open", "closed", "deleted"},
                                   runtime: {"unknown", "running", "closed"}]]
  /\ tsOp \in [TsOps -> [state: {"none", "pending", "applied", "superseded"},
                         session: TsSessions \cup {TsNone},
                         operation: {"close", "delete_history"}, due: BOOLEAN]]
  /\ tsHand \in [TsActors -> [listed: SUBSET TsOps, sent: TsOps \cup {0}]]
  /\ tsExecuted \subseteq TsOps /\ tsStopped \subseteq TsSessions

TsInit ==
  /\ tsKind \in {"project", "machine"} /\ tsGone = FALSE
  /\ tsSession = [s \in TsSessions |-> TsNoSession]
  /\ tsOp = [o \in TsOps |-> TsNoOp]
  /\ tsHand = [a \in TsActors |-> TsFree]
  /\ tsExecuted = {} /\ tsStopped = {}

TsActive(s) == tsSession[s].desired \in {"open", "closed"}
TsUnused == {o \in TsOps : tsOp[o].state = "none"}

-----------------------------------------------------------------------------
(* The queries of a hosted project's sessions *)

GetActiveTerminalSession(s) == TsActive(s)

CountActiveTerminalSessions == Cardinality({s \in TsSessions : TsActive(s)})

TerminalSessionOperationPending(s) ==
  \E o \in TsOps : tsOp[o].session = s /\ tsOp[o].state = "pending"

SelectTerminalSessionForEviction ==
  LET closed == {s \in TsSessions : tsSession[s].desired = "closed"}
  IN IF closed # {} THEN closed ELSE {s \in TsSessions : TsActive(s)}

QueueTerminalSessionOperation(ops, s, operation) ==
  IF \E o \in TsOps : ops[o].session = s /\ ops[o].operation = operation
                      /\ ops[o].state = "pending"
  THEN ops
  ELSE [ops EXCEPT ![Min(TsUnused)] = [state |-> "pending", session |-> s,
                                       operation |-> operation, due |-> TRUE]]

CloseTerminalSession(s) == [tsSession EXCEPT ![s].desired = "closed"]

DeleteTerminalSession(s) == [tsSession EXCEPT ![s].desired = "deleted"]

ReopenTerminalSession(s) ==
  IF tsSession[s].desired = "closed" THEN [tsSession EXCEPT ![s].desired = "open"] ELSE tsSession

CreateTerminalSession(rows, s) == [rows EXCEPT ![s] = [TsNoSession EXCEPT !.desired = "open"]]

ListDueTerminalSessionOperations == {o \in TsOps : tsOp[o].state = "pending" /\ tsOp[o].due}

ListPendingTerminalSessionOperationsForProject == {o \in TsOps : tsOp[o].state = "pending"}

MarkTerminalSessionOperationApplied(o) ==
  IF tsOp[o].state = "pending" THEN [tsOp EXCEPT ![o].state = "applied"] ELSE tsOp

RetryTerminalSessionOperation(o) ==
  IF tsOp[o].state = "pending" THEN [tsOp EXCEPT ![o].due = FALSE] ELSE tsOp

UpdateTerminalSessionRuntime(s, state) == [tsSession EXCEPT ![s].runtime = state]

SupersedeProjectTerminalSessionOperations ==
  [o \in TsOps |-> IF tsOp[o].state = "pending" THEN [tsOp[o] EXCEPT !.state = "superseded"]
                                                ELSE tsOp[o]]

TombstoneProjectTerminalSessions ==
  [s \in TsSessions |-> IF TsActive(s) THEN [tsSession[s] EXCEPT !.desired = "deleted"]
                                       ELSE tsSession[s]]

-----------------------------------------------------------------------------
(* Hosted projects: one transaction each, under the lock of the project's row *)

Hosted == tsKind = "project" /\ ~tsGone

\* At the limit the new session takes the place of a closed one, or of the
\* least recently used one; which was used last is left open.
Evicts(rows, ops) ==
  \E v \in SelectTerminalSessionForEviction :
    /\ TsUnused # {}
    /\ rows = DeleteTerminalSession(v)
    /\ ops = QueueTerminalSessionOperation(tsOp, v, "delete_history")

MakesRoom(rows, ops) ==
  IF CountActiveTerminalSessions >= TsMaxActive THEN Evicts(rows, ops)
                                                ELSE rows = tsSession /\ ops = tsOp

TsCreate(s) ==
  /\ Hosted /\ tsSession[s].desired = "none"
  /\ \E ops \in {tsOp} \cup {QueueTerminalSessionOperation(tsOp, v, "delete_history") :
                             v \in IF TsUnused = {} THEN {} ELSE TsSessions},
        rows \in {tsSession} \cup {DeleteTerminalSession(v) : v \in TsSessions} :
       /\ MakesRoom(rows, ops)
       /\ tsSession' = CreateTerminalSession(rows, s) /\ tsOp' = ops
  /\ UNCHANGED <<tsKind, tsGone, tsHand, tsExecuted, tsStopped>>

\* A close of a session that is closed already keeps the earlier operation.
TsClose(s) ==
  /\ Hosted /\ GetActiveTerminalSession(s) /\ tsSession[s].desired # "closed" /\ TsUnused # {}
  /\ tsSession' = CloseTerminalSession(s)
  /\ tsOp' = QueueTerminalSessionOperation(tsOp, s, "close")
  /\ UNCHANGED <<tsKind, tsGone, tsHand, tsExecuted, tsStopped>>

TsDelete(s) ==
  /\ Hosted /\ GetActiveTerminalSession(s) /\ TsUnused # {}
  /\ tsSession' = DeleteTerminalSession(s)
  /\ tsOp' = QueueTerminalSessionOperation(tsOp, s, "delete_history")
  /\ UNCHANGED <<tsKind, tsGone, tsHand, tsExecuted, tsStopped>>

\* A CLI is given a descriptor only when nothing is pending for the session; a
\* closed session becomes an open one, and the helper starts its process anew.
TsConnect(s) ==
  /\ Hosted /\ GetActiveTerminalSession(s) /\ ~TerminalSessionOperationPending(s)
  /\ tsSession' = ReopenTerminalSession(s)
  /\ tsStopped' = tsStopped \ {s}
  /\ UNCHANGED <<tsKind, tsGone, tsOp, tsHand, tsExecuted>>

\* A snapshot of the helper's view, by a listing or before the machine stops.
TsSnapshot(s) ==
  /\ Hosted /\ GetActiveTerminalSession(s)
  /\ tsSession' = UpdateTerminalSessionRuntime(s, IF s \in tsStopped THEN "closed" ELSE "running")
  /\ UNCHANGED <<tsKind, tsGone, tsOp, tsHand, tsExecuted, tsStopped>>

\* The last step of a project's deletion, once its machine is destroyed.
TsProjectDeleted ==
  /\ Hosted
  /\ tsGone' = TRUE
  /\ tsOp' = SupersedeProjectTerminalSessionOperations
  /\ tsSession' = TombstoneProjectTerminalSessions
  /\ UNCHANGED <<tsKind, tsHand, tsExecuted, tsStopped>>

-----------------------------------------------------------------------------
(* User machines *)

CountActiveUserMachineTerminalSessions == Cardinality({s \in TsSessions : TsActive(s)})

GetUserMachineTerminalSession(s) == TsActive(s)

SelectUserMachineTerminalSessionForEviction ==
  LET closed == {s \in TsSessions : tsSession[s].desired = "closed"}
  IN IF closed # {} THEN closed ELSE {s \in TsSessions : TsActive(s)}

QueueUserMachineTerminalSessionOperation(s, operation) ==
  IF \E o \in TsOps : tsOp[o].session = s /\ tsOp[o].operation = operation
                      /\ tsOp[o].state = "pending"
  THEN tsOp
  ELSE [tsOp EXCEPT ![Min(TsUnused)] = [state |-> "pending", session |-> s,
                                        operation |-> operation, due |-> TRUE]]

CreateUserMachineTerminalSession(rows, s) ==
  [rows EXCEPT ![s] = [TsNoSession EXCEPT !.desired = "open"]]

CloseUserMachineTerminalSession(s) == [tsSession EXCEPT ![s].desired = "closed"]

DeleteUserMachineTerminalSession(s) == [tsSession EXCEPT ![s].desired = "deleted"]

MarkUserMachineTerminalSessionRuntimeClosed(s) ==
  IF TsActive(s) THEN [tsSession EXCEPT ![s].runtime = "closed"] ELSE tsSession

UserMachineTerminalSessionOperationPending(s) ==
  \E o \in TsOps : tsOp[o].session = s /\ tsOp[o].state = "pending"

ListDueUserMachineTerminalSessionOperations == {o \in TsOps : tsOp[o].state = "pending" /\ tsOp[o].due}

ListPendingUserMachineTerminalSessionOperations == {o \in TsOps : tsOp[o].state = "pending"}

MarkUserMachineTerminalSessionOperationApplied(o) ==
  IF tsOp[o].state = "pending" THEN [tsOp EXCEPT ![o].state = "applied"] ELSE tsOp

RetryUserMachineTerminalSessionOperation(o) ==
  IF tsOp[o].state = "pending" THEN [tsOp EXCEPT ![o].due = FALSE] ELSE tsOp

OnMachine == tsKind = "machine"

CreateMachineTerminalSession(s) ==
  /\ OnMachine /\ tsSession[s].desired = "none"
  /\ \/ /\ CountActiveUserMachineTerminalSessions < TsMaxActive
        /\ tsSession' = CreateUserMachineTerminalSession(tsSession, s)
        /\ tsOp' = tsOp
     \/ /\ CountActiveUserMachineTerminalSessions >= TsMaxActive /\ TsUnused # {}
        /\ \E v \in SelectUserMachineTerminalSessionForEviction :
             /\ tsSession' = CreateUserMachineTerminalSession(DeleteUserMachineTerminalSession(v), s)
             /\ tsOp' = QueueUserMachineTerminalSessionOperation(v, "delete_history")
  /\ UNCHANGED <<tsKind, tsGone, tsHand, tsExecuted, tsStopped>>

TransitionTerminalSession(s, remove) ==
  /\ OnMachine /\ GetUserMachineTerminalSession(s) /\ TsUnused # {}
  /\ \/ /\ remove
        /\ tsSession' = DeleteUserMachineTerminalSession(s)
        /\ tsOp' = QueueUserMachineTerminalSessionOperation(s, "delete_history")
     \/ /\ ~remove /\ tsSession[s].desired # "closed"
        /\ tsSession' = CloseUserMachineTerminalSession(s)
        /\ tsOp' = QueueUserMachineTerminalSessionOperation(s, "close")
  /\ UNCHANGED <<tsKind, tsGone, tsHand, tsExecuted, tsStopped>>

\* A machine's session is attached as it is: what it desires stays.
ConnectMachineTerminal(s) ==
  /\ OnMachine /\ GetUserMachineTerminalSession(s)
  /\ ~UserMachineTerminalSessionOperationPending(s)
  /\ tsStopped' = tsStopped \ {s}
  /\ UNCHANGED <<tsKind, tsGone, tsSession, tsOp, tsHand, tsExecuted>>

-----------------------------------------------------------------------------
(* Applying operations *)

\* A request lists everything pending, the worker what is due.
ListOperations(a) ==
  /\ tsHand[a] = TsFree
  /\ tsHand' = [tsHand EXCEPT ![a].listed =
       CASE tsKind = "project" /\ a = TsWorker -> ListDueTerminalSessionOperations
         [] tsKind = "project" /\ a # TsWorker -> ListPendingTerminalSessionOperationsForProject
         [] tsKind = "machine" /\ a = TsWorker -> ListDueUserMachineTerminalSessionOperations
         [] tsKind = "machine" /\ a # TsWorker -> ListPendingUserMachineTerminalSessionOperations]
  /\ tsHand'[a].listed # {}
  /\ UNCHANGED <<tsKind, tsGone, tsSession, tsOp, tsExecuted, tsStopped>>

\* The first operation listed reaches the helper, which acts on it once.
SendOperation(a) ==
  /\ tsHand[a].sent = 0 /\ tsHand[a].listed # {} /\ ~tsGone
  /\ LET o == Min(tsHand[a].listed)
     IN /\ tsHand' = [tsHand EXCEPT ![a] = [listed |-> @.listed \ {o}, sent |-> o]]
        /\ tsExecuted' = tsExecuted \cup {o}
        /\ tsStopped' = IF o \in tsExecuted THEN tsStopped ELSE tsStopped \cup {tsOp[o].session}
  /\ UNCHANGED <<tsKind, tsGone, tsSession, tsOp>>

\* The helper's answer arrives: what it closed is recorded, then the operation.
OperationApplied(a) ==
  LET o == tsHand[a].sent
      s == tsOp[o].session
  IN /\ o # 0
     /\ tsSession' = IF tsOp[o].operation # "close" THEN tsSession
                     ELSE IF tsKind = "project" THEN UpdateTerminalSessionRuntime(s, "closed")
                     ELSE MarkUserMachineTerminalSessionRuntimeClosed(s)
     /\ tsOp' = IF tsKind = "project" THEN MarkTerminalSessionOperationApplied(o)
                                      ELSE MarkUserMachineTerminalSessionOperationApplied(o)
     /\ tsHand' = [tsHand EXCEPT ![a].sent = 0]
     /\ UNCHANGED <<tsKind, tsGone, tsExecuted, tsStopped>>

\* The operation could not be delivered, or its answer was lost.  A request on
\* a machine's session stops at the first failure; the others go on.
OperationFails(a) ==
  LET o == IF tsHand[a].sent # 0 THEN tsHand[a].sent ELSE Min(tsHand[a].listed)
  IN /\ tsHand[a] # TsFree
     /\ tsOp' = IF tsKind = "project" THEN RetryTerminalSessionOperation(o)
                                      ELSE RetryUserMachineTerminalSessionOperation(o)
     /\ tsHand' = [tsHand EXCEPT ![a] = IF tsKind = "machine" /\ a # TsWorker THEN TsFree
                                        ELSE [listed |-> @.listed \ {o}, sent |-> 0]]
     /\ UNCHANGED <<tsKind, tsGone, tsSession, tsExecuted, tsStopped>>

BackoffEnds(o) ==
  /\ tsOp[o].state = "pending" /\ ~tsOp[o].due
  /\ tsOp' = [tsOp EXCEPT ![o].due = TRUE]
  /\ UNCHANGED <<tsKind, tsGone, tsSession, tsHand, tsExecuted, tsStopped>>

TsNext ==
  \/ \E s \in TsSessions :
       \/ TsCreate(s) \/ TsClose(s) \/ TsDelete(s) \/ TsConnect(s) \/ TsSnapshot(s)
       \/ CreateMachineTerminalSession(s) \/ ConnectMachineTerminal(s)
       \/ \E remove \in BOOLEAN : TransitionTerminalSession(s, remove)
  \/ TsProjectDeleted
  \/ \E a \in TsActors :
       ListOperations(a) \/ SendOperation(a) \/ OperationApplied(a) \/ OperationFails(a)
  \/ \E o \in TsOps : BackoffEnds(o)

TsSpec == TsInit /\ [][TsNext]_tsVars

-----------------------------------------------------------------------------
(* Properties *)

TsPending(s) == \E o \in TsOps : tsOp[o].session = s /\ tsOp[o].state = "pending"

\* terminalsessions.Close and Delete: a project's session that is to be closed
\* or gone, and for which nothing is pending, has been stopped by the helper
\* since it was last opened.
CloseReachedHelper ==
  \A s \in TsSessions :
    (tsKind = "project" /\ ~tsGone /\ tsSession[s].desired \in {"closed", "deleted"})
      => (TsPending(s) \/ s \in tsStopped)

\* access.Connect: "a subsequent close controls the restarted PTY"; the helper
\* never stops a session that is open, whoever still holds an older operation.
OpenSessionKeepsRunning ==
  \A s \in TsSessions :
    (s \in tsStopped' \ tsStopped) => tsSession[s].desired \in {"closed", "deleted"}

\* terminalsessions.Create, usermachines.CreateTerminalSession: a project or a
\* machine never has more live sessions than its limit.
SessionLimit == CountActiveTerminalSessions <= TsMaxActive

=============================================================================
