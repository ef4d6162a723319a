------------------------------ MODULE MCMachines ------------------------------
(***************************************************************************)
(* Accounts and user machines for TLC: what the user asks of the billing   *)
(* provider, and the life of the machines the seats pay for, with the      *)
(* control channel of the connector a machine runs.                        *)
(*                                                                         *)
(* Each module describes its part of the system by itself, and what the    *)
(* other parts do to it by actions of its own, so the parts are checked    *)
(* side by side: every behaviour exercises one of them, chosen in the      *)
(* initial state, and the parts take turns with the same variables.        *)
(***************************************************************************)
EXTENDS BillingOperations, ConnectorChannel, TLC

CONSTANTS
    Parts,  \* the parts the behaviours exercise
    PoolA, PoolB, PoolC,  \* interchangeable model values
    Enrollments, Pairings, Machines, IdentityKeys, MeCallers, MeBounds,
    Nothing, HsPairings, HsGrants, HsSessions, HsRequests, HsNone,
    MaMachines, MaSessions, MaRequests, MaNone, MaRevokers, MaWorker,
    MaModes, TsSessions, TsMaxOps, TsRequests, TsWorker, TsMaxActive,
    TsNone, McOperations, McRequests, McMaxJti, McMaxInstallation, McNone,
    MpKeys, MpChoices, MpMaxVersion, MpMaxTime, MpDefault, MrOperations,
    MrApprovals, MrBoots, MrMaxTime, MrMaxWorker, MrMaxInstallation,
    MrNone, MbOrders, MbReports, MbEpochs, MbMaxBytes, MbMaxPeriod,
    MbAllowance, MbPackage, MbNone

VARIABLES
    part,  \* the part this behaviour exercises
    v1, v2, v3, v4, v5, v6, v7, v8, v9  \* its variables

Me == INSTANCE MachineEnrollment WITH meMax <- v1, meEnrollments <- v2,
        mePairings <- v3, meMachines <- v4, meQuantity <- v5,
        meRequests <- v6, meTokens <- v7, meSessions <- v8, meBuilds <- v9
Hs == INSTANCE HostSetup WITH hsMode <- v1, hsPairing <- v2, hsGrant <- v3,
        hsSession <- v4, hsLock <- v5, hsRequest <- v6
Ma == INSTANCE MachineAccess WITH maMachine <- v1, maShared <- v2,
        maSession <- v3, maRemote <- v4, maRequest <- v5, maBatch <- v6,
        maReachable <- v7
Ts == INSTANCE TerminalSessions WITH tsKind <- v1, tsGone <- v2,
        tsSession <- v3, tsOp <- v4, tsHand <- v5, tsExecuted <- v6,
        tsStopped <- v7
Mc == INSTANCE MachineControl WITH mcMachine <- v1, mcRenewal <- v2,
        mcSession <- v3, mcIssued <- v4, mcJti <- v5, mcRequest <- v6
Mp == INSTANCE MachinePolicy WITH mpAvailability <- v1, mpCapabilities <- v2,
        mpOperation <- v3, mpMachine <- v4, mpFetched <- v5, mpReports <- v6,
        mpTime <- v7
Mr == INSTANCE MachineReports WITH mrMachine <- v1, mrUpdate <- v2,
        mrRuntime <- v3, mrLatency <- v4, mrApproval <- v5, mrOverdue <- v6
Mb == INSTANCE MachineBandwidth WITH mbMachine <- v1, mbEntitlement <- v2,
        mbPeriods <- v3, mbTopups <- v4, mbReceipts <- v5, mbCounters <- v6

ASSUME Ts!TsAssumption
ASSUME Mc!McAssumption
ASSUME Mp!MpAssumption
ASSUME Mr!MrAssumption
ASSUME Mb!MbAssumption

\* A machine whose material is recovered, one whose enrollment is retried, and
\* two that seats are withdrawn from.
Recovering == [gen |-> 1, builds |-> 3, seats |-> {0, 1}, callers |-> PoolC,
               enrollments |-> {CHOOSE e \in Enrollments : TRUE},
               machines |-> {CHOOSE m \in Machines : TRUE},
               keys |-> {CHOOSE k \in IdentityKeys : TRUE}]
Retrying == [Recovering EXCEPT !.gen = 2, !.builds = 1]
Downgraded == [gen |-> 1, builds |-> 0, seats |-> {1, 2}, callers |-> MeCallers \ PoolC,
               enrollments |-> Enrollments, machines |-> Machines, keys |-> IdentityKeys]
EnrollmentBounds == {Recovering, Retrying, Downgraded}

\* One connector process that is given several configurations, and two that
\* take over from one another.
OneProcess == [proc |-> 1, gen |-> 3, queue |-> 2]
TwoProcesses == [proc |-> 2, gen |-> 1, queue |-> 2]
ChannelScopes == {OneProcess, TwoProcesses}

machinesVars == <<part, v1, v2, v3, v4, v5, v6, v7, v8, v9, vars, ccVars>>

Symmetry == Permutations(PoolA) \cup Permutations(PoolB) \cup Permutations(PoolC)

\* The variables a part does not need are 0.
MachinesInit ==
    /\ part \in Parts
    /\ Init /\ (part # "billing" => ~active /\ plan = CHOOSE r \in Ranks : TRUE)
    /\ CcInit /\ (part # "channel" => ccScope = OneProcess)
    /\ \/ part = "enrollment" /\ Me!MeInit
       \/ part = "setup" /\ Hs!HsInit
          /\ v7 = 0 /\ v8 = 0 /\ v9 = 0
       \/ part = "access" /\ Ma!MaInit
          /\ v8 = 0 /\ v9 = 0
       \/ part = "terminals" /\ Ts!TsInit
          /\ v8 = 0 /\ v9 = 0
       \/ part = "control" /\ Mc!McInit
          /\ v7 = 0 /\ v8 = 0 /\ v9 = 0
       \/ part = "policy" /\ Mp!MpInit
          /\ v8 = 0 /\ v9 = 0
       \/ part = "reports" /\ Mr!MrInit
          /\ v7 = 0 /\ v8 = 0 /\ v9 = 0
       \/ part = "bandwidth" /\ Mb!MbInit
          /\ v7 = 0 /\ v8 = 0 /\ v9 = 0
       \/ part \in {"billing", "channel"}
          /\ v1 = 0 /\ v2 = 0 /\ v3 = 0 /\ v4 = 0 /\ v5 = 0 /\ v6 = 0 /\ v7 = 0 /\ v8 = 0
          /\ v9 = 0

MachinesNext ==
    /\ UNCHANGED part
    /\ IF part = "billing" THEN Next ELSE UNCHANGED vars
    /\ IF part = "channel" THEN CcNext ELSE UNCHANGED ccVars
    /\ \/ part = "enrollment" /\ Me!MeNext
       \/ part = "setup" /\ Hs!HsNext /\ UNCHANGED <<v7, v8, v9>>
       \/ part = "access" /\ Ma!MaNext /\ UNCHANGED <<v8, v9>>
       \/ part = "terminals" /\ Ts!TsNext /\ UNCHANGED <<v8, v9>>
       \/ part = "control" /\ Mc!McNext /\ UNCHANGED <<v7, v8, v9>>
       \/ part = "policy" /\ Mp!MpNext /\ UNCHANGED <<v8, v9>>
       \/ part = "reports" /\ Mr!MrNext /\ UNCHANGED <<v7, v8, v9>>
       \/ part = "bandwidth" /\ Mb!MbNext /\ UNCHANGED <<v7, v8, v9>>
       \/ part \in {"billing", "channel"} /\ UNCHANGED <<v1, v2, v3, v4, v5, v6, v7, v8, v9>>

MachinesSpec == MachinesInit /\ [][MachinesNext]_machinesVars

-----------------------------------------------------------------------------
(* Every part of the machines keeps its rows, in-flight requests and       *)
(* counters within their types.                                            *)
MachinesTypeOK ==
    /\ CcTypeOK
    /\ part = "enrollment" => Me!MeTypeOK
    /\ part = "setup" => Hs!HsTypeOK
    /\ part = "access" => Ma!MaTypeOK
    /\ part = "terminals" => Ts!TsTypeOK
    /\ part = "control" => Mc!McTypeOK
    /\ part = "policy" => Mp!MpTypeOK
    /\ part = "reports" => Mr!MrTypeOK
    /\ part = "bandwidth" => Mb!MbTypeOK

(* A pairing creates at most one CLI session, and the material stored for  *)
(* it holds the session's live tokens.                                     *)
MaterialIsLive == part = "enrollment" => Me!MaterialIsLive

(* A bootstrap token is one-shot: an enrollment has produced at most one   *)
(* pairing per generation of its token, however its requests race.         *)
TokenAdmitsOnePairing == part = "enrollment" => Me!TokenAdmitsOnePairing

(* Approval counts the seats and occupies one in the same transaction: no  *)
(* step occupies a seat beyond the quantity paid for at that moment, in    *)
(* whatever order approvals, retries, failures and billing events come.    *)
SeatsArePaidFor == part = "enrollment" => Me!SeatsArePaidFor

(* The tokens an installer was given are revoked only by a recovery begun  *)
(* after they were stored, and that recovery is then over.                 *)
TokensRotateOncePerRecovery == part = "enrollment" => Me!TokensRotateOncePerRecovery

(* An enrollment its owner cancelled or denied stays so until the owner    *)
(* retries it with a new token.                                            *)
ClosedStaysClosed == part = "enrollment" => Me!ClosedStaysClosed

(* A grant that was bound to a pairing can be exchanged only while its     *)
(* machine is a host.                                                      *)
BoundGrantNeedsHost == part = "setup" => Hs!BoundGrantNeedsHost

(* No two open pairings name one live grant, though a second setup is      *)
(* handed the grant that is already pending in the environment.            *)
GrantBoundOnce == part = "setup" => Hs!GrantBoundOnce

(* The stored material names the grant its pairing is bound to, unless a   *)
(* recovery is under way.                                                  *)
MaterialNamesBoundGrant == part = "setup" => Hs!MaterialNamesBoundGrant

(* An active session is one its user may have now: whatever was withdrawn  *)
(* while its descriptor was being prepared, the row was not written, and   *)
(* whatever is withdrawn later revokes it in the same transaction.         *)
ActiveIsAuthorized == part = "access" => Ma!ActiveIsAuthorized

(* A row is marked as propagated only when no credential of the session is *)
(* honoured downstream any more, however requests and the worker overlap.  *)
PropagatedIsDead == part = "access" => Ma!PropagatedIsDead

(* terminalsessions.Close and Delete: a project's session that is to be    *)
(* closed or gone, and for which nothing is pending, has been stopped by   *)
(* the helper since it was last opened.                                    *)
CloseReachedHelper == part = "terminals" => Ts!CloseReachedHelper

(* terminalsessions.Create, usermachines.CreateTerminalSession: a project  *)
(* or a machine never has more live sessions than its limit.               *)
SessionLimit == part = "terminals" => Ts!SessionLimit

(* access.Connect: "a subsequent close controls the restarted PTY"; the    *)
(* helper never stops a session that is open, whoever still holds an older *)
(* operation.                                                              *)
OpenSessionKeepsRunning == part = "terminals" => Ts!OpenSessionKeepsRunning

(* RotateMachineControlSession: within an installation a session's number  *)
(* is never given to two credentials, so a credential cannot pass for a    *)
(* later one.                                                              *)
GenerationNamesOneCredential == part = "control" => Mc!GenerationNamesOneCredential

(* mintMachineControl: however often one operation is repeated, by however *)
(* many requests, the credentials it hands out that still live are one.    *)
OperationIssuesOneCredential == part = "control" => Mc!OperationIssuesOneCredential

(* RecordAvailabilityObservation: a policy shown as applied is the one the *)
(* owner asked for last, whatever order the machine's reports arrive in.   *)
AppliedAvailabilityIsCurrent == part = "policy" => Mp!AppliedAvailabilityIsCurrent

(* RecordUserMachineCapabilitiesObservation: capabilities shown as applied *)
(* were reported for the version the owner asked for last.                 *)
AppliedCapabilitiesAreCurrent == part = "policy" => Mp!AppliedCapabilitiesAreCurrent

(* updates.go: "ordering fields fence late packets from replacing newer    *)
(* state".                                                                 *)
UpdateReportsMoveForward == part = "reports" => Mr!UpdateReportsMoveForward

(* RecordRuntimeObservation: while an instance of the machine is heard     *)
(* from, an instance that is not newer never takes its place.              *)
LiveInstanceKeepsItsPlace == part = "reports" => Mr!LiveInstanceKeepsItsPlace

(* DecideMaintenanceApproval: a decision and an expiry are final, and no   *)
(* decision is taken once the approval is overdue.                         *)
DecisionsAreFinal == part = "reports" => Mr!DecisionsAreFinal

(* The two tables that record the spending of top-ups agree: what the      *)
(* periods say was taken from top-ups is what left the top-ups by          *)
(* consumption, whatever mix of reservations, reports, partial grants,     *)
(* renewals and refunds happened between (reserveBandwidthForMachineTx).   *)
TopupsBalance == part = "bandwidth" => Mb!TopupsBalance

(* However reports of one counter are delayed, repeated and reordered, the *)
(* deltas charged add up to the stored counter, which is the highest value *)
(* any of them observed (ReconcileUsage never lowers a counter).           *)
UsageChargedOnce == part = "bandwidth" => Mb!UsageChargedOnce

(* A pairing gives authority once: its material holds the live tokens, a   *)
(* bootstrap token admits one pairing, and a host grant is bound to one    *)
(* pairing, of a machine that is a host, whose material names it (Approve, *)
(* recovery, BindAuthenticatedHostSetupHelperEnrollment).                  *)
PairingPromises ==
    /\ MachinesTypeOK
    /\ MaterialIsLive
    /\ TokenAdmitsOnePairing
    /\ BoundGrantNeedsHost
    /\ GrantBoundOnce
    /\ MaterialNamesBoundGrant

(* An active access session is authorized now, one marked as propagated is *)
(* dead downstream, a terminal's close reached its helper, and the         *)
(* terminals stay within the limit (shared_access.go,                      *)
(* terminalsessions/service.go).                                           *)
SessionPromises ==
    /\ ActiveIsAuthorized
    /\ PropagatedIsDead
    /\ CloseReachedHelper
    /\ SessionLimit

(* What is stored about a machine is true: a control generation and an     *)
(* operation name one credential, what counts as applied is the policy in  *)
(* force, usage and top-ups balance, and heartbeats, drains and the        *)
(* registry of the configuration channel follow the host                   *)
(* (machine_control.go, service.go, usage.go, session.go).                 *)
MachineStatePromises ==
    /\ GenerationNamesOneCredential
    /\ OperationIssuesOneCredential
    /\ AppliedAvailabilityIsCurrent
    /\ AppliedCapabilitiesAreCurrent
    /\ TopupsBalance
    /\ UsageChargedOnce
    /\ HeartbeatsAreExpected
    /\ DrainEndsAtHost
    /\ NewestOpenIsRegistered

(* No step takes a seat that is not paid for, rotates tokens without a     *)
(* recovery, revives a closed enrollment, forgets a running terminal,      *)
(* moves an update report backward, displaces a live instance or changes a *)
(* decision (MachineEnrollment, TerminalSessions and MachineReports).      *)
MachineSteps ==
    [][/\ SeatsArePaidFor
       /\ TokensRotateOncePerRecovery
       /\ ClosedStaysClosed
       /\ OpenSessionKeepsRunning
       /\ UpdateReportsMoveForward
       /\ LiveInstanceKeepsItsPlace
       /\ DecisionsAreFinal]_machinesVars
===============================================================================
