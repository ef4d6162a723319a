------------------------------ MODULE MCProgress ------------------------------
(***************************************************************************)
(* What must eventually happen: the liveness of the hosted project's       *)
(* deletion, of metering, of credential rotation and of peer attempts,     *)
(* each under the fairness its module states.                              *)
(*                                                                         *)
(* As in the other MC modules every behaviour exercises one part, chosen   *)
(* in the initial state, and the parts take turns with the same variables: *)
(* an action of a part is fair only in its own behaviours.                 *)
(***************************************************************************)
EXTENDS Naturals

CONSTANTS
    Parts,  \* the parts the behaviours exercise
    HlWorkers, Configs, SizeOf, Limit, HlScopes, MaxJobs, MaxMachines,
    Workers, MaxTime, MaxRequests, MaxFaults, Credits, MaxGrants,
    GrantSize, RtConnectors, RtOps, RtMaxGen, RtMaxProc, RtNone,
    PkClients, PkHost, PkKeys, PkCerts, PkOps, PkMaxGen, PkNone, PsMax

VARIABLES
    part,  \* the part this behaviour exercises
    v1, v2, v3, v4, v5, v6, v7, v8, v9, v10, v11, v12, v13, v14, v15, v16  \* its variables

Hl == INSTANCE HostedLifecycle WITH hlScope <- v1, state <- v2,
        desired <- v3, applied <- v4, pending <- v5, allocated <- v6,
        released <- v7, env <- v8, hlJobs <- v9, volRec <- v10,
        machRec <- v11, vols <- v12, machs <- v13, hlWk <- v14,
        hlFaults <- v15, removal <- v16
Me == INSTANCE RuntimeMetering WITH clock <- v1, pstate <- v2, up <- v3,
        jobs <- v4, requests <- v5, entitled <- v6, intervals <- v7,
        cps <- v8, ledger <- v9, balance <- v10, grants <- v11, wk <- v12,
        faults <- v13
Rt == INSTANCE CredentialRotation WITH rtConn <- v1, rtCred <- v2,
        rtSession <- v3, rtOp <- v4, rtOver <- v5, rtTarget <- v6
Ps == INSTANCE PeerSessions WITH pkRoot <- v1, pkClient <- v2, pkHost <- v3,
        pkKey <- v4, pkCert <- v5, pkRequest <- v6, pkCalls <- v7,
        psIntent <- v8, psReach <- v9, psPoll <- v10, psToNotify <- v11

ASSUME Hl!SizeAssumption
ASSUME Hl!HlBoundAssumption
ASSUME Hl!ScopeAssumption
ASSUME Me!BoundAssumption
ASSUME Rt!RtAssumption
ASSUME Ps!PsAssumption
ASSUME Ps!PkAssumption

ProgressSizes == [c \in Configs |-> 1]
\* Two workers, one fault, and an owner who creates and deletes.
ProgressScopes ==
    {[workers |-> HlWorkers, configs |-> Configs, overlap |-> FALSE, faults |-> 1,
      requests |-> {"create", "delete"}]}

progressVars == <<part, v1, v2, v3, v4, v5, v6, v7, v8, v9, v10, v11, v12, v13, v14, v15, v16>>

\* The variables a part does not need are 0.
ProgressInit ==
    /\ part \in Parts
    /\ \/ part = "lifecycle" /\ Hl!HlInit
       \/ part = "metering" /\ Me!Init
          /\ v14 = 0 /\ v15 = 0 /\ v16 = 0
       \/ part = "rotation" /\ Rt!RtInit
          /\ v7 = 0 /\ v8 = 0 /\ v9 = 0 /\ v10 = 0 /\ v11 = 0 /\ v12 = 0 /\ v13 = 0 /\ v14 = 0
          /\ v15 = 0 /\ v16 = 0
       \/ part = "peers" /\ Ps!PsInit
          /\ v12 = 0 /\ v13 = 0 /\ v14 = 0 /\ v15 = 0 /\ v16 = 0

ProgressNext ==
    /\ UNCHANGED part
    /\ \/ part = "lifecycle" /\ Hl!HlNext
       \/ part = "metering" /\ Me!Next
          /\ UNCHANGED <<v14, v15, v16>>
       \/ part = "rotation" /\ Rt!RtNext
          /\ UNCHANGED <<v7, v8, v9, v10, v11, v12, v13, v14, v15, v16>>
       \/ part = "peers" /\ Ps!PsNext
          /\ UNCHANGED <<v12, v13, v14, v15, v16>>

lifecycleVars == Hl!hlWork
meteringVars == Me!vars
rotationVars == Rt!rtVars
peersVars == Ps!peerVars

\* The fairness of the modules, each in the behaviours of its part.
ProgressFairness ==
    /\ \A w \in HlWorkers : WF_lifecycleVars(part = "lifecycle" /\ Hl!Work(w))
    /\ WF_lifecycleVars(part = "lifecycle" /\ Hl!ClaimSome)
    /\ SF_lifecycleVars(part = "lifecycle" /\ Hl!ClaimDelete)
    /\ WF_lifecycleVars(part = "lifecycle" /\ Hl!BackoffSome)
    /\ WF_lifecycleVars(part = "lifecycle" /\ Hl!BackoffDelete)
    /\ WF_lifecycleVars(part = "lifecycle" /\ Hl!ExpireSome)
    /\ WF_meteringVars(part = "metering" /\ Me!Tick)
    /\ \A w \in Workers : WF_meteringVars(part = "metering" /\ Me!Pass(w))
    /\ \A o \in RtOps :
         /\ WF_rotationVars(part = "rotation" /\ Rt!OverlapEnds(o))
         /\ \A c \in RtConnectors :
              /\ WF_rotationVars(part = "rotation" /\ Rt!reconcileTarget(o, c))
              /\ WF_rotationVars(part = "rotation" /\ Rt!TargetFallsLate(o, c))
    /\ WF_peersVars(part = "peers" /\ Ps!NextControlled)
    /\ WF_peersVars(part = "peers" /\ Ps!subscribeControlled)
    /\ WF_peersVars(part = "peers" /\ Ps!WaitNextControlled)

ProgressSpec == ProgressInit /\ [][ProgressNext]_progressVars /\ ProgressFairness

-----------------------------------------------------------------------------
(* A rotation takes a connector's old credential away only once every      *)
(* connector of the rotation runs on its new one, and when it is reported  *)
(* as succeeded every old credential it captured is gone                   *)
(* (updateRotationOperation).                                              *)
RotationRetiresInOrder ==
    [][part = "rotation" => /\ Rt!OldCredentialOutlivesLaggards
                            /\ Rt!SucceededMeansRetired']_progressVars

(* A requested deletion completes, unless a secret deletion has no         *)
(* confirmed outcome and waits for an operator (deleteProject).            *)
DeleteCompletes ==
    (part = "lifecycle" /\ v16) ~> (part = "lifecycle" => Hl!Deleted)

(* A machine whose metering could not be paid for does not keep running:   *)
(* its checkpoint is paid or its project leaves the state running, however *)
(* often the owner starts it again.                                        *)
NoFreeRide ==
    (part = "metering" /\ Me!RidesFree) ~> (part = "metering" => ~Me!RidesFree)

(* A request that is parked when an attempt for its machine exists is      *)
(* answered without waiting for its deadline, or the attempt stops being   *)
(* possible.                                                               *)
AttemptReachesParkedRequest ==
    \A i \in 1 .. PsMax :
      (part = "peers" /\ Ps!AttemptWaits(i)) ~> (part = "peers" => ~Ps!AttemptWaits(i))

(* Every rotation settles, whatever connectors do, lose or refuse: the     *)
(* overlap window and the revoke deadline bound it.                        *)
RotationSettles ==
    \A o \in RtOps :
      (part = "rotation" /\ Rt!OpenRotation(o)) ~> (part = "rotation" => Rt!RotationDone(o))
===============================================================================
