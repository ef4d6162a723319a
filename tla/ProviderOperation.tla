-------------------------- MODULE ProviderOperation --------------------------
(***************************************************************************)
(* One provider mutation of an orchestration job: the job's lease, the     *)
(* operation's ledger row and the provider, step by step                   *)
(* (internal/orchestrator/provider_operations.go).                         *)
(*                                                                         *)
(* A worker claims the job, runs one of the four execute*Mutation helpers  *)
(* and completes or fails the job.  Every database statement and every     *)
(* provider call is a step of its own, so another worker, the operator, a  *)
(* crash, or a lease expiry can come between any two of them.              *)
(*                                                                         *)
(* "kind" says which helper runs:                                          *)
(*   create   executeProviderMutation, after a lookup by name and tag      *)
(*   machine  executeMachineMutation (start, stop, update)                 *)
(*   destroy  executeDestroyMutation (machine, volume)                     *)
(*   secret   executeNonObservableMutation (secret deletion)               *)
(***************************************************************************)
EXTENDS Naturals, TLAPS

-----------------------------------------------------------------------------
(* The rows of hosted_provider_operations and the SQL statements that move *)
(* them (internal/db/queries/orchestrator.sql and control_plane.sql).  One *)
(* row records one provider mutation, identified by (job, step).  Every    *)
(* operator below is one statement: it maps the row before the statement   *)
(* to the row after it and leaves the row alone when the WHERE clause does *)
(* not match, because the callers never look at the number of rows.        *)
OpStates == {"absent", "pending", "running", "succeeded", "failed", "uncertain"}

(* fly.Outcome, with the column's default "pending".  A mutation never     *)
(* reports "retryable": the SDK client and the timeout wrapper turn a      *)
(* retryable failure of a mutation into "uncertain".                       *)
DefiniteErrors == {"capacity", "not_found", "conflict", "permanent"}
Outcomes == {"pending", "success", "uncertain"} \union DefiniteErrors

Rows(Requests) == [state : OpStates, outcome : Outcomes, request : Requests]

NoRow(request) == [state |-> "absent", outcome |-> "pending", request |-> request]

(* The insert finds a row reserved for a different request.                *)
ReserveConflict(op, request) == op.state # "absent" /\ op.request # request

ReserveRow(op, request) ==
  IF op.state = "absent"
  THEN [state |-> "pending", outcome |-> "pending", request |-> request]
  ELSE op

StartRow(op) ==
  IF op.state \in {"pending", "uncertain"} THEN [op EXCEPT !.state = "running"] ELSE op

ResetRow(op) ==
  IF op.state \in {"running", "succeeded", "uncertain", "failed"}
  THEN [op EXCEPT !.state = "pending", !.outcome = "pending"]
  ELSE op

CompleteRow(op) ==
  IF op.state = "running"
  THEN [op EXCEPT !.state = "succeeded", !.outcome = "success"]
  ELSE op

ResolveRow(op) ==
  IF op.state \in {"pending", "running", "uncertain", "succeeded"}
  THEN [op EXCEPT !.state = "succeeded", !.outcome = "success"]
  ELSE op

(* The state a failed call leaves: only "uncertain" waits for observation, *)
(* only lack of capacity is retried, everything else is terminal.          *)
FailedState(outcome) ==
  CASE outcome = "uncertain" -> "uncertain"
    [] outcome = "capacity"  -> "pending"
    [] OTHER                 -> "failed"

FailRow(op, outcome) ==
  IF op.state = "running"
  THEN [op EXCEPT !.state = FailedState(outcome), !.outcome = outcome]
  ELSE op

(* The administrator's two answers about an uncertain secret deletion.     *)
Recoverable(op) == op.state = "uncertain"
ConfirmDeletedRow(op) == [op EXCEPT !.state = "succeeded", !.outcome = "success"]
RetryRow(op) == [op EXCEPT !.state = "pending", !.outcome = "pending"]

-----------------------------------------------------------------------------
CONSTANTS
  Workers,      \* orchestrator workers, one per server process
  NoLease,      \* the empty lease token
  Kinds,        \* the helpers under study
  Requests,     \* request contents a create or update may be asked for
  Overlap,      \* may a lease run out while its worker is still at work?
  LateKinds,    \* helpers whose calls the provider may apply after the client gave up
  MaxFaults     \* bound on failed calls, crashes and out-of-band changes

ASSUME KindsAssumption == Kinds \subseteq {"create", "machine", "destroy", "secret"}
ASSUME LeaseAssumption == NoLease \notin Workers
ASSUME BoundAssumption == MaxFaults \in Nat
ASSUME FlagAssumption == Overlap \in BOOLEAN /\ LateKinds \subseteq Kinds

VARIABLES
  kind,       \* which helper this operation uses (fixed)
  request,    \* what the project's desired configuration asks for now
  job,        \* orchestration_jobs row: state, lease holder, lease expired?
  op,         \* hosted_provider_operations row
  pc,         \* where each worker is
  seen,       \* the row each worker's reservation returned
  reply,      \* the provider's answer each worker holds
  live,       \* copies of the resource (create), or 1 when present / in state
  late,       \* calls given up by the client that the provider may yet apply
  faults,     \* faults so far
  unresolved, \* history: a call was issued, its outcome is not yet established
  reached     \* history: the provider has been in the state the call asks for

vars == <<kind, request, job, op, pc, seen, reply, live, late, faults, unresolved, reached>>
local == <<pc, seen, reply>>
provider == <<live, late>>

PCs == {"idle", "lookup", "adopt", "reserve", "observe", "reset", "start",
        "mutate", "record", "resolve", "done", "fail"}

InTarget(n) == IF kind \in {"create", "machine"} THEN n > 0 ELSE n = 0

(* What one application of the mutation does to the provider.              *)
Applied(n) ==
  CASE kind = "create"  -> n + 1
    [] kind = "machine" -> 1
    [] OTHER            -> 0

Init ==
  /\ kind \in Kinds
  /\ request \in Requests
  /\ job = [state |-> "queued", lease |-> NoLease, expired |-> FALSE]
  /\ op = NoRow(request)
  /\ pc = [w \in Workers |-> "idle"]
  /\ seen = [w \in Workers |-> NoRow(request)]
  /\ reply = [w \in Workers |-> "pending"]
  /\ live = IF kind \in {"create", "machine"} THEN 0 ELSE 1
  /\ late = 0
  /\ faults = 0
  /\ unresolved = FALSE
  /\ reached = FALSE

-----------------------------------------------------------------------------
(* The job                                                                 *)

ClaimQueuedOnly(w) ==
  /\ pc[w] = "idle"
  /\ job.state = "queued"
  /\ job' = [state |-> "running", lease |-> w, expired |-> FALSE]
  /\ pc' = [pc EXCEPT ![w] = IF kind = "create" THEN "lookup" ELSE "reserve"]
  /\ UNCHANGED <<kind, request, op, seen, reply, provider, faults, unresolved, reached>>

(* ClaimNextJob: a queued job, or a running one whose lease has run out.   *)
Claim(w) ==
  /\ pc[w] = "idle"
  /\ job.state = "queued" \/ (job.state = "running" /\ job.expired)
  /\ job' = [state |-> "running", lease |-> w, expired |-> FALSE]
  /\ pc' = [pc EXCEPT ![w] = IF kind = "create" THEN "lookup" ELSE "reserve"]
  /\ UNCHANGED <<kind, request, op, seen, reply, provider, faults, unresolved, reached>>

(* Time passes the lease's end.  Without Overlap only an abandoned lease   *)
(* runs out, that is, the worker that took it is gone.                     *)
ExpireLease ==
  /\ job.state = "running"
  /\ ~job.expired
  /\ Overlap \/ pc[job.lease] = "idle"
  /\ job' = [job EXCEPT !.expired = TRUE]
  /\ UNCHANGED <<kind, request, op, local, provider, faults, unresolved, reached>>

(* CompleteJob and FailJob match on the lease token; a worker that lost    *)
(* its lease changes nothing.                                              *)
Holds(w) == job.state = "running" /\ job.lease = w

CompleteJob(w) ==
  /\ pc[w] = "done"
  /\ job' = IF Holds(w) THEN [state |-> "succeeded", lease |-> NoLease, expired |-> FALSE] ELSE job
  /\ pc' = [pc EXCEPT ![w] = "idle"]
  /\ UNCHANGED <<kind, request, op, seen, reply, provider, faults, unresolved, reached>>

FailJob(w) ==
  /\ pc[w] = "fail"
  /\ job' = IF Holds(w) THEN [state |-> "queued", lease |-> NoLease, expired |-> FALSE] ELSE job
  /\ pc' = [pc EXCEPT ![w] = "idle"]
  /\ UNCHANGED <<kind, request, op, seen, reply, provider, faults, unresolved, reached>>

-----------------------------------------------------------------------------
(* The helpers, one database statement or provider call at a time          *)

(* Mutated form: the create goes ahead without looking first.              *)
LookupSkipped(w) ==
  /\ pc[w] = "lookup"
  /\ pc' = [pc EXCEPT ![w] = "reserve"]
  /\ unresolved' = FALSE
  /\ UNCHANGED <<kind, request, job, op, seen, reply, provider, faults, reached>>

(* findProviderVolume / findProviderMachine before a create.               *)
Lookup(w) ==
  /\ pc[w] = "lookup"
  /\ pc' = [pc EXCEPT ![w] = IF InTarget(live) THEN "adopt" ELSE "reserve"]
  /\ unresolved' = FALSE
  /\ UNCHANGED <<kind, request, job, op, seen, reply, provider, faults, reached>>

(* A read that fails fails the attempt; it changes nothing.                *)
ReadFails(w) ==
  /\ pc[w] \in {"lookup", "observe"}
  /\ faults < MaxFaults
  /\ faults' = faults + 1
  /\ pc' = [pc EXCEPT ![w] = "fail"]
  /\ UNCHANGED <<kind, request, job, op, seen, reply, provider, unresolved, reached>>

(* resolveProviderMutationByObservation reserves, then resolves.           *)
Adopt(w) ==
  /\ pc[w] = "adopt"
  /\ op' = ReserveRow(op, request)
  /\ pc' = [pc EXCEPT ![w] = IF ReserveConflict(op, request) THEN "fail" ELSE "resolve"]
  /\ UNCHANGED <<kind, request, job, seen, reply, provider, faults, unresolved, reached>>

(* Mutated form: a secret deletion left running or uncertain is reissued.  *)
AfterReserveRetries(state) ==
  CASE kind = "create"  -> (CASE state = "pending" -> "start"
                              [] state = "failed"  -> "fail"
                              [] OTHER             -> "reset")
    [] kind = "machine" -> (IF state = "pending" THEN "start" ELSE "observe")
    [] kind = "destroy" -> (CASE state = "pending" -> "start"
                              [] state = "failed"  -> "fail"
                              [] OTHER             -> "observe")
    [] kind = "secret"  -> (CASE state = "failed"    -> "fail"
                              [] state = "succeeded" -> "done"
                              [] OTHER               -> "start")

(* Where a helper goes with the row its reservation returned.              *)
AfterReserve(state) ==
  CASE kind = "create"  -> (CASE state = "pending" -> "start"
                              [] state = "failed"  -> "fail"
                              [] OTHER             -> "reset")
    [] kind = "machine" -> (IF state = "pending" THEN "start" ELSE "observe")
    [] kind = "destroy" -> (CASE state = "pending" -> "start"
                              [] state = "failed"  -> "fail"
                              [] OTHER             -> "observe")
    [] kind = "secret"  -> (CASE state = "pending"   -> "start"
                              [] state = "succeeded" -> "done"
                              [] OTHER               -> "fail")

Reserve(w) ==
  /\ pc[w] = "reserve"
  /\ op' = ReserveRow(op, request)
  /\ seen' = [seen EXCEPT ![w] = op']
  /\ pc' = [pc EXCEPT ![w] = IF ReserveConflict(op, request) THEN "fail" ELSE AfterReserve(op'.state)]
  /\ UNCHANGED <<kind, request, job, reply, provider, faults, unresolved, reached>>

(* Mutated form: an interrupted call is taken for a successful one.        *)
AfterObserveTrusts(w) ==
  IF InTarget(live) \/ seen[w].state = "running" THEN "resolve"
  ELSE IF seen[w].state = "failed" /\ seen[w].outcome # "conflict" THEN "fail"
  ELSE "reset"

(* GetMachine / GetVolume on a row that is no longer pending.              *)
AfterObserve(w) ==
  IF InTarget(live) THEN "resolve"
  ELSE IF seen[w].state = "failed" /\ seen[w].outcome # "conflict" THEN "fail"
  ELSE "reset"

Observe(w) ==
  /\ pc[w] = "observe"
  /\ pc' = [pc EXCEPT ![w] = AfterObserve(w)]
  /\ unresolved' = FALSE
  /\ UNCHANGED <<kind, request, job, op, seen, reply, provider, faults, reached>>

Reset(w) ==
  /\ pc[w] = "reset"
  /\ op' = ResetRow(op)
  /\ pc' = [pc EXCEPT ![w] = "start"]
  /\ UNCHANGED <<kind, request, job, seen, reply, provider, faults, unresolved, reached>>

Start(w) ==
  /\ pc[w] = "start"
  /\ op' = StartRow(op)
  /\ pc' = [pc EXCEPT ![w] = "mutate"]
  /\ UNCHANGED <<kind, request, job, seen, reply, provider, faults, unresolved, reached>>

(* mutate(): the provider call succeeds.  Deleting what is already gone    *)
(* may also be answered with not_found.                                    *)
MutateOK(w) ==
  /\ pc[w] = "mutate"
  /\ live' = Applied(live)
  /\ \E r \in {"success"} \union (IF kind \in {"destroy", "secret"} /\ live = 0 THEN {"not_found"} ELSE {}) :
       reply' = [reply EXCEPT ![w] = r]
  /\ pc' = [pc EXCEPT ![w] = "record"]
  /\ unresolved' = TRUE
  /\ reached' = TRUE
  /\ UNCHANGED <<kind, request, job, op, seen, late, faults>>

(* The call is refused without effect.                                     *)
MutateRefused(w) ==
  /\ pc[w] = "mutate"
  /\ faults < MaxFaults
  /\ faults' = faults + 1
  /\ \E r \in DefiniteErrors \ (IF kind \in {"destroy", "secret"} THEN {"not_found"} ELSE {}) :
       reply' = [reply EXCEPT ![w] = r]
  /\ pc' = [pc EXCEPT ![w] = "record"]
  /\ unresolved' = TRUE
  /\ UNCHANGED <<kind, request, job, op, seen, provider, reached>>

(* The client never learns the outcome: the call was applied, was not, or  *)
(* is still on its way.                                                    *)
MutateUncertain(w) ==
  /\ pc[w] = "mutate"
  /\ faults < MaxFaults
  /\ faults' = faults + 1
  /\ \/ live' = Applied(live) /\ reached' = TRUE /\ late' = late
     \/ live' = live /\ reached' = reached /\ late' = late
     \/ kind \in LateKinds /\ live' = live /\ reached' = reached /\ late' = late + 1
  /\ reply' = [reply EXCEPT ![w] = "uncertain"]
  /\ pc' = [pc EXCEPT ![w] = "record"]
  /\ unresolved' = TRUE
  /\ UNCHANGED <<kind, request, job, op, seen>>

(* CompleteProviderOperation, ResolveProviderOperationByObservation (not   *)
(* found when removing) or FailProviderOperation.                          *)
Record(w) ==
  /\ pc[w] = "record"
  /\ LET gone == reply[w] = "not_found" /\ kind \in {"destroy", "secret"}
         ok   == reply[w] = "success" \/ gone
     IN  /\ op' = CASE gone                -> ResolveRow(op)
                    [] reply[w] = "success" -> CompleteRow(op)
                    [] OTHER                -> FailRow(op, reply[w])
         /\ pc' = [pc EXCEPT ![w] = IF ok THEN "done" ELSE "fail"]
  /\ unresolved' = (reply[w] = "uncertain")
  /\ UNCHANGED <<kind, request, job, seen, reply, provider, faults, reached>>

Resolve(w) ==
  /\ pc[w] = "resolve"
  /\ op' = ResolveRow(op)
  /\ pc' = [pc EXCEPT ![w] = "done"]
  /\ UNCHANGED <<kind, request, job, seen, reply, provider, faults, unresolved, reached>>

-----------------------------------------------------------------------------
(* The environment                                                         *)

(* The process stops, or its context is cancelled so that it can write     *)
(* nothing more.  The job stays running under its lease.                   *)
Crash(w) ==
  /\ pc[w] # "idle"
  /\ faults < MaxFaults
  /\ faults' = faults + 1
  /\ pc' = [pc EXCEPT ![w] = "idle"]
  /\ UNCHANGED <<kind, request, job, op, seen, reply, provider, unresolved, reached>>

Land ==
  /\ late > 0
  /\ late' = late - 1
  /\ live' = Applied(live)
  /\ reached' = TRUE
  /\ UNCHANGED <<kind, request, job, op, local, faults, unresolved>>

(* The resource is removed, or the machine changes state, out of band.     *)
Drift ==
  /\ faults < MaxFaults
  /\ faults' = faults + 1
  /\ live > 0
  /\ live' = 0
  /\ reached' = (reached \/ InTarget(0))
  /\ UNCHANGED <<kind, request, job, op, local, late, unresolved>>

(* A desired-configuration update changes the request of a later attempt.  *)
ChangeRequest ==
  /\ kind \in {"create", "machine"}
  /\ faults < MaxFaults
  /\ faults' = faults + 1
  /\ \E r \in Requests \ {request} : request' = r
  /\ UNCHANGED <<kind, job, op, local, provider, unresolved, reached>>

(* HostedProviderRecoveryService.Recover.  The runbook lets an             *)
(* administrator confirm a deletion only on provider-side evidence.        *)
Recover ==
  /\ kind = "secret"
  /\ Recoverable(op)
  /\ \/ InTarget(live) /\ op' = ConfirmDeletedRow(op)
     \/ op' = RetryRow(op)
  /\ unresolved' = FALSE
  /\ UNCHANGED <<kind, request, job, local, provider, faults, reached>>

Step(w) ==
  \/ CompleteJob(w) \/ FailJob(w)
  \/ Lookup(w) \/ Adopt(w) \/ Reserve(w) \/ Observe(w) \/ Reset(w) \/ Start(w)
  \/ MutateOK(w) \/ Record(w) \/ Resolve(w)

Fault(w) == ReadFails(w) \/ MutateRefused(w) \/ MutateUncertain(w) \/ Crash(w)

Next ==
  \/ \E w \in Workers : Claim(w) \/ Step(w) \/ Fault(w)
  \/ ExpireLease \/ Land \/ Drift \/ ChangeRequest \/ Recover

Spec == Init /\ [][Next]_vars

(* The worker loop ticks forever, an expired lease is noticed by the next  *)
(* claim's WHERE clause, and administrators answer uncertain deletions.    *)
Fairness ==
  /\ \A w \in Workers : WF_vars(Claim(w)) /\ WF_vars(Step(w))
  /\ WF_vars(ExpireLease)
  /\ WF_vars(Recover)

FairSpec == Spec /\ Fairness

-----------------------------------------------------------------------------
(* Properties                                                              *)

(* The hosted_provider_operations row is always in a state its CHECK        *)
(* constraint allows, whatever FailProviderOperation derives from the       *)
(* outcome, and every worker is at a step of the executors.                 *)
TypeOK ==
  /\ kind \in Kinds
  /\ request \in Requests
  /\ job \in [state : {"queued", "running", "succeeded"},
              lease : Workers \union {NoLease}, expired : BOOLEAN]
  /\ op \in Rows(Requests)
  /\ pc \in [Workers -> PCs]
  /\ seen \in [Workers -> Rows(Requests)]
  /\ reply \in [Workers -> Outcomes]
  /\ live \in Nat /\ late \in Nat /\ faults \in 0..MaxFaults
  /\ unresolved \in BOOLEAN /\ reached \in BOOLEAN

(* fly.OutcomeUncertain "must be resolved by observation before it is      *)
(* retried": no helper reaches its provider call while the outcome of an   *)
(* earlier call of this operation is unknown, whatever crashed, failed or  *)
(* changed in between.                                                     *)
NoBlindReissue == \A w \in Workers : pc[w] = "mutate" => ~unresolved

(* A ledger row or a job only says "succeeded" when the provider really    *)
(* was in the state the mutation asks for, by this call or by observation, *)
(* even when two workers run the same job and calls land late.             *)
SuccessIsReal == op.state = "succeeded" \/ job.state = "succeeded" => reached

(* Lookup, ledger and lease together create at most one resource for the   *)
(* step ("One machine and one volume per project").                        *)
OneCopy == kind = "create" => live <= 1

(* The lease keeps a second worker from issuing the same mutation          *)
(* (migration 033: "no second worker may lease the same Fly mutation").    *)
ExclusiveMutation ==
  \A v, w \in Workers : pc[v] = "mutate" /\ pc[w] = "mutate" => v = w

(* A secret deletion that is settled stays settled: a worker that lost its *)
(* lease cannot take back what another worker or the operator recorded.    *)
KeepsSettledSecret == kind = "secret" /\ op.state = "succeeded" => op'.state = "succeeded"
SettledSecretStays == [][KeepsSettledSecret]_vars

(* Retrying ends: once faults stop, an operation whose effect can be       *)
(* observed is carried through, unless it failed for good or the request   *)
(* it was reserved for has changed.                                        *)
ObservableSettles ==
  <>(job.state = "succeeded" \/ op.state = "failed" \/ op.request # request \/ kind = "secret")

-----------------------------------------------------------------------------
(* Proofs, for any set of workers, any requests and any number of faults.  *)
(* SuccessIsReal needs no assumption on leases.  NoBlindReissue,           *)
(* ExclusiveMutation and OneCopy rest on the lease outliving the worker    *)
(* that took it (~Overlap); OneCopy also on no create landing after the    *)
(* client gave up (LateKinds).  TLC shows that neither can be dropped.     *)

(* Every statement keeps the row well typed.                               *)
LEMMA RowTyping ==
  ASSUME NEW r \in Requests, NEW o \in Rows(Requests), NEW e \in Outcomes
  PROVE  /\ NoRow(r) \in Rows(Requests)
         /\ ReserveRow(o, r) \in Rows(Requests)
         /\ StartRow(o) \in Rows(Requests)
         /\ ResetRow(o) \in Rows(Requests)
         /\ CompleteRow(o) \in Rows(Requests)
         /\ ResolveRow(o) \in Rows(Requests)
         /\ FailRow(o, e) \in Rows(Requests)
         /\ ConfirmDeletedRow(o) \in Rows(Requests)
         /\ RetryRow(o) \in Rows(Requests)
<1> USE DEF Rows, OpStates, Outcomes, DefiniteErrors
<1>1. NoRow(r) \in Rows(Requests) /\ ReserveRow(o, r) \in Rows(Requests)
  BY DEF NoRow, ReserveRow
<1>2. StartRow(o) \in Rows(Requests) /\ ResetRow(o) \in Rows(Requests)
  BY DEF StartRow, ResetRow
<1>3. CompleteRow(o) \in Rows(Requests) /\ ResolveRow(o) \in Rows(Requests)
  BY DEF CompleteRow, ResolveRow
<1>4. FailedState(e) \in OpStates
  BY DEF FailedState
<1>5. FailRow(o, e) \in Rows(Requests)
  BY <1>4 DEF FailRow
<1>6. ConfirmDeletedRow(o) \in Rows(Requests) /\ RetryRow(o) \in Rows(Requests)
  BY DEF ConfirmDeletedRow, RetryRow
<1> QED BY <1>1, <1>2, <1>3, <1>5, <1>6

(* The variables keep their types: in particular a row never holds a state *)
(* or outcome that the table's CHECK constraints would reject.             *)
THEOREM TypeCorrect == Spec => []TypeOK
<1>1. Init => TypeOK
  <2> SUFFICES ASSUME Init PROVE TypeOK
    OBVIOUS
  <2>1. NoRow(request) \in Rows(Requests)
    BY DEF Init, NoRow, Rows, OpStates, Outcomes
  <2>2. job \in [state : {"queued", "running", "succeeded"},
                lease : Workers \union {NoLease}, expired : BOOLEAN]
    BY DEF Init
  <2>3. live \in Nat /\ late \in Nat /\ faults \in 0..MaxFaults
    BY BoundAssumption DEF Init
  <2>4. pc \in [Workers -> PCs] /\ reply \in [Workers -> Outcomes]
    BY DEF Init, PCs, Outcomes
  <2>5. op \in Rows(Requests) /\ seen \in [Workers -> Rows(Requests)]
    BY <2>1 DEF Init
  <2> QED BY <2>2, <2>3, <2>4, <2>5 DEF Init, TypeOK
<1>2. TypeOK /\ [Next]_vars => TypeOK'
  <2> SUFFICES ASSUME TypeOK, [Next]_vars PROVE TypeOK'
    OBVIOUS
  <2> USE BoundAssumption DEF TypeOK
  <2>1. ASSUME NEW w \in Workers, Claim(w) PROVE TypeOK'
    BY <2>1 DEF Claim, PCs, provider
  <2>2. ASSUME NEW w \in Workers, CompleteJob(w) \/ FailJob(w) PROVE TypeOK'
    <3>1. job' \in [state : {"queued", "running", "succeeded"},
                   lease : Workers \union {NoLease}, expired : BOOLEAN]
      <4>1. CASE Holds(w)
        <5>1. \E st \in {"succeeded", "queued"} :
                job' = [state |-> st, lease |-> NoLease, expired |-> FALSE]
          BY <2>2, <4>1, Zenon DEF CompleteJob, FailJob
        <5> QED BY <5>1
      <4>2. CASE ~Holds(w)
        BY <2>2, <4>2, Zenon DEF CompleteJob, FailJob
      <4> QED BY <4>1, <4>2
    <3> QED BY <2>2, <3>1 DEF CompleteJob, FailJob, PCs, provider
  <2>3. ASSUME NEW w \in Workers, Lookup(w) \/ ReadFails(w) PROVE TypeOK'
    <3>1. CASE Lookup(w)
      BY <3>1 DEF Lookup, PCs, provider
    <3>2. CASE ReadFails(w)
      BY <3>2 DEF ReadFails, PCs, provider
    <3> QED BY <2>3, <3>1, <3>2
  <2>4. ASSUME NEW w \in Workers, Adopt(w) PROVE TypeOK'
    BY <2>4, RowTyping DEF Adopt, PCs, provider
  <2>5. ASSUME NEW w \in Workers, Reserve(w) PROVE TypeOK'
    <3>1. op' \in Rows(Requests)
      BY <2>5, RowTyping DEF Reserve
    <3>2. AfterReserve(op'.state) \in PCs
      BY KindsAssumption DEF AfterReserve, PCs
    <3>3. pc' \in [Workers -> PCs]
      BY <2>5, <3>2 DEF Reserve, PCs
    <3> QED BY <2>5, <3>1, <3>3 DEF Reserve, provider
  <2>6. ASSUME NEW w \in Workers, Observe(w) PROVE TypeOK'
    <3>1. AfterObserve(w) \in PCs
      BY DEF AfterObserve, PCs
    <3> QED BY <2>6, <3>1 DEF Observe, provider
  <2>7. ASSUME NEW w \in Workers, Reset(w) \/ Start(w) \/ Resolve(w) PROVE TypeOK'
    BY <2>7, RowTyping DEF Reset, Start, Resolve, PCs, provider
  <2>8. ASSUME NEW n \in Nat PROVE Applied(n) \in Nat
    BY DEF Applied
  <2>9. ASSUME NEW w \in Workers, MutateOK(w) PROVE TypeOK'
    <3>1. PICK r \in {"success", "not_found"} : reply' = [reply EXCEPT ![w] = r]
      BY <2>9 DEF MutateOK
    <3> QED BY <2>9, <2>8, <3>1 DEF MutateOK, PCs, Outcomes, DefiniteErrors
  <2>10. ASSUME NEW w \in Workers, MutateRefused(w) PROVE TypeOK'
    <3>1. PICK r \in DefiniteErrors : reply' = [reply EXCEPT ![w] = r]
      BY <2>10 DEF MutateRefused
    <3> QED BY <2>10, <3>1 DEF MutateRefused, PCs, Outcomes, provider
  <2>11. ASSUME NEW w \in Workers, MutateUncertain(w) PROVE TypeOK'
    <3>1. live' \in Nat /\ late' \in Nat
      BY <2>11, <2>8 DEF MutateUncertain
    <3>3. reached' \in BOOLEAN
      BY <2>11, Zenon DEF MutateUncertain
    <3>2. reply' \in [Workers -> Outcomes] /\ pc' \in [Workers -> PCs]
      BY <2>11 DEF MutateUncertain, Outcomes, PCs
    <3> QED BY <2>11, <3>1, <3>2, <3>3 DEF MutateUncertain
  <2>12. ASSUME NEW w \in Workers, Record(w) PROVE TypeOK'
    <3>1. op' \in Rows(Requests)
      BY <2>12, RowTyping DEF Record
    <3> QED BY <2>12, <3>1 DEF Record, PCs, provider
  <2>13. ASSUME NEW w \in Workers, Crash(w) PROVE TypeOK'
    BY <2>13 DEF Crash, PCs, provider
  <2>14. CASE ExpireLease
    BY <2>14 DEF ExpireLease, local, provider
  <2>15. CASE Land
    BY <2>15, <2>8 DEF Land, local
  <2>16. CASE Drift
    BY <2>16 DEF Drift, local, InTarget
  <2>17. CASE ChangeRequest
    BY <2>17 DEF ChangeRequest, local, provider
  <2>18. CASE Recover
    <3>1. op' \in Rows(Requests)
      <4>1. "success" \in Outcomes
        BY DEF Outcomes
      <4> QED BY <2>18, <4>1, RowTyping DEF Recover
    <3> QED BY <2>18, <3>1 DEF Recover, local, provider
  <2>19. CASE UNCHANGED vars
    BY <2>19 DEF vars
  <2> QED
    BY <2>1, <2>2, <2>3, <2>4, <2>5, <2>6, <2>7, <2>9, <2>10, <2>11, <2>12,
       <2>13, <2>14, <2>15, <2>16, <2>17, <2>18, <2>19 DEF Next, Step, Fault
<1> QED BY <1>1, <1>2, PTL DEF Spec

-----------------------------------------------------------------------------
(* The strengthening of SuccessIsReal: whoever is about to record success  *)
(* already knows that the provider was in the target state.                *)
OkReply(w) == reply[w] = "success" \/ (reply[w] = "not_found" /\ kind \in {"destroy", "secret"})

RealInv ==
  /\ InTarget(live) => reached
  /\ op.state = "succeeded" => reached
  /\ job.state = "succeeded" => reached
  /\ \A w \in Workers : pc[w] \in {"adopt", "resolve", "done"} => reached
  /\ \A w \in Workers : pc[w] = "record" /\ OkReply(w) => reached

(* No statement other than Complete, Resolve and the operator's            *)
(* confirmation makes a row succeeded.                                     *)
LEMMA OnlyEvidenceSucceeds ==
  ASSUME NEW r \in Requests, NEW o \in Rows(Requests), NEW e \in Outcomes \ {"success"}
  PROVE  /\ ReserveRow(o, r).state = "succeeded" => o.state = "succeeded"
         /\ StartRow(o).state = "succeeded" => o.state = "succeeded"
         /\ ResetRow(o).state # "succeeded"
         /\ FailRow(o, e).state = "succeeded" => o.state = "succeeded"
         /\ RetryRow(o).state # "succeeded"
<1> USE DEF Rows, OpStates
<1>1. ReserveRow(o, r).state = "succeeded" => o.state = "succeeded"
  BY DEF ReserveRow
<1>2. StartRow(o).state = "succeeded" => o.state = "succeeded"
  BY DEF StartRow
<1>3. ResetRow(o).state # "succeeded"
  BY DEF ResetRow
<1>4. FailedState(e) # "succeeded"
  BY DEF FailedState
<1>5. FailRow(o, e).state = "succeeded" => o.state = "succeeded"
  BY <1>4 DEF FailRow
<1>6. RetryRow(o).state # "succeeded"
  BY DEF RetryRow
<1> QED BY <1>1, <1>2, <1>3, <1>5, <1>6

(* SuccessIsReal for every number of workers, with leases that run out at  *)
(* any time and calls that land at any time.                               *)
THEOREM SuccessIsRealAlways == Spec => []SuccessIsReal
<1>1. Init => RealInv
  BY DEF Init, RealInv, InTarget, NoRow, OkReply
<1>2. TypeOK /\ RealInv /\ [Next]_vars => RealInv'
  <2> SUFFICES ASSUME TypeOK, RealInv, [Next]_vars PROVE RealInv'
    OBVIOUS
  <2> USE DEF RealInv, TypeOK
  <2>1. ASSUME NEW w \in Workers, Claim(w) PROVE RealInv'
    BY <2>1 DEF Claim, provider, InTarget, OkReply
  <2>2. ASSUME NEW w \in Workers, CompleteJob(w) PROVE RealInv'
    BY <2>2 DEF CompleteJob, provider, InTarget, OkReply
  <2>3. ASSUME NEW w \in Workers, FailJob(w) PROVE RealInv'
    BY <2>3 DEF FailJob, Holds, provider, InTarget, OkReply
  <2>4. ASSUME NEW w \in Workers, Lookup(w) PROVE RealInv'
    BY <2>4 DEF Lookup, provider, InTarget, OkReply
  <2>5. ASSUME NEW w \in Workers, ReadFails(w) \/ Crash(w) PROVE RealInv'
    BY <2>5 DEF ReadFails, Crash, provider, InTarget, OkReply
  <2>6. ASSUME NEW w \in Workers, Adopt(w) PROVE RealInv'
    <3>1. op'.state = "succeeded" => op.state = "succeeded"
      BY <2>6, OnlyEvidenceSucceeds DEF Adopt, Outcomes
    <3> QED BY <2>6, <3>1 DEF Adopt, provider, InTarget, OkReply
  <2>7. ASSUME NEW w \in Workers, Reserve(w) PROVE RealInv'
    <3>1. op'.state = "succeeded" => op.state = "succeeded"
      BY <2>7, OnlyEvidenceSucceeds DEF Reserve, Outcomes
    <3>2. AfterReserve(op'.state) \in {"adopt", "resolve", "done"} => op'.state = "succeeded"
      BY KindsAssumption DEF AfterReserve
    <3>3. AfterReserve(op'.state) # "record"
      BY KindsAssumption DEF AfterReserve
    <3> QED BY <2>7, <3>1, <3>2, <3>3 DEF Reserve, provider, InTarget, OkReply
  <2>8. ASSUME NEW w \in Workers, Observe(w) PROVE RealInv'
    <3>1. AfterObserve(w) \in {"adopt", "resolve", "done", "record"} => InTarget(live)
      BY DEF AfterObserve
    <3>2. AfterObserve(w) # "record"
      BY DEF AfterObserve
    <3> QED BY <2>8, <3>1, <3>2 DEF Observe, provider, InTarget, OkReply
  <2>9. ASSUME NEW w \in Workers, Reset(w) \/ Start(w) PROVE RealInv'
    <3>1. op'.state = "succeeded" => op.state = "succeeded"
      BY <2>9, OnlyEvidenceSucceeds DEF Reset, Start, Outcomes
    <3> QED BY <2>9, <3>1 DEF Reset, Start, provider, InTarget, OkReply
  <2>10. ASSUME NEW w \in Workers, MutateOK(w) PROVE RealInv'
    BY <2>10 DEF MutateOK, OkReply
  <2>11. ASSUME NEW w \in Workers, MutateRefused(w) PROVE RealInv'
    <3>1. PICK r \in DefiniteErrors :
            /\ kind \in {"destroy", "secret"} => r # "not_found"
            /\ reply' = [reply EXCEPT ![w] = r]
      BY <2>11 DEF MutateRefused
    <3> QED BY <2>11, <3>1 DEF MutateRefused, DefiniteErrors, provider, InTarget, OkReply
  <2>12. ASSUME NEW w \in Workers, MutateUncertain(w) PROVE RealInv'
    <3>1. InTarget(live)' => reached'
      BY <2>12 DEF MutateUncertain, InTarget
    <3>2. reached => reached'
      BY <2>12, Zenon DEF MutateUncertain
    <3> QED BY <2>12, <3>1, <3>2 DEF MutateUncertain, OkReply
  <2>13. ASSUME NEW w \in Workers, Record(w) PROVE RealInv'
    <3>1. CASE OkReply(w)
      BY <2>13, <3>1 DEF Record, OkReply, provider, InTarget
    <3>2. CASE ~OkReply(w)
      <4>1. op' = FailRow(op, reply[w]) /\ reply[w] \in Outcomes \ {"success"}
        BY <2>13, <3>2 DEF Record, OkReply
      <4>2. op'.state = "succeeded" => op.state = "succeeded"
        BY <4>1, OnlyEvidenceSucceeds
      <4> QED BY <2>13, <3>2, <4>2 DEF Record, OkReply, provider, InTarget
    <3> QED BY <3>1, <3>2
  <2>14. ASSUME NEW w \in Workers, Resolve(w) PROVE RealInv'
    BY <2>14 DEF Resolve, provider, InTarget, OkReply
  <2>15. CASE ExpireLease
    BY <2>15 DEF ExpireLease, local, provider, InTarget, OkReply
  <2>16. CASE Land
    BY <2>16 DEF Land, local, OkReply
  <2>17. CASE Drift
    BY <2>17 DEF Drift, local, InTarget, OkReply
  <2>18. CASE ChangeRequest
    BY <2>18 DEF ChangeRequest, local, provider, InTarget, OkReply
  <2>19. CASE Recover
    <3>1. op'.state = "succeeded" => reached
      BY <2>19 DEF Recover, RetryRow, Rows
    <3> QED BY <2>19, <3>1 DEF Recover, local, provider, InTarget, OkReply
  <2>20. CASE UNCHANGED vars
    BY <2>20 DEF vars, InTarget, OkReply
  <2> QED
    BY <2>1, <2>2, <2>3, <2>4, <2>5, <2>6, <2>7, <2>8, <2>9, <2>10, <2>11, <2>12,
       <2>13, <2>14, <2>15, <2>16, <2>17, <2>18, <2>19, <2>20 DEF Next, Step, Fault
<1>3. RealInv => SuccessIsReal
  BY DEF RealInv, SuccessIsReal
<1> QED BY <1>1, <1>2, <1>3, TypeCorrect, PTL DEF Spec

-----------------------------------------------------------------------------
(* With leases that outlive their workers, whoever is at work holds the    *)
(* lease ...                                                               *)
LeaseInv ==
  \A w \in Workers : pc[w] # "idle" => job.state = "running" /\ job.lease = w /\ ~job.expired

(* ... so the row follows the one worker, and an unknown outcome keeps the *)
(* row running or uncertain until somebody observes the provider.          *)
BlindInv ==
  /\ unresolved => op.state \in {"running", "uncertain"}
  /\ \A w \in Workers :
       /\ pc[w] \in {"observe", "reset"} => op.state # "absent"
       /\ pc[w] = "start" => op.state = "pending"
       /\ pc[w] \in {"mutate", "record"} => op.state = "running"
       /\ pc[w] \in {"adopt", "resolve", "reset", "mutate"} => ~unresolved
       /\ pc[w] = "reserve" /\ kind = "create" => ~unresolved

(* Only the lease holder is at work when leases outlive their workers.     *)
LEMMA LeaseHolds == ASSUME ~Overlap PROVE Spec => []LeaseInv
<1>1. Init => LeaseInv
  BY DEF Init, LeaseInv
<1>2. TypeOK /\ LeaseInv /\ [Next]_vars => LeaseInv'
  <2> SUFFICES ASSUME TypeOK, LeaseInv, [Next]_vars PROVE LeaseInv'
    OBVIOUS
  <2> USE DEF TypeOK, LeaseInv
  <2>1. ASSUME NEW w \in Workers, Claim(w) PROVE LeaseInv'
    BY <2>1 DEF Claim
  <2>2. ASSUME NEW w \in Workers, CompleteJob(w) \/ FailJob(w) PROVE LeaseInv'
    BY <2>2 DEF CompleteJob, FailJob, Holds
  <2>3. ASSUME NEW w \in Workers, Fault(w) PROVE LeaseInv'
    BY <2>3 DEF Fault, ReadFails, MutateRefused, MutateUncertain, Crash
  <2>4. ASSUME NEW w \in Workers, Lookup(w) \/ Adopt(w) \/ Reserve(w) PROVE LeaseInv'
    BY <2>4 DEF Lookup, Adopt, Reserve
  <2>5. ASSUME NEW w \in Workers, Observe(w) \/ Reset(w) \/ Start(w) PROVE LeaseInv'
    BY <2>5 DEF Observe, Reset, Start
  <2>6. ASSUME NEW w \in Workers, MutateOK(w) \/ Record(w) \/ Resolve(w) PROVE LeaseInv'
    BY <2>6 DEF MutateOK, Record, Resolve
  <2>7. CASE ExpireLease
    BY <2>7 DEF ExpireLease, local
  <2>8. CASE Land \/ Drift \/ ChangeRequest \/ Recover
    BY <2>8 DEF Land, Drift, ChangeRequest, Recover, local
  <2>9. CASE UNCHANGED vars
    BY <2>9 DEF vars
  <2> QED
    BY <2>1, <2>2, <2>3, <2>4, <2>5, <2>6, <2>7, <2>8, <2>9 DEF Next, Step
<1> QED BY <1>1, <1>2, TypeCorrect, PTL DEF Spec

(* The lease keeps two workers from issuing the same mutation, as long as  *)
(* it outlives the worker that took it.                                    *)
THEOREM ExclusiveWithoutOverlap == ASSUME ~Overlap PROVE Spec => []ExclusiveMutation
<1>1. LeaseInv => ExclusiveMutation
  BY DEF LeaseInv, ExclusiveMutation
<1> QED BY <1>1, LeaseHolds, PTL

(* No helper issues its call while an earlier outcome is unknown, through  *)
(* any sequence of crashes, timeouts, refusals, request changes and        *)
(* operator answers, as long as leases outlive their workers.              *)
THEOREM NeverBlindWithoutOverlap == ASSUME ~Overlap PROVE Spec => []NoBlindReissue
<1>1. Init => BlindInv
  BY DEF Init, BlindInv
<1>2. TypeOK /\ LeaseInv /\ BlindInv /\ [Next]_vars => BlindInv'
  <2> SUFFICES ASSUME TypeOK, LeaseInv, BlindInv, [Next]_vars PROVE BlindInv'
    OBVIOUS
  <2>0. ASSUME NEW w \in Workers, NEW v \in Workers, pc[w] # "idle", pc[v] # "idle" PROVE v = w
    BY <2>0 DEF LeaseInv
  <2> USE DEF TypeOK, BlindInv, provider, local
  <2>1. ASSUME NEW w \in Workers, Claim(w) PROVE BlindInv'
    <3>1. \A v \in Workers : pc[v] = "idle"
      BY <2>1 DEF Claim, LeaseInv
    <3>2. kind = "create" => pc'[w] = "lookup"
      BY <2>1 DEF Claim
    <3> QED BY <2>1, <3>1, <3>2 DEF Claim
  <2>2. ASSUME NEW w \in Workers, CompleteJob(w) \/ FailJob(w) PROVE BlindInv'
    BY <2>2 DEF CompleteJob, FailJob
  <2>3. ASSUME NEW w \in Workers, Lookup(w) PROVE BlindInv'
    BY <2>0, <2>3 DEF Lookup
  <2>4. ASSUME NEW w \in Workers, ReadFails(w) \/ Crash(w) PROVE BlindInv'
    BY <2>4 DEF ReadFails, Crash
  <2>5. ASSUME NEW w \in Workers, Adopt(w) PROVE BlindInv'
    BY <2>0, <2>5 DEF Adopt, ReserveRow
  <2>6. ASSUME NEW w \in Workers, Reserve(w) PROVE BlindInv'
    <3>1. op'.state # "absent" /\ (op.state # "absent" => op' = op)
      BY <2>6 DEF Reserve, ReserveRow
    <3>2. pc'[w] \in {"fail", AfterReserve(op'.state)}
      BY <2>6 DEF Reserve
    <3>3. op'.state \in OpStates /\ kind \in {"create", "machine", "destroy", "secret"}
      BY <2>6, KindsAssumption, RowTyping DEF Reserve, ReserveRow, Rows, OpStates
    <3>4. /\ AfterReserve(op'.state) \in {"start", "fail", "reset", "observe", "done"}
          /\ AfterReserve(op'.state) = "start" => op'.state = "pending"
          /\ AfterReserve(op'.state) = "reset" => kind = "create"
      BY <3>3 DEF AfterReserve
    <3>5. \A v \in Workers \ {w} : pc'[v] = "idle"
      BY <2>0, <2>6 DEF Reserve
    <3>6. unresolved' = unresolved /\ kind' = kind
      BY <2>6 DEF Reserve
    <3>7. unresolved => op' = op
      BY <3>1
    <3>8. unresolved' => op'.state \in {"running", "uncertain"}
      BY <3>6, <3>7
    <3>9. /\ pc'[w] \in {"start", "fail", "reset", "observe", "done"}
          /\ pc'[w] = "start" => op'.state = "pending"
          /\ pc'[w] = "reset" => ~unresolved
      BY <2>6, <3>2, <3>4 DEF Reserve
    <3> QED BY <3>1, <3>5, <3>6, <3>8, <3>9
  <2>7. ASSUME NEW w \in Workers, Observe(w) PROVE BlindInv'
    <3>1. AfterObserve(w) \in {"resolve", "fail", "reset"}
      BY DEF AfterObserve
    <3> QED BY <2>0, <2>7, <3>1 DEF Observe
  <2>8. ASSUME NEW w \in Workers, Reset(w) PROVE BlindInv'
    <3>1. op'.state = "pending"
      BY <2>8 DEF Reset, ResetRow, Rows, OpStates
    <3> QED BY <2>0, <2>8, <3>1 DEF Reset
  <2>9. ASSUME NEW w \in Workers, Start(w) PROVE BlindInv'
    <3>1. op'.state = "running"
      BY <2>9 DEF Start, StartRow, Rows
    <3> QED BY <2>0, <2>9, <3>1 DEF Start
  <2>10. ASSUME NEW w \in Workers, MutateOK(w) \/ MutateRefused(w) \/ MutateUncertain(w) PROVE BlindInv'
    <3>1. op' = op /\ pc' = [pc EXCEPT ![w] = "record"] /\ pc[w] = "mutate" /\ kind' = kind
      BY <2>10 DEF MutateOK, MutateRefused, MutateUncertain
    <3> QED BY <2>0, <2>10, <3>1
  <2>11. ASSUME NEW w \in Workers, Record(w) PROVE BlindInv'
    <3>1. reply[w] = "uncertain" => op'.state = "uncertain"
      BY <2>11 DEF Record, FailRow, FailedState, Rows
    <3> QED BY <2>0, <2>11, <3>1 DEF Record
  <2>12. ASSUME NEW w \in Workers, Resolve(w) PROVE BlindInv'
    BY <2>0, <2>12 DEF Resolve
  <2>13. CASE ExpireLease \/ Land \/ Drift \/ ChangeRequest
    BY <2>13 DEF ExpireLease, Land, Drift, ChangeRequest
  <2>14. CASE Recover
    <3>1. op.state = "uncertain" /\ op'.state # "absent" /\ ~unresolved'
      BY <2>14 DEF Recover, Recoverable, ConfirmDeletedRow, RetryRow, Rows
    <3> QED BY <2>14, <3>1 DEF Recover
  <2>15. CASE UNCHANGED vars
    BY <2>15 DEF vars
  <2> QED
    BY <2>1, <2>2, <2>3, <2>4, <2>5, <2>6, <2>7, <2>8, <2>9, <2>10, <2>11, <2>12,
       <2>13, <2>14, <2>15 DEF Next, Step, Fault
<1>3. BlindInv => NoBlindReissue
  BY DEF BlindInv, NoBlindReissue
<1> QED BY <1>1, <1>2, <1>3, TypeCorrect, LeaseHolds, PTL DEF Spec

-----------------------------------------------------------------------------
(* Between the lookup that found nothing and the create call, nothing      *)
(* appears: nobody else works on the step and no abandoned call is left.   *)
CopyInv ==
  kind = "create" =>
       /\ late = 0
       /\ live <= 1
       /\ \A w \in Workers : pc[w] \in {"reserve", "reset", "start", "mutate"} => live = 0

(* One create step makes at most one resource when leases outlive their    *)
(* workers and no abandoned create lands late.                             *)
THEOREM OneCopyWithoutLateCalls ==
  ASSUME ~Overlap, "create" \notin LateKinds PROVE Spec => []OneCopy
<1>1. Init => CopyInv
  BY DEF Init, CopyInv
<1>2. TypeOK /\ LeaseInv /\ CopyInv /\ [Next]_vars => CopyInv'
  <2> SUFFICES ASSUME TypeOK, LeaseInv, CopyInv, [Next]_vars PROVE CopyInv'
    OBVIOUS
  <2>0. ASSUME NEW w \in Workers, NEW v \in Workers, pc[w] # "idle", pc[v] # "idle" PROVE v = w
    BY <2>0 DEF LeaseInv
  <2> USE DEF TypeOK, CopyInv, provider, local
  <2>1. ASSUME NEW w \in Workers, Claim(w) PROVE CopyInv'
    <3>1. \A v \in Workers : pc[v] = "idle"
      BY <2>1 DEF Claim, LeaseInv
    <3>2. kind = "create" => pc'[w] = "lookup"
      BY <2>1 DEF Claim
    <3> QED BY <2>1, <3>1, <3>2 DEF Claim
  <2>2. ASSUME NEW w \in Workers, CompleteJob(w) \/ FailJob(w) PROVE CopyInv'
    BY <2>2 DEF CompleteJob, FailJob
  <2>3. ASSUME NEW w \in Workers, Lookup(w) PROVE CopyInv'
    BY <2>0, <2>3 DEF Lookup, InTarget
  <2>4. ASSUME NEW w \in Workers, ReadFails(w) \/ Crash(w) PROVE CopyInv'
    BY <2>4 DEF ReadFails, Crash
  <2>5. ASSUME NEW w \in Workers, Adopt(w) PROVE CopyInv'
    BY <2>5 DEF Adopt
  <2>6. ASSUME NEW w \in Workers, Reserve(w) PROVE CopyInv'
    BY <2>0, <2>6 DEF Reserve
  <2>7. ASSUME NEW w \in Workers, Observe(w) PROVE CopyInv'
    <3>1. kind = "create" => (InTarget(live) <=> live # 0)
      BY DEF InTarget
    <3>2. AfterObserve(w) \in {"reset", "start", "mutate", "reserve"} => ~InTarget(live)
      BY DEF AfterObserve
    <3> QED BY <2>0, <2>7, <3>1, <3>2 DEF Observe
  <2>8. ASSUME NEW w \in Workers, Reset(w) \/ Start(w) PROVE CopyInv'
    BY <2>0, <2>8 DEF Reset, Start
  <2>9. ASSUME NEW w \in Workers, MutateOK(w) \/ MutateRefused(w) \/ MutateUncertain(w) PROVE CopyInv'
    <3>1. /\ pc' = [pc EXCEPT ![w] = "record"] /\ pc[w] = "mutate" /\ kind' = kind
          /\ live' \in {live, Applied(live)} /\ (kind = "create" => late' = late)
      BY <2>9 DEF MutateOK, MutateRefused, MutateUncertain
    <3>2. kind = "create" => live' <= 1
      BY <3>1 DEF Applied
    <3>3. \A v \in Workers : pc'[v] \notin {"reserve", "reset", "start", "mutate"}
      BY <2>0, <3>1
    <3> QED BY <3>1, <3>2, <3>3
  <2>10. ASSUME NEW w \in Workers, Record(w) \/ Resolve(w) PROVE CopyInv'
    BY <2>10 DEF Record, Resolve
  <2>11. CASE ExpireLease \/ Land \/ Drift \/ ChangeRequest \/ Recover
    BY <2>11 DEF ExpireLease, Land, Drift, ChangeRequest, Recover
  <2>12. CASE UNCHANGED vars
    BY <2>12 DEF vars
  <2> QED
    BY <2>1, <2>2, <2>3, <2>4, <2>5, <2>6, <2>7, <2>8, <2>9, <2>10, <2>11, <2>12
       DEF Next, Step, Fault
<1>3. CopyInv => OneCopy
  BY DEF CopyInv, OneCopy
<1> QED BY <1>1, <1>2, <1>3, TypeCorrect, LeaseHolds, PTL DEF Spec

-----------------------------------------------------------------------------
(* A secret deletion is never observed and so its row is never reset.      *)
SecretInv == kind = "secret" => \A w \in Workers : pc[w] \notin {"lookup", "observe", "reset"}

(* The invariant behind SettledSecretStays holds in every reachable state. *)
LEMMA SecretHolds == Spec => []SecretInv
<1>1. Init => SecretInv
  BY DEF Init, SecretInv
<1>2. TypeOK /\ SecretInv /\ [Next]_vars => SecretInv'
  <2> SUFFICES ASSUME TypeOK, SecretInv, [Next]_vars, kind = "secret" PROVE SecretInv'
    BY DEF SecretInv, Next, Step, Fault, Claim, CompleteJob, FailJob, Lookup, ReadFails, Adopt, Reserve, Observe, Reset, Start,
           MutateOK, MutateRefused, MutateUncertain, Record, Resolve, Crash, ExpireLease, Land, Drift, ChangeRequest, Recover, vars
  <2>1. pc \in [Workers -> PCs] /\ \A w \in Workers : pc[w] \notin {"lookup", "observe", "reset"}
    BY DEF TypeOK, SecretInv
  <2>2. ASSUME NEW w \in Workers, NEW p, pc' = [pc EXCEPT ![w] = p], p \notin {"lookup", "observe", "reset"} PROVE SecretInv'
    BY <2>1, <2>2 DEF SecretInv
  <2>3. ASSUME pc' = pc PROVE SecretInv'
    BY <2>1, <2>3 DEF SecretInv
  <2>4. ASSUME NEW w \in Workers, Claim(w) PROVE SecretInv'
    BY <2>2, <2>4 DEF Claim
  <2>5. ASSUME NEW w \in Workers, Reserve(w) PROVE SecretInv'
    <3>1. AfterReserve(op'.state) \in {"start", "done", "fail"}
      BY DEF AfterReserve
    <3> QED BY <2>2, <2>5, <3>1 DEF Reserve
  <2>6. ASSUME NEW w \in Workers, CompleteJob(w) \/ FailJob(w) \/ ReadFails(w) \/ Adopt(w) \/ Start(w) \/ MutateOK(w)
                \/ MutateRefused(w) \/ MutateUncertain(w) \/ Record(w) \/ Resolve(w) \/ Crash(w)
        PROVE SecretInv'
    BY <2>2, <2>6 DEF CompleteJob, FailJob, ReadFails, Adopt, Start, MutateOK, MutateRefused, MutateUncertain, Record, Resolve, Crash
  <2>7. ASSUME NEW w \in Workers, Lookup(w) \/ Observe(w) \/ Reset(w) PROVE SecretInv'
    BY <2>1, <2>7 DEF Lookup, Observe, Reset
  <2>8. CASE ExpireLease \/ Land \/ Drift \/ ChangeRequest \/ Recover \/ UNCHANGED vars
    BY <2>3, <2>8 DEF ExpireLease, Land, Drift, ChangeRequest, Recover, vars, local
  <2> QED BY <2>4, <2>5, <2>6, <2>7, <2>8 DEF Next, Step, Fault
<1> QED BY <1>1, <1>2, TypeCorrect, PTL DEF Spec

(* A secret deletion recorded as done is never taken back, by a worker     *)
(* that lost its lease, a late answer or the operator, with overlapping    *)
(* workers and late calls too (FailProviderOperation only matches a        *)
(* running row, Recover only an uncertain one).                            *)
THEOREM SettledSecretStaysAlways == Spec => SettledSecretStays
<1>1. TypeOK /\ SecretInv /\ [Next]_vars => [KeepsSettledSecret]_vars
  <2> SUFFICES ASSUME TypeOK, SecretInv, [Next]_vars, kind = "secret", op.state = "succeeded" PROVE op'.state = "succeeded"
    BY DEF KeepsSettledSecret
  <2>1. /\ \A r : ReserveRow(op, r) = op
        /\ StartRow(op) = op /\ CompleteRow(op) = op /\ ResolveRow(op).state = "succeeded"
        /\ \A e : FailRow(op, e) = op
        /\ ~Recoverable(op)
    BY DEF ReserveRow, StartRow, CompleteRow, ResolveRow, FailRow, Recoverable, TypeOK, Rows
  <2>2. ASSUME NEW w \in Workers, Adopt(w) \/ Reserve(w) \/ Start(w) \/ Record(w) \/ Resolve(w) PROVE op'.state = "succeeded"
    BY <2>1, <2>2 DEF Adopt, Reserve, Start, Record, Resolve
  <2>3. ASSUME NEW w \in Workers, Reset(w) PROVE op'.state = "succeeded"
    BY <2>3 DEF Reset, SecretInv
  <2>4. ASSUME NEW w \in Workers, Claim(w) \/ CompleteJob(w) \/ FailJob(w) \/ Lookup(w) \/ Observe(w) \/ MutateOK(w)
                \/ ReadFails(w) \/ MutateRefused(w) \/ MutateUncertain(w) \/ Crash(w)
        PROVE op'.state = "succeeded"
    BY <2>4 DEF Claim, CompleteJob, FailJob, Lookup, Observe, MutateOK, ReadFails, MutateRefused, MutateUncertain, Crash
  <2>5. CASE ExpireLease \/ Land \/ Drift \/ ChangeRequest \/ Recover \/ UNCHANGED vars
    BY <2>1, <2>5 DEF ExpireLease, Land, Drift, ChangeRequest, Recover, vars
  <2> QED BY <2>2, <2>3, <2>4, <2>5 DEF Next, Step, Fault
<1> QED BY <1>1, SecretHolds, TypeCorrect, PTL DEF Spec, SettledSecretStays

=============================================================================
