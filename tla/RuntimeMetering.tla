--------------------------- MODULE RuntimeMetering ---------------------------
(***************************************************************************)
(* Metering of one hosted machine (internal/metering/runtime.go): passes   *)
(* that poll the provider, keep runtime intervals, cut them into           *)
(* checkpoints and debit the owner's credits for each checkpoint.          *)
(*                                                                         *)
(* Every server process runs the worker, so passes may overlap.  A pass is *)
(* a sequence of transactions and provider reads; each is a step here, and *)
(* a pass may end between any two of them.  One unit of time costs one     *)
(* credit; the fractions of CalculateRuntimeCredits are left out.          *)
(***************************************************************************)
EXTENDS Integers, Sequences, FiniteSets

CONSTANTS
  Workers,       \* metering workers, one per server process
  MaxTime,       \* bound on the clock
  MaxRequests,   \* bound on the owner's start and stop requests
  MaxFaults,     \* bound on aborted passes, failed debits and lost machines
  Credits,       \* credits granted at the start
  MaxGrants,     \* bound on later grants
  GrantSize      \* credits of a later grant

ASSUME BoundAssumption ==
  MaxTime \in Nat \ {0} /\ MaxRequests \in Nat /\ MaxFaults \in Nat /\ Credits \in Nat /\ MaxGrants \in Nat /\ GrantSize \in Nat

VARIABLES
  clock,      \* time.Now()
  pstate,     \* projects.state: starting, running, stopping or stopped
  up,         \* the provider reports the machine as running
  jobs,       \* lifecycle jobs: waiting ("start", "stop"), acted ("started", "stopped")
  requests,   \* requests so far
  entitled,   \* the owner has an active subscription
  intervals,  \* machine_runtime_intervals: start, last metered, stopped (0 while open)
  cps,        \* metering_checkpoints, in order of created_at
  ledger,     \* idempotency keys of the debits in the credit ledger
  balance,    \* credit_accounts.balance
  grants,     \* later grants so far
  wk,         \* what each pass holds
  faults      \* faults so far

machine == <<pstate, up, jobs, requests, entitled>>
tables == <<intervals, cps>>
account == <<ledger, balance, grants>>
vars == <<clock, machine, tables, account, wk, faults>>

Times == 0 .. MaxTime
NoCheckpoint == [id |-> 0, int |-> 0, from |-> 0, to |-> 0]
Idle == [pc |-> "idle", now |-> 0, list |-> {}, int |-> 0, last |-> 0, cp |-> NoCheckpoint, ret |-> "idle"]

Init ==
  /\ clock = 1
  /\ pstate = "starting" /\ up = FALSE /\ jobs = {"start"} /\ requests = 0 /\ entitled = TRUE
  /\ intervals = <<>> /\ cps = <<>>
  /\ ledger = {} /\ balance = Credits /\ grants = 0
  /\ wk = [w \in Workers |-> Idle] /\ faults = 0

At(w, pc) == wk[w].pc = pc
Goto(w, pc) == wk' = [wk EXCEPT ![w].pc = pc]
Fault == faults < MaxFaults /\ faults' = faults + 1

-----------------------------------------------------------------------------
(* The tables                                                              *)

Open == {i \in DOMAIN intervals : intervals[i].stopped = 0}
Row(t, c) == [id |-> c, int |-> t[c].int, from |-> t[c].from, to |-> t[c].to]

(* ListPendingMeteringCheckpoints and GetPendingCheckpointForUpdate: the    *)
(* rows not yet processed, oldest period end first.                        *)
Unpaid(t) == {c \in DOMAIN t : t[c].state \in {"created", "failed"}}
UnpaidOf(t, i) == {c \in Unpaid(t) : t[c].int = i}
IsFirst(t, c, ids) ==
  c \in ids /\ \A d \in ids : t[c].to < t[d].to \/ (t[c].to = t[d].to /\ c <= d)

(* InsertMeteringCheckpoint: the idempotency key is interval, start, end;  *)
(* nothing is inserted when it is taken.                                   *)
Taken(i, from, to) == \E c \in DOMAIN cps : cps[c].int = i /\ cps[c].from = from /\ cps[c].to = to
Insert(i, from, to) ==
  IF Taken(i, from, to) THEN cps
  ELSE Append(cps, [int |-> i, from |-> from, to |-> to, state |-> "created"])

(* A wrong variant: the tail starts at last_metered_at, pending or not.    *)
TailFromMetered(i, from) == from = intervals[i].last

(* The tail starts at GetLatestCheckpointEnd, or at last_metered_at if that *)
(* is later.                                                               *)
TailFrom(i, from) ==
  LET ends == {intervals[i].last} \cup {cps[c].to : c \in {d \in DOMAIN cps : cps[d].int = i}}
  IN  from \in ends /\ \A t \in ends : t <= from

-----------------------------------------------------------------------------
(* One metering pass: RunOnce                                              *)

Begin(w) ==
  /\ At(w, "idle") /\ (clock > wk[w].now \/ clock = MaxTime)
  /\ wk' = [wk EXCEPT ![w] = [Idle EXCEPT !.pc = "pending", !.now = clock, !.list = Unpaid(cps)]]
  /\ UNCHANGED <<clock, machine, tables, account, faults>>

(* processPendingCheckpoints takes the next row it listed; then the machine *)
(* is observed if its project is in a state ListMeterableMachines lists.   *)
NextPending(w) ==
  /\ At(w, "pending")
  /\ \/ \E c \in wk[w].list :
        /\ IsFirst(cps, c, wk[w].list)
        /\ wk' = [wk EXCEPT ![w].pc = "debit", ![w].ret = "pending",
                            ![w].cp = Row(cps, c), ![w].list = @ \ {c}]
     \/ wk[w].list = {} /\ Goto(w, IF pstate = "stopped" THEN "enforce" ELSE "observe")
  /\ UNCHANGED <<clock, machine, tables, account, faults>>

(* observeMachine: GetMachine says running, or stopped or not found.       *)
Observe(w) ==
  /\ At(w, "observe")
  /\ Goto(w, IF up THEN "running" ELSE "stopped")
  /\ UNCHANGED <<clock, machine, tables, account, faults>>

EnsureOpenInterval(w) ==
  /\ At(w, "running")
  /\ \/ /\ Open = {}
        /\ intervals' = Append(intervals, [start |-> wk[w].now, last |-> wk[w].now, stopped |-> 0])
        /\ Goto(w, "enforce")
     \/ \E i \in Open :
        /\ wk' = [wk EXCEPT ![w].int = i, ![w].last = intervals[i].last, ![w].pc = "checkpoint"]
        /\ UNCHANGED intervals
  /\ UNCHANGED <<clock, machine, cps, account, faults>>

(* CreateCheckpoint: an unprocessed checkpoint of the interval goes first; *)
(* otherwise the time since last_metered_at becomes a checkpoint.          *)
CreateCheckpoint(w) ==
  LET i == wk[w].int
      now == wk[w].now
      last == intervals[i].last
      older == UnpaidOf(cps, i)
      asked == now > wk[w].last /\ i \in Open
  IN
  /\ At(w, "checkpoint")
  /\ \/ /\ ~asked \/ (older = {} /\ now <= last)
        /\ Goto(w, "enforce")
        /\ UNCHANGED cps
     \/ \E c \in older :
        /\ asked /\ IsFirst(cps, c, older)
        /\ wk' = [wk EXCEPT ![w].pc = "debit", ![w].ret = "enforce", ![w].cp = Row(cps, c)]
        /\ UNCHANGED cps
     \/ /\ asked /\ older = {} /\ now > last
        /\ cps' = Insert(i, last, now)
        /\ wk' = [wk EXCEPT ![w].pc = "debit", ![w].ret = "enforce",
                            ![w].cp = [id |-> IF Taken(i, last, now) THEN 0 ELSE Len(cps) + 1,
                                       int |-> i, from |-> last, to |-> now]]
  /\ UNCHANGED <<clock, machine, intervals, account, faults>>

(* observeStopped: OpenInterval                                            *)
OpenInterval(w) ==
  /\ At(w, "stopped")
  /\ \/ Open = {} /\ Goto(w, "close")
     \/ \E i \in Open : wk' = [wk EXCEPT ![w].int = i, ![w].pc = "final"]
  /\ UNCHANGED <<clock, machine, tables, account, faults>>

(* A wrong variant: no tail while an older checkpoint is unprocessed.      *)
EnsureFinalReuses(w) ==
  LET older == UnpaidOf(cps, wk[w].int) IN
  /\ At(w, "final")
  /\ \/ older = {} /\ Goto(w, "close")
     \/ \E c \in older :
        /\ IsFirst(cps, c, older)
        /\ wk' = [wk EXCEPT ![w].pc = "debit", ![w].ret = "close", ![w].cp = Row(cps, c)]
  /\ UNCHANGED <<clock, machine, tables, account, faults>>

(* EnsureFinalCheckpoint: the tail of the interval becomes a checkpoint,   *)
(* whether or not the interval is still open; then the oldest unprocessed  *)
(* checkpoint of the interval, if any, is processed.                       *)
EnsureFinalCheckpoint(w) ==
  LET i == wk[w].int
      now == wk[w].now
  IN
  /\ At(w, "final")
  /\ \E from \in Times :
     LET rows == IF now > from THEN Insert(i, from, now) ELSE cps
         older == UnpaidOf(rows, i)
     IN
     /\ TailFrom(i, from)
     /\ cps' = rows
     /\ \/ older = {} /\ Goto(w, "close")
        \/ \E c \in older :
           /\ IsFirst(rows, c, older)
           /\ wk' = [wk EXCEPT ![w].pc = "debit", ![w].ret = "close", ![w].cp = Row(rows, c)]
  /\ UNCHANGED <<clock, machine, intervals, account, faults>>

CloseOpenInterval(w) ==
  /\ At(w, "close")
  /\ intervals' = [i \in DOMAIN intervals |->
                     IF i \in Open THEN [intervals[i] EXCEPT !.stopped = wk[w].now] ELSE intervals[i]]
  /\ Goto(w, "enforce")
  /\ UNCHANGED <<clock, machine, cps, account, faults>>

-----------------------------------------------------------------------------
(* processCheckpoint                                                       *)

Key(cp) == <<cp.int, cp.from, cp.to>>
Cost(cp) == cp.to - cp.from

DebitSwallowed(w) ==
  LET cp == wk[w].cp IN
  /\ At(w, "debit")
  /\ IF Key(cp) \notin ledger /\ balance >= Cost(cp)
     THEN ledger' = ledger \cup {Key(cp)} /\ balance' = balance - Cost(cp)
     ELSE UNCHANGED <<ledger, balance>>
  /\ Goto(w, "paid")
  /\ UNCHANGED <<clock, machine, tables, grants, faults>>

(* DebitCredits: a key already in the ledger is a success and costs nothing. *)
DebitCredits(w) ==
  LET cp == wk[w].cp IN
  /\ At(w, "debit")
  /\ \/ /\ Key(cp) \in ledger
        /\ Goto(w, "paid")
        /\ UNCHANGED <<ledger, balance, faults>>
     \/ /\ Key(cp) \notin ledger /\ balance >= Cost(cp)
        /\ ledger' = ledger \cup {Key(cp)} /\ balance' = balance - Cost(cp)
        /\ Goto(w, "paid")
        /\ UNCHANGED faults
     \/ /\ Key(cp) \notin ledger /\ balance < Cost(cp)
        /\ Goto(w, "broke")
        /\ UNCHANGED <<ledger, balance, faults>>
     \/ /\ Fault
        /\ Goto(w, "failed")
        /\ UNCHANGED <<ledger, balance>>
  /\ UNCHANGED <<clock, machine, tables, grants>>

SetState(id, state) == IF id = 0 THEN cps ELSE [cps EXCEPT ![id].state = state]

(* A wrong variant: last_metered_at is set whatever it was.                *)
AdvanceAlways(w) ==
  LET cp == wk[w].cp IN
  /\ At(w, "paid")
  /\ cps' = SetState(cp.id, "processed")
  /\ intervals' = [intervals EXCEPT ![cp.int].last = cp.to]
  /\ Goto(w, wk[w].ret)
  /\ UNCHANGED <<clock, machine, account, faults>>

(* MarkCheckpointProcessed: last_metered_at moves only from this start.    *)
MarkCheckpointProcessed(w) ==
  LET cp == wk[w].cp IN
  /\ At(w, "paid")
  /\ cps' = SetState(cp.id, "processed")
  /\ intervals' = IF intervals[cp.int].last = cp.from
                  THEN [intervals EXCEPT ![cp.int].last = cp.to] ELSE intervals
  /\ Goto(w, wk[w].ret)
  /\ UNCHANGED <<clock, machine, account, faults>>

MarkCheckpointFailed(w) ==
  /\ At(w, "failed")
  /\ cps' = SetState(wk[w].cp.id, "failed")
  /\ Goto(w, wk[w].ret)
  /\ UNCHANGED <<clock, machine, intervals, account, faults>>

(* A wrong variant: the job is queued, the project's state left alone.     *)
QueueStopOnly ==
  /\ jobs' = jobs \cup {"stop"}
  /\ UNCHANGED <<pstate, up, requests, entitled>>

(* queueSystemStopTx: the stop job is queued or queued again.              *)
QueueSystemStop ==
  /\ pstate' = IF pstate \in {"stopping", "stopped"} THEN pstate ELSE "stopping"
  /\ jobs' = jobs \cup {"stop"}
  /\ UNCHANGED <<up, requests, entitled>>

MarkCheckpointFailedAndQueueCreditStop(w) ==
  /\ At(w, "broke")
  /\ cps' = SetState(wk[w].cp.id, "failed")
  /\ QueueSystemStop
  /\ Goto(w, wk[w].ret)
  /\ UNCHANGED <<clock, intervals, account, faults>>

EnforceEntitlementState(w) ==
  /\ At(w, "enforce")
  /\ IF pstate = "running" /\ Open # {} /\ ~entitled THEN QueueSystemStop ELSE UNCHANGED machine
  /\ wk' = [wk EXCEPT ![w] = [Idle EXCEPT !.now = wk[w].now]]
  /\ UNCHANGED <<clock, tables, account, faults>>

(* The process stops, or a read or write fails and the pass is given up.   *)
Abort(w) ==
  /\ ~At(w, "idle") /\ Fault
  /\ wk' = [wk EXCEPT ![w] = [Idle EXCEPT !.now = wk[w].now]]
  /\ UNCHANGED <<clock, machine, tables, account>>

-----------------------------------------------------------------------------
(* The rest of the system                                                  *)

Tick ==
  /\ clock < MaxTime
  /\ clock' = clock + 1
  /\ UNCHANGED <<machine, tables, account, wk, faults>>

(* The owner asks for a start or a stop: QueueLifecycleJob                 *)
Request ==
  /\ requests < MaxRequests /\ requests' = requests + 1
  /\ \/ pstate = "stopped" /\ entitled /\ balance > 0 /\ pstate' = "starting" /\ jobs' = jobs \cup {"start"}
     \/ pstate \in {"starting", "running"} /\ pstate' = "stopping" /\ jobs' = jobs \cup {"stop"}
  /\ UNCHANGED <<clock, up, entitled, tables, account, wk, faults>>

(* A lifecycle job acts at the provider, then records the project's state. *)
RunJob ==
  /\ \/ "start" \in jobs /\ up' = TRUE /\ jobs' = (jobs \ {"start"}) \cup {"started"}
     \/ "stop" \in jobs /\ up' = FALSE /\ jobs' = (jobs \ {"stop"}) \cup {"stopped"}
  /\ UNCHANGED <<clock, pstate, requests, entitled, tables, account, wk, faults>>

FinishJob ==
  /\ \/ "started" \in jobs /\ pstate' = "running" /\ jobs' = jobs \ {"started"}
     \/ "stopped" \in jobs /\ pstate' = "stopped" /\ jobs' = jobs \ {"stopped"}
  /\ UNCHANGED <<clock, up, requests, entitled, tables, account, wk, faults>>

(* The machine stops by itself.                                            *)
Exit ==
  /\ up /\ Fault
  /\ up' = FALSE
  /\ UNCHANGED <<clock, pstate, jobs, requests, entitled, tables, account, wk>>

LoseEntitlement ==
  /\ entitled /\ entitled' = FALSE
  /\ UNCHANGED <<clock, pstate, up, jobs, requests, tables, account, wk, faults>>

Grant ==
  /\ grants < MaxGrants
  /\ grants' = grants + 1 /\ balance' = balance + GrantSize
  /\ UNCHANGED <<clock, machine, tables, ledger, wk, faults>>

Pass(w) ==
  \/ Begin(w) \/ NextPending(w) \/ Observe(w) \/ EnsureOpenInterval(w) \/ CreateCheckpoint(w)
  \/ OpenInterval(w) \/ EnsureFinalCheckpoint(w) \/ CloseOpenInterval(w) \/ DebitCredits(w)
  \/ MarkCheckpointProcessed(w) \/ MarkCheckpointFailed(w) \/ MarkCheckpointFailedAndQueueCreditStop(w)
  \/ EnforceEntitlementState(w)

Next ==
  \/ \E w \in Workers : Pass(w) \/ Abort(w)
  \/ Tick \/ Request \/ RunJob \/ FinishJob \/ Exit \/ LoseEntitlement \/ Grant

Spec == Init /\ [][Next]_vars

(* Time passes, the ticker starts pass after pass, and each pass runs on.  *)
FairSpec == Spec /\ WF_vars(Tick) /\ \A w \in Workers : WF_vars(Pass(w))

-----------------------------------------------------------------------------
Intervals == [start : Times, last : Times, stopped : Times]
Checkpoints == [int : Nat \ {0}, from : Times, to : Times, state : {"created", "failed", "processed"}]
Steps == {"idle", "pending", "observe", "running", "checkpoint", "stopped", "final", "close",
          "debit", "paid", "failed", "broke", "enforce"}
Passes == [pc : Steps, now : Times, list : SUBSET Nat, int : Nat, last : Times,
           cp : [id : Nat, int : Nat, from : Times, to : Times], ret : {"idle", "pending", "enforce", "close"}]

(* Intervals, checkpoints and passes hold values the code writes, and the   *)
(* credit balance that debitCreditsTx guards is never negative.             *)
TypeOK ==
  /\ clock \in Times /\ balance \in Nat /\ grants \in 0 .. MaxGrants /\ faults \in 0 .. MaxFaults
  /\ pstate \in {"starting", "running", "stopping", "stopped"}
  /\ up \in BOOLEAN /\ entitled \in BOOLEAN /\ jobs \subseteq {"start", "started", "stop", "stopped"}
  /\ intervals \in Seq(Intervals) /\ cps \in Seq(Checkpoints)
  /\ ledger \subseteq (Nat \X Times \X Times)
  /\ wk \in [Workers -> Passes]

(* No unit of the machine's time is debited twice: the periods of the      *)
(* metering debits in the credit ledger do not overlap.                    *)
NoOverlap ==
  \A k, l \in ledger : k # l => k[3] <= l[2] \/ l[3] <= k[2]

(* As long as no pass was cut short, no call failed and no machine was      *)
(* lost, no time is debited twice, across starts, stops, an exhausted       *)
(* account and its top-up (CreateCheckpoint, EnsureFinalCheckpoint).        *)
NoDoubleBilling == faults = 0 => NoOverlap

(* A checkpoint that MarkCheckpointProcessed has taken off the pending list *)
(* has its debit in the ledger, whatever other passes did to the same row  *)
(* between the debit and the mark.                                         *)
ProcessedIsPaid ==
  \A c \in DOMAIN cps : cps[c].state = "processed" => Key(cps[c]) \in ledger

Billed(i, from, to) == \A t \in from .. to - 1 : \E k \in ledger : k[1] = i /\ k[2] <= t /\ t < k[3]

(* last_metered_at never moves past time that was not debited.             *)
MeteredIsBilled ==
  \A i \in DOMAIN intervals : Billed(i, intervals[i].start, intervals[i].last)

(* Once an interval is closed and none of its checkpoints is waiting, all  *)
(* of its time was debited, aborted passes notwithstanding.                *)
ClosedIsBilled ==
  \A i \in DOMAIN intervals :
    intervals[i].stopped # 0 /\ UnpaidOf(cps, i) = {} => Billed(i, intervals[i].start, intervals[i].stopped)

RidesFree == pstate = "running" /\ Unpaid(cps) # {}
(* A machine whose metering could not be paid for does not keep running:   *)
(* its checkpoint is paid or its project leaves the state running, however *)
(* often the owner starts it again.                                        *)
NoFreeRide == RidesFree ~> ~RidesFree

=============================================================================
