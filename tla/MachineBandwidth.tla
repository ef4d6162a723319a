------------------------- MODULE MachineBandwidth -------------------------
(* The bandwidth account of a user's machine: the subscription's included   *)
(* allowance per billing period, the top-ups bought beside it, and the two  *)
(* callers that spend them, a file transfer that reserves bytes before it   *)
(* starts and an edge node that reports, after the fact, the value of an    *)
(* absolute byte counter.                                                   *)
(*                                                                          *)
(* Every action is one SERIALIZABLE transaction.  Reports may be delivered  *)
(* twice, late and out of order: a report is any value up to MbMaxBytes     *)
(* under any operation id, for any epoch of the edge's counter.             *)
EXTENDS Naturals, Sequences, FiniteSets, FiniteSetsExt

CONSTANTS
    MbOrders,       \* provider orders for a top-up
    MbReports,      \* operation ids of usage reports
    MbEpochs,       \* counter epochs (an edge process starts one)
    MbMaxBytes,     \* bound on a counter and on one reservation
    MbMaxPeriod,    \* billing periods 1 .. MbMaxPeriod
    MbAllowance,    \* allowance_bytes of the subscription's product
    MbPackage,      \* bytes of one top-up
    MbNone

MbAssumption ==
    /\ MbMaxBytes \in Nat /\ MbMaxPeriod \in Nat \ {0}
    /\ MbAllowance \in Nat /\ MbPackage \in Nat \ {0}

VARIABLES
    mbMachine,      \* user_machines: its state and the environment it runs
    mbEntitlement,  \* user_machine_entitlements
    mbPeriods,      \* user_machine_bandwidth_periods by period_start
    mbTopups,       \* user_machine_bandwidth_topups, oldest first; voided is
                    \* what a refund took back (a history field)
    mbReceipts,     \* control_usage_receipts by operation id
    mbCounters      \* control_usage_counters by epoch

mbVars == <<mbMachine, mbEntitlement, mbPeriods, mbTopups, mbReceipts, mbCounters>>

MbNoPeriod == [included |-> 0, consumed |-> 0, topup |-> 0]
MbTopup(o) == [order |-> o, state |-> "active", remaining |-> MbPackage, voided |-> 0]

MbInit ==
    /\ mbMachine = [state |-> "online", env |-> "active"]
    /\ mbEntitlement = [state |-> "active", period |-> 1]
    /\ mbPeriods = [p \in 1 .. MbMaxPeriod |-> MbNone]
    /\ mbTopups = << >>
    /\ mbReceipts = [r \in MbReports |-> MbNone]
    /\ mbCounters = [e \in MbEpochs |-> 0]

(* --------------------------- the ledger's queries ----------------------- *)

GetUserMachineEntitlementForUpdate(at) ==
    /\ mbEntitlement.state \in {"active", "trialing"}
    /\ at = mbEntitlement.period

UpsertUserMachineBandwidthPeriod(periods, p) ==
    [periods EXCEPT ![p] = IF @ = MbNone THEN [MbNoPeriod EXCEPT !.included = MbAllowance] ELSE @]

ConsumeUserMachineIncludedBandwidth(row, bytes) ==
    [row EXCEPT !.consumed = IF @ + bytes <= row.included THEN @ + bytes ELSE @]

RecordUserMachineTopupConsumption(row, bytes) == [row EXCEPT !.topup = @ + bytes]

ListActiveUserMachineTopupsForUpdate ==
    {i \in DOMAIN mbTopups : mbTopups[i].state = "active" /\ mbTopups[i].remaining > 0}

(* Mutant: an exhausted top-up row keeps the bytes of its last consumption. *)
ConsumesBelow(row, bytes) ==
    [row EXCEPT !.remaining = IF @ = bytes THEN @ ELSE @ - bytes,
                !.state = IF row.remaining = bytes THEN "exhausted" ELSE "active"]

ConsumeUserMachineTopup(row, bytes) ==
    [row EXCEPT !.remaining = @ - bytes,
                !.state = IF row.remaining = bytes THEN "exhausted" ELSE "active"]

GetUserMachineForBandwidthUpdate == mbMachine.state # "deleted"
GetUserMachineForEnvironmentBandwidthUpdate == mbMachine.state # "deleted"

(* ------------------------------ reservation ----------------------------- *)

MinOf(a, b) == IF a < b THEN a ELSE b

(* What the top-ups before row i still hold: rows are consumed in order. *)
HeldBefore(i) ==
    MapThenSumSet(LAMBDA j : mbTopups[j].remaining,
                  {j \in ListActiveUserMachineTopupsForUpdate : j < i})
TakenFrom(i, bytes) ==
    IF bytes <= HeldBefore(i) THEN 0 ELSE MinOf(bytes - HeldBefore(i), mbTopups[i].remaining)

(* reserveBandwidthForMachineTx: the bytes the account can grant of a       *)
(* request, the allowance first.  Whether all were granted is the caller's. *)
IncludedOf(periods, p, bytes) == MinOf(bytes, periods[p].included - periods[p].consumed)
GrantedOf(periods, p, bytes) ==
    MinOf(bytes, periods[p].included - periods[p].consumed + HeldBefore(Len(mbTopups) + 1))

ReserveBandwidthForMachineTx(p, bytes) ==
    LET periods == UpsertUserMachineBandwidthPeriod(mbPeriods, p)
        fromIncluded == IncludedOf(periods, p, bytes)
        fromTopups == GrantedOf(periods, p, bytes) - fromIncluded
    IN /\ GetUserMachineEntitlementForUpdate(p)
       /\ mbPeriods' = [periods EXCEPT ![p] =
            RecordUserMachineTopupConsumption(
              ConsumeUserMachineIncludedBandwidth(periods[p], fromIncluded), fromTopups)]
       /\ mbTopups' = [i \in DOMAIN mbTopups |->
            IF i \in ListActiveUserMachineTopupsForUpdate /\ TakenFrom(i, fromTopups) > 0
            THEN ConsumeUserMachineTopup(mbTopups[i], TakenFrom(i, fromTopups))
            ELSE mbTopups[i]]

ReserveBandwidth(bytes) ==
    /\ GetUserMachineForBandwidthUpdate
    /\ mbMachine.state = "online"
    /\ ReserveBandwidthForMachineTx(mbEntitlement.period, bytes)
    /\ UNCHANGED <<mbMachine, mbEntitlement, mbReceipts, mbCounters>>

(* ----------------------------- usage reports ---------------------------- *)

SuspendControlEnvironmentForQuota ==
    [mbMachine EXCEPT !.env = IF @ = "active" THEN "suspended" ELSE @]

InsertControlUsageReceipt(r, row) == mbReceipts' = [mbReceipts EXCEPT ![r] = row]

GetControlUsageCounterForUpdate(e) == mbCounters[e]

UpsertControlUsageCounter(e, bytes) == [mbCounters EXCEPT ![e] = IF @ < bytes THEN bytes ELSE @]

(* Without a machine the debit grants nothing and is not exhausted. *)
DebitEnvironmentBandwidthTx(delta, at) ==
    LET periods == UpsertUserMachineBandwidthPeriod(mbPeriods, at)
    IN IF GetUserMachineForEnvironmentBandwidthUpdate
       THEN /\ ReserveBandwidthForMachineTx(at, delta)
            /\ mbMachine' = IF GrantedOf(periods, at, delta) < delta
                            THEN SuspendControlEnvironmentForQuota ELSE mbMachine
       ELSE UNCHANGED <<mbMachine, mbPeriods, mbTopups>>

(* ReconcileUsage of a new report.  A denied debit rolls everything back,   *)
(* an exact retry answers from the receipt, a different report under a used *)
(* id is a conflict: none of the three changes state.                       *)
ReconcileUsage(r, e, bytes, at) ==
    LET seen == GetControlUsageCounterForUpdate(e)
        delta == IF bytes < seen THEN 0 ELSE bytes - seen
    IN /\ mbReceipts[r] = MbNone
       /\ InsertControlUsageReceipt(r, [epoch |-> e, bytes |-> bytes, delta |-> delta])
       /\ IF delta > 0 THEN DebitEnvironmentBandwidthTx(delta, at)
                       ELSE UNCHANGED <<mbMachine, mbPeriods, mbTopups>>
       /\ mbCounters' = UpsertControlUsageCounter(e, bytes)
       /\ UNCHANGED mbEntitlement

(* ------------------------------- webhooks ------------------------------- *)

Purchased(o) == \E i \in DOMAIN mbTopups : mbTopups[i].order = o

CreateUserMachineBandwidthTopup(o) ==
    mbTopups' = IF Purchased(o) THEN mbTopups ELSE Append(mbTopups, MbTopup(o))

ApplyUserMachineBandwidthTopupWebhook(o) ==
    /\ CreateUserMachineBandwidthTopup(o)
    /\ UNCHANGED <<mbMachine, mbEntitlement, mbPeriods, mbReceipts, mbCounters>>

VoidUserMachineBandwidthTopup(o) ==
    mbTopups' = [i \in DOMAIN mbTopups |->
      IF mbTopups[i].order = o /\ mbTopups[i].state = "active"
      THEN [mbTopups[i] EXCEPT !.state = "void", !.voided = mbTopups[i].remaining, !.remaining = 0]
      ELSE mbTopups[i]]

RefundTopup(o) ==
    /\ Purchased(o)
    /\ VoidUserMachineBandwidthTopup(o)
    /\ UNCHANGED <<mbMachine, mbEntitlement, mbPeriods, mbReceipts, mbCounters>>

UpsertUserMachineEntitlement(state, p) == mbEntitlement' = [state |-> state, period |-> p]
UpdateUserMachineEntitlementState(state) == mbEntitlement' = [mbEntitlement EXCEPT !.state = state]
ListBillableUserMachineIDs == mbMachine.state \in {"online", "offline"}
RevokesForEntitlement ==
    [mbMachine EXCEPT !.state = IF ListBillableUserMachineIDs THEN "revoked" ELSE @]

(* A subscription event: an active one opens the period for the machines    *)
(* that hold a seat, any other one revokes them.                            *)
ApplyUserMachineSubscriptionWebhook(state, p) ==
    /\ IF state \in {"active", "trialing"}
       THEN /\ UpsertUserMachineEntitlement(state, p)
            /\ mbPeriods' = IF ListBillableUserMachineIDs
                            THEN UpsertUserMachineBandwidthPeriod(mbPeriods, p) ELSE mbPeriods
            /\ UNCHANGED mbMachine
       ELSE /\ UpdateUserMachineEntitlementState(state)
            /\ mbMachine' = RevokesForEntitlement
            /\ UNCHANGED mbPeriods
    /\ UNCHANGED <<mbTopups, mbReceipts, mbCounters>>

(* The machine comes and goes, is paired again or deleted, and an operator  *)
(* reactivates a suspended environment.                                     *)
MbMachineMoves ==
    /\ \/ \E s \in {"online", "offline", "deleted"} :
            /\ mbMachine.state # "deleted"
            /\ s = "online" => mbEntitlement.state = "active"
            /\ mbMachine' = [mbMachine EXCEPT !.state = s]
       \/ mbMachine' = [mbMachine EXCEPT !.env = "active"]
    /\ UNCHANGED <<mbEntitlement, mbPeriods, mbTopups, mbReceipts, mbCounters>>

MbNext ==
    \/ \E b \in 1 .. MbMaxBytes : ReserveBandwidth(b)
    \/ \E r \in MbReports, e \in MbEpochs, b \in 0 .. MbMaxBytes, p \in 1 .. MbMaxPeriod :
          ReconcileUsage(r, e, b, p)
    \/ \E o \in MbOrders : ApplyUserMachineBandwidthTopupWebhook(o) \/ RefundTopup(o)
    \/ \E s \in {"active", "revoked"}, p \in 1 .. MbMaxPeriod : ApplyUserMachineSubscriptionWebhook(s, p)
    \/ MbMachineMoves

MbSpec == MbInit /\ [][MbNext]_mbVars

(* ------------------------------ properties ------------------------------ *)

MbTypeOK ==
    /\ mbMachine \in [state : {"online", "offline", "revoked", "deleted"}, env : {"active", "suspended"}]
    /\ mbEntitlement \in [state : {"active", "revoked"}, period : 1 .. MbMaxPeriod]
    /\ mbPeriods \in [1 .. MbMaxPeriod -> {MbNone} \cup
         [included : {MbAllowance}, consumed : 0 .. MbAllowance, topup : Nat]]
    /\ mbTopups \in Seq([order : MbOrders, state : {"active", "exhausted", "void"},
                          remaining : 0 .. MbPackage, voided : 0 .. MbPackage])
    /\ mbReceipts \in [MbReports -> {MbNone} \cup
         [epoch : MbEpochs, bytes : 0 .. MbMaxBytes, delta : 0 .. MbMaxBytes]]
    /\ mbCounters \in [MbEpochs -> 0 .. MbMaxBytes]

(* The two tables that record the spending of top-ups agree: what the       *)
(* periods say was taken from top-ups is what left the top-ups by           *)
(* consumption, whatever mix of reservations, reports, partial grants,      *)
(* renewals and refunds happened between (reserveBandwidthForMachineTx).    *)
TopupsBalance ==
    MapThenSumSet(LAMBDA p : IF mbPeriods[p] = MbNone THEN 0 ELSE mbPeriods[p].topup, DOMAIN mbPeriods)
      = MapThenSumSet(LAMBDA i : MbPackage - mbTopups[i].remaining - mbTopups[i].voided, DOMAIN mbTopups)

(* However reports of one counter are delayed, repeated and reordered, the  *)
(* deltas charged add up to the stored counter, which is the highest value  *)
(* any of them observed (ReconcileUsage never lowers a counter).            *)
UsageChargedOnce ==
    \A e \in MbEpochs :
        LET mine == {r \in MbReports : mbReceipts[r] # MbNone /\ mbReceipts[r].epoch = e}
        IN /\ MapThenSumSet(LAMBDA r : mbReceipts[r].delta, mine) = mbCounters[e]
           /\ mbCounters[e] = Max({0} \cup {mbReceipts[r].bytes : r \in mine})
====
