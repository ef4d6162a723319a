---------------------------- MODULE AccountProofs ----------------------------
(***************************************************************************)
(* Proofs about what a user's account holds and is charged: the credits    *)
(* and the storage that Polar's events bring (PolarWebhooks), and the      *)
(* storage a project is charged for (HostedLifecycle).                     *)
(*                                                                         *)
(* PolarWebhooks, for any catalog of plans, any number of events in any    *)
(* order and any number of periods, seats and projects.  PeriodGrantedOnce *)
(* is inductive.  NoOverAllocation needs the types of the account and of   *)
(* the events.  PendingPlanFits is strengthened twice: it has to hold      *)
(* while the subscription is not active, and a downgrade that was checked  *)
(* but not yet recorded has to fit already.                                *)
(*                                                                         *)
(* HostedLifecycle, for any configurations, workers, requests and faults.  *)
(* StorageBalance needs that the ledger holds the release exactly when the *)
(* project is deleted, that a busy worker has a job, that there is no job  *)
(* before there is a project, and that no job remembers a state without    *)
(* storage as the one to restore.                                          *)
(***************************************************************************)
EXTENDS PolarWebhooks, HostedLifecycle, TLAPS

(* What is added to the ledger are entries of the given set.               *)
LEMMA InsertAdds ==
  ASSUME NEW entries, InsertCreditLedger(entries)
  PROVE  \A x \in ledger' : x \in ledger \/ x \in entries
BY DEF InsertCreditLedger

(* The entries a plan event adds: a grant only for a period without        *)
(* credits, and at most one.                                               *)
LEMMA PlanEntriesGrantOnce ==
  ASSUME NEW e, NEW i
  PROVE  \A x, y \in PlanEntries(e, i) :
           x.key[1] = "plan" =>
             /\ x.key[2] = e.period /\ y = x
             /\ ~HasSubscriptionPeriodCredits(e)
<1>1. CASE IsMidPeriodSwitch(e)
  <2>1. \A x \in PlanSwitchEntries(e, i) : x.key = <<"switch", e.period, i>>
    BY DEF PlanSwitchEntries
  <2>2. \A x \in PlanEntries(e, i) : x.key = <<"switch", e.period, i>>
    BY <1>1, <2>1 DEF PlanEntries
  <2>3. \A x \in PlanEntries(e, i) : x.key[1] = "switch"
    BY <2>2
  <2> QED BY <2>3
<1>2. CASE ~IsMidPeriodSwitch(e) /\ HasSubscriptionPeriodCredits(e)
  BY <1>2 DEF PlanEntries
<1>3. CASE ~IsMidPeriodSwitch(e) /\ ~HasSubscriptionPeriodCredits(e)
  <2> DEFINE g == [key |-> <<"plan", e.period, e.product>>, amount |-> Credits[PlanOf(e)]]
  <2>1. PlanEntries(e, i) = {g}
    BY <1>3 DEF PlanEntries
  <2>2. g.key[2] = e.period
    OBVIOUS
  <2> HIDE DEF g
  <2> QED BY <1>3, <2>1, <2>2
<1> QED BY <1>1, <1>2, <1>3

(* A period's included credits are granted at most once, for any catalog,  *)
(* any events and any order and repetition of their delivery               *)
(* (applyPlanWebhook).                                                     *)
THEOREM PeriodGrantedOnceAlways == Spec => []PeriodGrantedOnce
<1>1. Init => PeriodGrantedOnce
  BY DEF Init, PeriodGrantedOnce
<1>2. PeriodGrantedOnce /\ [Next]_vars => PeriodGrantedOnce'
  <2> SUFFICES ASSUME PeriodGrantedOnce, [Next]_vars PROVE PeriodGrantedOnce'
    OBVIOUS
  <2>0. CASE ledger' = ledger
    BY <2>0 DEF PeriodGrantedOnce
  <2>a. ASSUME NEW k, k[1] # "plan", NEW n, InsertCreditLedger({[key |-> k, amount |-> n]})
        PROVE PeriodGrantedOnce'
    <3>1. \A x \in ledger' : x \in ledger \/ x.key = k
      BY <2>a, InsertAdds
    <3> QED BY <2>a, <3>1 DEF PeriodGrantedOnce
  <2>1. ASSUME NEW i \in 1..MaxEvents, RecordPolarEvent(i) PROVE PeriodGrantedOnce'
    <3>1. CASE ApplyPlanWebhook(sent[i], i)
      <4> DEFINE e == sent[i]
      <4>1. CASE InsertCreditLedger(PlanEntries(e, i))
        <5> HIDE DEF e
        <5>1. \A x \in ledger' : x \in ledger \/ x \in PlanEntries(e, i)
          BY <4>1, InsertAdds
        <5>2. \A x \in ledger : x.key[1] = "plan" /\ x.key[2] = e.period => HasSubscriptionPeriodCredits(e)
          BY DEF HasSubscriptionPeriodCredits
        <5> QED BY <5>1, <5>2, PlanEntriesGrantOnce DEF PeriodGrantedOnce
      <4> QED BY <4>1, <3>1, <2>0 DEF ApplyPlanWebhook
    <3>2. CASE ApplyRefundWebhook(sent[i], i)
      <4>1. <<"refund", i>>[1] # "plan"
        OBVIOUS
      <4> QED BY <3>2, <4>1, <2>0, <2>a DEF ApplyRefundWebhook
    <3>3. CASE ApplyTopup(sent[i], i)
      <4>1. <<"topup", i>>[1] # "plan"
        OBVIOUS
      <4> QED BY <3>3, <4>1, <2>a DEF ApplyTopup
    <3> QED BY <2>1, <3>1, <3>2, <3>3 DEF RecordPolarEvent
  <2>2. ASSUME NEW n, DebitCredits(n) PROVE PeriodGrantedOnce'
    <3>1. <<"debit", n>>[1] # "plan"
      OBVIOUS
    <3> QED BY <2>2, <3>1, <2>a DEF DebitCredits
  <2>3. ASSUME NEW type, NEW p, NEW left, Send(type, p, left) PROVE ledger' = ledger
    BY <2>3 DEF Send, server
  <2>4. CASE \/ \E r \in Products : Subscribe(r) \/ \E left \in 0..2 : Switch(r, left)
             \/ Renew \/ Cancel \/ \E n \in 0..MaxSeats : ChangeSeats(n)
             \/ \E type \in {"topup.paid", "topup.refunded", "plan.refunded"} : Order(type)
    BY <2>0, <2>3, <2>4 DEF Subscribe, Switch, Renew, Cancel, ChangeSeats, Order
  <2>5. CASE \/ \E r \in Products : CheckDowngrade(r)
             \/ SetPendingSubscriptionPlan \/ UpdateSubscription \/ ReserveStorage \/ ReleaseStorage
             \/ UNCHANGED vars
    BY <2>0, <2>5 DEF CheckDowngrade, SetPendingSubscriptionPlan, UpdateSubscription, ReserveStorage,
                      ReleaseStorage, vars, server
  <2> QED BY <2>1, <2>2, <2>4, <2>5 DEF Next
<1> QED BY <1>1, <1>2, PTL DEF Spec

-----------------------------------------------------------------------------
(* Storage.                                                                *)

Events == [type : {"subscription", "topup.paid", "topup.refunded", "plan.refunded"}, status : Statuses,
           product : Products, period : Nat, seats : Nat, left : 0..2]

Subscriptions == [status : Statuses, product : Products \union {0}, period : Nat, seats : Nat,
                  next : Products \union {0}]

StorageTyped ==
  /\ polar \in Subscriptions
  /\ polar.status # "none" => polar.product \in Products
  /\ sent \in Seq(Events)
  /\ account \in [included : Nat, purchased : Nat, allocated : Nat]
  /\ sub.pending \in Products \union {0}
  /\ sub = [state |-> sub.state, plan |-> sub.plan, period |-> sub.period, pending |-> sub.pending]
  /\ request \in [pc : {"idle", "checked", "recorded"}, plan : Products \union {0}]
  /\ request.pc # "idle" => request.plan \in Products

(* A plan fits when the storage in use stays covered under it.             *)
PlanFits(r) == account.allocated <= Storage[r] + account.purchased

DowngradesFit ==
  excuses = {} =>
    /\ sub.pending # 0 => PlanFits(sub.pending)
    /\ request.pc = "checked" => PlanFits(request.plan)

StorageInv == StorageTyped /\ NoOverAllocation /\ DowngradesFit

(* An event that Polar sends is well typed and touches nothing else.       *)
LEMMA SendStorage ==
  ASSUME StorageInv, NEW type \in {"subscription", "topup.paid", "topup.refunded", "plan.refunded"},
         NEW p \in Subscriptions, p.product \in Products, NEW left \in 0..2, Send(type, p, left)
  PROVE  StorageInv'
<1> DEFINE e == [type |-> type, status |-> p.status, product |-> p.product, period |-> p.period,
                 seats |-> p.seats, left |-> left]
<1>1. e \in Events
  BY DEF Events, Subscriptions
<1>2. sent' = Append(sent, e) /\ polar' = p
  BY DEF Send
<1> HIDE DEF e
<1>3. sent' \in Seq(Events)
  BY <1>1, <1>2 DEF StorageInv, StorageTyped
<1>4. UNCHANGED <<sub, account, request, excuses>>
  BY DEF Send, server
<1> QED BY <1>2, <1>3, <1>4 DEF StorageInv, StorageTyped, NoOverAllocation, DowngradesFit, PlanFits

(* A plan event that entitles leaves the storage in use covered; it loses  *)
(* the fit of a pending plan only by taking seats away.                    *)
LEMMA SetStorageKeeps ==
  ASSUME StorageInv, NEW e \in Events, NEW r \in Products, SetStorage(e, r),
         excuses' = IF account'.purchased < account.purchased THEN excuses \union {"seats"} ELSE excuses
  PROVE  /\ account' \in [included : Nat, purchased : Nat, allocated : Nat]
         /\ NoOverAllocation'
         /\ excuses' = {} => excuses = {} /\ \A q \in Products : PlanFits(q) => PlanFits(q)'
<1> USE ProductAssumption DEF StorageInv, StorageTyped
<1>1. Storage[r] \in Nat /\ e.seats \in Nat /\ \A q \in Products : Storage[q] \in Nat
  BY DEF Events
<1>2. /\ account'.included = Storage[r] /\ account'.purchased = e.seats /\ account'.allocated = account.allocated
      /\ account' \in [included : Nat, purchased : Nat, allocated : Nat]
  BY <1>1 DEF SetStorage
<1>3. NoOverAllocation'
  BY <1>1, <1>2 DEF SetStorage, NoOverAllocation
<1>4. ASSUME excuses' = {} PROVE excuses = {} /\ account'.purchased >= account.purchased
  <2>1. excuses \union {"seats"} # {}
    OBVIOUS
  <2>2. ~(account'.purchased < account.purchased) /\ excuses = {}
    BY <1>4, <2>1, Zenon
  <2> QED BY <1>1, <1>2, <2>2
<1>5. ASSUME account'.purchased >= account.purchased PROVE \A q \in Products : PlanFits(q) => PlanFits(q)'
  BY <1>1, <1>2, <1>5 DEF PlanFits
<1> QED BY <1>2, <1>3, <1>4, <1>5

(* Every step keeps the storage in use covered and recorded downgrades     *)
(* fitting.                                                                *)
LEMMA StorageNext == StorageInv /\ [Next]_vars => StorageInv'
<1> SUFFICES ASSUME StorageInv, [Next]_vars PROVE StorageInv'
  OBVIOUS
<1> USE ProductAssumption, BoundAssumption
<1>0. CASE UNCHANGED <<polar, sent, account, sub, request, excuses>>
  BY <1>0 DEF StorageInv, StorageTyped, NoOverAllocation, DowngradesFit, PlanFits
<1>a. 0 \notin Products /\ polar \in Subscriptions /\ (polar.status # "none" => polar.product \in Products)
  BY DEF StorageInv, StorageTyped
<1>1. ASSUME NEW r \in Products, Subscribe(r) PROVE StorageInv'
  <2> DEFINE p == [status |-> IF r \in Trials THEN "trialing" ELSE "active", product |-> r, period |-> 1,
                   seats |-> 0, next |-> 0]
  <2>1. p \in Subscriptions /\ p.product \in Products
    BY DEF Subscriptions, Statuses
  <2>2. Send("subscription", p, 2)
    BY <1>1 DEF Subscribe
  <2> HIDE DEF p
  <2> QED BY <2>1, <2>2, SendStorage
<1>2. ASSUME NEW r \in Products, NEW left \in 0..2, Switch(r, left) PROVE StorageInv'
  <2> DEFINE p == [polar EXCEPT !.product = r, !.next = 0]
  <2>1. p \in Subscriptions /\ p.product \in Products
    BY <1>a DEF Subscriptions
  <2>2. Send("subscription", p, left)
    BY <1>2 DEF Switch
  <2> HIDE DEF p
  <2> QED BY <2>1, <2>2, SendStorage
<1>3. CASE Renew
  <2> DEFINE p == [polar EXCEPT !.status = "active", !.product = IF polar.next = 0 THEN @ ELSE polar.next,
                                !.period = @ + 1, !.next = 0]
  <2>0. polar.status # "none"
    BY <1>3 DEF Renew, Entitling
  <2>1. p \in Subscriptions /\ p.product \in Products
    <3> DEFINE r == IF polar.next = 0 THEN polar.product ELSE polar.next
    <3>1. r \in Products /\ polar.period + 1 \in Nat
      BY <1>a, <2>0 DEF Subscriptions
    <3>2. p = [polar EXCEPT !.status = "active", !.product = r, !.period = polar.period + 1, !.next = 0]
      BY <1>a DEF Subscriptions
    <3> HIDE DEF r, p
    <3> QED BY <3>1, <3>2, <1>a DEF Subscriptions, Statuses
  <2>2. Send("subscription", p, 2)
    BY <1>3 DEF Renew
  <2> HIDE DEF p
  <2> QED BY <2>1, <2>2, SendStorage
<1>4. CASE Cancel
  <2> DEFINE p == [polar EXCEPT !.status = "canceled", !.next = 0]
  <2>0. polar.status # "none"
    BY <1>4 DEF Cancel, Entitling
  <2>1. p \in Subscriptions /\ p.product \in Products
    BY <1>a, <2>0 DEF Subscriptions, Statuses
  <2>2. Send("subscription", p, 0)
    BY <1>4 DEF Cancel
  <2> HIDE DEF p
  <2> QED BY <2>1, <2>2, SendStorage
<1>5. ASSUME NEW n \in 0..MaxSeats, ChangeSeats(n) PROVE StorageInv'
  <2> DEFINE p == [polar EXCEPT !.seats = n]
  <2>1. p \in Subscriptions /\ p.product \in Products
    BY <1>a, <1>5 DEF Subscriptions, ChangeSeats
  <2>2. Send("subscription", p, 2)
    BY <1>5 DEF ChangeSeats
  <2> HIDE DEF p
  <2> QED BY <2>1, <2>2, SendStorage
<1>6. ASSUME NEW type \in {"topup.paid", "topup.refunded", "plan.refunded"}, Order(type) PROVE StorageInv'
  BY <1>6, <1>a, SendStorage DEF Order
<1>7. ASSUME NEW i \in 1..MaxEvents, RecordPolarEvent(i) PROVE StorageInv'
  <2> DEFINE e == sent[i]
  <2>1. e \in Events
    BY <1>7 DEF RecordPolarEvent, StorageInv, StorageTyped
  <2>2. /\ polar' = polar /\ sent' = sent /\ request' = request
        /\ excuses' = IF account'.purchased < account.purchased THEN excuses \union {"seats"} ELSE excuses
    BY <1>7 DEF RecordPolarEvent
  <2>3. account' = account => excuses' = excuses
    BY <2>2 DEF StorageInv, StorageTyped
  <2>4. CASE e.type = "subscription" /\ ApplyPlanWebhook(e, i)
    <3> DEFINE r == PlanOf(e)
    <3>1. r \in Products
      BY <2>1 DEF Events, PlanOf
    <3>2. /\ sub' = [state |-> e.status, plan |-> r, period |-> e.period,
                     pending |-> IF sub.pending = r THEN 0 ELSE sub.pending]
          /\ SetStorage(e, r) \/ account' = account
      BY <2>4 DEF ApplyPlanWebhook
    <3> HIDE DEF r
    <3>3. sub'.pending = IF sub.pending = r THEN 0 ELSE sub.pending
      BY <3>2
    <3>4. sub' = [state |-> sub'.state, plan |-> sub'.plan, period |-> sub'.period, pending |-> sub'.pending]
      BY <3>2
    <3>5. CASE SetStorage(e, r)
      <4>1. /\ account' \in [included : Nat, purchased : Nat, allocated : Nat]
            /\ NoOverAllocation'
            /\ excuses' = {} => excuses = {} /\ \A q \in Products : PlanFits(q) => PlanFits(q)'
        BY <2>1, <2>2, <3>1, <3>5, SetStorageKeeps
      <4>2. DowngradesFit'
        BY <4>1, <3>3, <2>2 DEF StorageInv, StorageTyped, DowngradesFit, PlanFits
      <4> QED BY <4>1, <4>2, <3>3, <3>4, <2>2 DEF StorageInv, StorageTyped
    <3>6. CASE account' = account
      BY <3>6, <3>3, <3>4, <2>2, <2>3 DEF StorageInv, StorageTyped, NoOverAllocation, DowngradesFit, PlanFits
    <3> QED BY <3>2, <3>5, <3>6
  <2>5. CASE ApplyRefundWebhook(e, i) \/ ApplyTopup(e, i)
    <3>1. account' = account /\ (sub' = sub \/ sub' = [sub EXCEPT !.state = SubscriptionState("")])
      BY <2>5 DEF ApplyRefundWebhook, ApplyTopup
    <3>2. /\ sub'.pending = sub.pending
          /\ sub' = [state |-> sub'.state, plan |-> sub'.plan, period |-> sub'.period, pending |-> sub'.pending]
      <4>1. sub = [state |-> sub.state, plan |-> sub.plan, period |-> sub.period, pending |-> sub.pending]
        BY DEF StorageInv, StorageTyped
      <4> QED BY <3>1, <4>1
    <3> QED BY <3>1, <3>2, <2>2, <2>3 DEF StorageInv, StorageTyped, NoOverAllocation, DowngradesFit, PlanFits
  <2> QED BY <1>7, <2>4, <2>5 DEF RecordPolarEvent
<1>8. ASSUME NEW r \in Products, CheckDowngrade(r) PROVE StorageInv'
  BY <1>8, <1>a DEF CheckDowngrade, server, StorageInv, StorageTyped, NoOverAllocation, DowngradesFit, PlanFits
<1>9. CASE SetPendingSubscriptionPlan
  <2>1. /\ sub' = [state |-> sub.state, plan |-> sub.plan, period |-> sub.period, pending |-> request.plan]
        /\ request' = [pc |-> "recorded", plan |-> request.plan] /\ request.plan \in Products
    BY <1>9 DEF SetPendingSubscriptionPlan, StorageInv, StorageTyped
  <2>2. request.pc = "checked" /\ UNCHANGED <<polar, sent, account, excuses>>
    BY <1>9 DEF SetPendingSubscriptionPlan
  <2> QED BY <2>1, <2>2, <1>a DEF StorageInv, StorageTyped, NoOverAllocation, DowngradesFit, PlanFits
<1>10. CASE UpdateSubscription
  <2>1. request' = [pc |-> "idle", plan |-> 0] /\ UNCHANGED <<sent, account, excuses>>
    BY <1>10 DEF UpdateSubscription, NoRequest
  <2>2. polar' \in Subscriptions /\ (polar'.status # "none" => polar'.product \in Products)
    BY <1>10, <1>a DEF UpdateSubscription, StorageInv, StorageTyped, Subscriptions
  <2>3. /\ sub' = [state |-> sub.state, plan |-> sub.plan, period |-> sub.period, pending |-> sub'.pending]
        /\ sub'.pending \in {sub.pending, 0}
    BY <1>10 DEF UpdateSubscription, StorageInv, StorageTyped
  <2> QED BY <2>1, <2>2, <2>3 DEF StorageInv, StorageTyped, NoOverAllocation, DowngradesFit, PlanFits
<1>11. CASE ReserveStorage
  <2>0. /\ account \in [included : Nat, purchased : Nat, allocated : Nat]
        /\ account' = [account EXCEPT !.allocated = account.allocated + 1]
    BY <1>11 DEF ReserveStorage, StorageInv, StorageTyped
  <2>1. /\ account'.included = account.included /\ account'.purchased = account.purchased
        /\ account'.allocated = account.allocated + 1
        /\ account' \in [included : Nat, purchased : Nat, allocated : Nat]
        /\ UNCHANGED <<polar, sent, sub, request>>
    BY <1>11, <2>0 DEF ReserveStorage
  <2>2. ASSUME excuses' = {} PROVE request.pc # "checked" /\ sub.state \in Entitling
    <3>1. excuses' = excuses \union (IF request.pc = "checked" THEN {"race"} ELSE {})
                            \union (IF sub.state \notin Entitling THEN {"lapsed"} ELSE {})
      BY <1>11 DEF ReserveStorage
    <3> QED BY <2>2, <3>1, Zenon
  <2>3. IncludedForReservation <= account.included /\ IncludedForReservation \in Nat
    BY DEF IncludedForReservation, StorageInv, StorageTyped
  <2>4. NoOverAllocation'
    BY <1>11, <2>1, <2>3 DEF ReserveStorage, NoOverAllocation, StorageInv, StorageTyped
  <2>5. ASSUME sub.state \in Entitling, sub.pending # 0 PROVE PlanFits(sub.pending)'
    <3>1. IncludedForReservation <= Storage[sub.pending] /\ Storage[sub.pending] \in Nat
      BY <2>5 DEF IncludedForReservation, StorageInv, StorageTyped
    <3>2. account'.allocated <= IncludedForReservation + account'.purchased
      BY <1>11, <2>1 DEF ReserveStorage
    <3>3. sub' = sub /\ account' \in [included : Nat, purchased : Nat, allocated : Nat]
      BY <2>1
    <3>4. account'.allocated <= Storage[sub.pending] + account'.purchased
      BY <2>3, <3>1, <3>2, <3>3
    <3> QED BY <3>3, <3>4 DEF PlanFits
  <2>6. DowngradesFit'
    BY <2>1, <2>2, <2>5 DEF DowngradesFit, PlanFits
  <2> QED BY <2>1, <2>4, <2>6 DEF StorageInv, StorageTyped
<1>12. CASE ReleaseStorage
  <2>0. /\ account \in [included : Nat, purchased : Nat, allocated : Nat] /\ account.allocated >= 1
        /\ account' = [account EXCEPT !.allocated = account.allocated - 1]
    BY <1>12 DEF ReleaseStorage, StorageInv, StorageTyped
  <2>1. /\ account'.included = account.included /\ account'.purchased = account.purchased
        /\ account'.allocated = account.allocated - 1
        /\ account' \in [included : Nat, purchased : Nat, allocated : Nat]
        /\ UNCHANGED <<polar, sent, sub, request, excuses>>
    BY <1>12, <2>0 DEF ReleaseStorage
  <2>2. \A r \in Products : PlanFits(r) => PlanFits(r)'
    BY <2>0, <2>1 DEF PlanFits
  <2>3. NoOverAllocation'
    BY <2>0, <2>1 DEF StorageInv, NoOverAllocation
  <2>4. DowngradesFit'
    BY <2>1, <2>2 DEF StorageInv, StorageTyped, DowngradesFit, PlanFits
  <2> QED BY <2>1, <2>3, <2>4 DEF StorageInv, StorageTyped
<1>13. CASE UNCHANGED vars \/ \E n \in 1..MaxDebits : DebitCredits(n)
  BY <1>0, <1>13 DEF vars, server, DebitCredits
<1> QED
  BY <1>1, <1>2, <1>3, <1>4, <1>5, <1>6, <1>7, <1>8, <1>9, <1>10, <1>11, <1>12, <1>13 DEF Next

(* The invariant of the storage account holds before any event. *)
LEMMA StorageInit == Init => StorageInv
BY ProductAssumption, BoundAssumption
   DEF Init, NoRequest, StorageInv, StorageTyped, Subscriptions, Statuses, NoOverAllocation, DowngradesFit, PlanFits

(* The storage of the projects is covered by the plan's and the seats'     *)
(* storage, for any catalog and any order of the events, reservations and  *)
(* releases (setIncludedStorageTx, setPurchasedStorageTx,                  *)
(* reserveStorageTx).                                                      *)
THEOREM NoOverAllocationAlways == Spec => []NoOverAllocation
<1>1. StorageInv => NoOverAllocation
  BY DEF StorageInv
<1> QED BY <1>1, StorageInit, StorageNext, PTL DEF Spec

(* A recorded downgrade keeps fitting the storage in use, unless one of    *)
(* the three excuses has happened (CreateCheckout, SetPendingSubscription- *)
(* Plan, GetStorageAccountForUpdate).                                      *)
THEOREM PendingPlanFitsAlways == Spec => []PendingPlanFits
<1>1. StorageInv => PendingPlanFits
  BY DEF StorageInv, DowngradesFit, PendingPlanFits, PlanFits
<1> QED BY <1>1, StorageInit, StorageNext, PTL DEF Spec

-----------------------------------------------------------------------------
(* The storage of one project                                              *)

(* Every job row has the state it was queued in, which is one a project    *)
(* can be restored to.                                                     *)
JobsFit ==
  /\ \E n \in Nat : DOMAIN hlJobs = 1 .. n
  /\ \A j \in DOMAIN hlJobs : "prev" \in DOMAIN hlJobs[j] /\ hlJobs[j].prev \notin {"none", "deleted"}

(* A worker that is not idle works on a job of the queue.                  *)
WorkersFit ==
  /\ DOMAIN hlWk = hlScope.workers
  /\ \A w \in hlScope.workers :
       /\ "pc" \in DOMAIN hlWk[w] /\ "job" \in DOMAIN hlWk[w]
       /\ hlWk[w].pc # "idle" => hlWk[w].job \in DOMAIN hlJobs

(* The ledger holds the release exactly when the project is deleted, and   *)
(* there is no job before there is a project.                              *)
AccountInv ==
  /\ StorageBalance /\ JobsFit /\ WorkersFit
  /\ hlScope \in HlScopes
  /\ state # "none" => desired \in Configs
  /\ released = (state = "deleted")
  /\ state = "none" => DOMAIN hlJobs = {}

(* The invariant of the project's account holds initially. *)
LEMMA AccountInit == HlInit => AccountInv
<1> SUFFICES ASSUME HlInit PROVE AccountInv
  OBVIOUS
<1>1. StorageBalance /\ hlScope \in HlScopes
  BY DEF HlInit, StorageBalance
<1>2. DOMAIN hlJobs = 1 .. 0
  BY DEF HlInit
<1>3. JobsFit /\ DOMAIN hlJobs = {}
  BY <1>2 DEF JobsFit
<1>4. WorkersFit
  BY DEF HlInit, WorkersFit, IdleWorker
<1>5. state = "none"
  BY DEF HlInit
<1>6. released = (state = "deleted")
  BY DEF HlInit
<1> QED BY <1>1, <1>3, <1>4, <1>5, <1>6 DEF AccountInv

(* What a step does to the queue: it edits rows, or adds one.              *)
SameRows(js) ==
  /\ DOMAIN js = DOMAIN hlJobs
  /\ \A j \in DOMAIN hlJobs :
       /\ DOMAIN js[j] = DOMAIN hlJobs[j]
       /\ "prev" \in DOMAIN hlJobs[j] => js[j].prev = hlJobs[j].prev
EditsJobs == SameRows(hlJobs')
Adds(js, row) ==
  /\ SameRows(js) /\ hlJobs' = Append(js, row)
  /\ "prev" \in DOMAIN row /\ row.prev \notin {"none", "deleted"}
AddsJob == \E row, js : Adds(js, row)

(* Editing rows in place, or adding one, keeps the queue well formed and loses no row. *)
LEMMA JobsStep ==
  ASSUME JobsFit, EditsJobs \/ AddsJob
  PROVE  JobsFit' /\ DOMAIN hlJobs \subseteq DOMAIN hlJobs'
<1>1. CASE EditsJobs
  BY <1>1 DEF JobsFit, EditsJobs, SameRows
<1>2. CASE AddsJob
  <2>1. PICK row, js : Adds(js, row)
    BY <1>2 DEF AddsJob
  <2>2. PICK n \in Nat : DOMAIN hlJobs = 1 .. n
    BY DEF JobsFit
  <2>3. Len(js) = n
    BY <2>1, <2>2 DEF Adds, SameRows
  <2>4. DOMAIN hlJobs' = 1 .. (n + 1) /\ hlJobs'[n + 1] = row /\ \A j \in 1 .. n : hlJobs'[j] = js[j]
    BY <2>1, <2>2, <2>3 DEF Adds, SameRows
  <2>5. n + 1 \in Nat /\ \A j \in 1 .. (n + 1) : j \in 1 .. n \/ j = n + 1
    BY <2>2
  <2>6. \A j \in DOMAIN hlJobs' : "prev" \in DOMAIN hlJobs'[j] /\ hlJobs'[j].prev \notin {"none", "deleted"}
    BY <2>1, <2>2, <2>4, <2>5 DEF JobsFit, Adds, SameRows
  <2>7. DOMAIN hlJobs \subseteq DOMAIN hlJobs'
    BY <2>2, <2>4
  <2> QED BY <2>4, <2>5, <2>6, <2>7 DEF JobsFit
<1> QED BY <1>1, <1>2

(* A worker that is busy moves on within its job, or rests.                *)
EditsWorker(w) ==
  /\ DOMAIN hlWk' = DOMAIN hlWk
  /\ \A u \in hlScope.workers : u # w => hlWk'[u] = hlWk[u]
  /\ "pc" \in DOMAIN hlWk'[w] /\ "job" \in DOMAIN hlWk'[w]
  /\ hlWk'[w].pc # "idle" => hlWk'[w].job = hlWk[w].job

(* A step of a worker that holds a job leaves all workers with jobs that exist. *)
LEMMA BusyWorker ==
  ASSUME WorkersFit, NEW w \in hlScope.workers, hlWk[w].pc # "idle", EditsWorker(w),
         hlScope' = hlScope, DOMAIN hlJobs \subseteq DOMAIN hlJobs'
  PROVE  WorkersFit'
BY DEF WorkersFit, EditsWorker

(* So does a step that changes no worker. *)
LEMMA RestingWorkers ==
  ASSUME WorkersFit, hlWk' = hlWk, hlScope' = hlScope, DOMAIN hlJobs \subseteq DOMAIN hlJobs'
  PROVE  WorkersFit'
BY DEF WorkersFit

(* The project moves between states in which it holds its storage.         *)
KeepsAccount ==
  /\ desired' = desired /\ allocated' = allocated /\ released' = released
  /\ \/ state' = state
     \/ state \notin {"none", "deleted"} /\ state' \notin {"none", "deleted"}

(* A step that leaves the account alone keeps the invariant. *)
LEMMA AccountStep ==
  ASSUME AccountInv, KeepsAccount, hlScope' = hlScope, JobsFit', WorkersFit',
         state = "none" => DOMAIN hlJobs' = {}
  PROVE  AccountInv'
<1>1. StorageBalance'
  BY DEF AccountInv, KeepsAccount, StorageBalance
<1>2. released' = (state' = "deleted")
  <2>1. CASE state' = state
    BY <2>1, Zenon DEF AccountInv, KeepsAccount
  <2>2. CASE state \notin {"none", "deleted"} /\ state' \notin {"none", "deleted"}
    <3>1. (state = "deleted") = FALSE /\ (state' = "deleted") = FALSE
      BY <2>2
    <3> QED BY <3>1, Zenon DEF AccountInv, KeepsAccount
  <2> QED BY <2>1, <2>2 DEF KeepsAccount
<1>3. state' = "none" => DOMAIN hlJobs' = {}
  BY DEF KeepsAccount
<1> QED BY <1>1, <1>2, <1>3 DEF AccountInv, KeepsAccount

(* What the steps of a busy worker have in common.                         *)
QuietStep(w) == hlWk[w].pc # "idle" /\ EditsWorker(w) /\ EditsJobs /\ KeepsAccount

(* In particular a quiet step of a worker does. *)
LEMMA QuietKeeps ==
  ASSUME AccountInv, NEW w \in hlScope.workers, QuietStep(w), hlScope' = hlScope
  PROVE  AccountInv'
<1>1. JobsFit' /\ DOMAIN hlJobs' = DOMAIN hlJobs
  BY JobsStep DEF AccountInv, QuietStep, EditsJobs, SameRows
<1>2. WorkersFit'
  BY <1>1, BusyWorker DEF AccountInv, QuietStep
<1> QED BY <1>1, <1>2, AccountStep DEF AccountInv, QuietStep

(* Leaving the queue alone edits no row. *)
LEMMA Steady == ASSUME hlJobs' = hlJobs PROVE EditsJobs
BY DEF EditsJobs, SameRows

(* A step of a worker that leaves the project row alone.                   *)
LEMMA ProjectSteady == ASSUME UNCHANGED project PROVE KeepsAccount
BY DEF project, KeepsAccount

(* Moving a worker on edits that worker only. *)
LEMMA Goes ==
  ASSUME WorkersFit, NEW w \in hlScope.workers, NEW pc, WorkerGoes(w, pc)
  PROVE  EditsWorker(w)
BY DEF WorkersFit, WorkerGoes, EditsWorker

(* So does letting it rest. *)
LEMMA Rests ==
  ASSUME WorkersFit, NEW w \in hlScope.workers, Free(w)
  PROVE  EditsWorker(w)
<1>1. "pc" \in DOMAIN IdleWorker /\ "job" \in DOMAIN IdleWorker /\ IdleWorker.pc = "idle"
  BY DEF IdleWorker
<1> QED BY <1>1 DEF WorkersFit, Free, EditsWorker

(* Reserving a provider operation edits the row of the worker's job only. *)
LEMMA Reserves == ASSUME NEW w, NEW step, NEW row, Reserve(w, step, row) PROVE EditsJobs
<1>1. hlJobs' = [hlJobs EXCEPT ![hlWk[w].job].req[step] = @ \union {row}]
  BY DEF Reserve
<1> QED BY <1>1 DEF EditsJobs, SameRows

(* Reading, provider calls and records: the project row is only read.      *)
LEMMA CallsAreQuiet ==
  ASSUME AccountInv, NEW w \in hlScope.workers,
         \/ ReadMachine(w) \/ CheckDrift(w)
         \/ EnsureVolume(w) \/ CreateVolume(w) \/ RecordVolume(w)
         \/ EnsureMachine(w) \/ CreateMachine(w) \/ RecordMachine(w) \/ RecreateMachine(w)
         \/ StopMachine(w) \/ UpdateMachine(w) \/ StartMachine(w) \/ VerifyReadiness(w)
         \/ DestroyMachine(w) \/ RemoveMachine(w) \/ DeleteSecrets(w) \/ SecretsDeleted(w)
         \/ ReadVolume(w) \/ DestroyVolume(w) \/ RemoveVolume(w)
         \/ CompleteJob(w) \/ FailJob(w) \/ AbortJob(w) \/ Crash(w)
  PROVE  QuietStep(w)
<1> USE DEF AccountInv
<1>0. UNCHANGED project /\ hlWk[w].pc # "idle"
  BY DEF ReadMachine, CheckDrift, EnsureVolume, CreateVolume, RecordVolume, EnsureMachine,
     CreateMachine, RecordMachine, RecreateMachine, StopMachine, UpdateMachine, StartMachine,
     VerifyReadiness, DestroyMachine, RemoveMachine, DeleteSecrets, SecretsDeleted, ReadVolume,
     DestroyVolume, RemoveVolume, CompleteJob, FailJob, AbortJob, Crash
<1>1. KeepsAccount
  BY <1>0, ProjectSteady
<1> SUFFICES EditsWorker(w) /\ EditsJobs
  BY <1>0, <1>1 DEF QuietStep
<1>2. CASE ReadMachine(w)
  BY <1>2, Steady DEF ReadMachine, EditsWorker, WorkersFit
<1>3. CASE CheckDrift(w)
  BY <1>3, Steady DEF CheckDrift, EditsWorker, WorkersFit
<1>4. CASE EnsureVolume(w)
  <2>1. EditsWorker(w)
    BY <1>4, Goes DEF EnsureVolume, Conflict
  <2>2. EditsJobs
    BY <1>4, Steady, Reserves DEF EnsureVolume, Conflict
  <2> QED BY <2>1, <2>2
<1>5. CASE CreateVolume(w)
  <2>1. EditsWorker(w)
    BY <1>5, Goes DEF CreateVolume, Conflict, Call, EditsWorker, WorkersFit
  <2>2. EditsJobs
    BY <1>5, Steady, Reserves DEF CreateVolume, Conflict
  <2> QED BY <2>1, <2>2
<1>6. CASE RecordVolume(w) \/ RecordMachine(w) \/ VerifyReadiness(w) \/ RemoveMachine(w) \/ RemoveVolume(w)
  BY <1>6, Goes, Steady DEF RecordVolume, RecordMachine, VerifyReadiness, RemoveMachine, RemoveVolume
<1>7. CASE EnsureMachine(w)
  <2>1. EditsWorker(w)
    <3>1. \/ \E pc : WorkerGoes(w, pc)
          \/ \E id : hlWk' = [hlWk EXCEPT ![w].mach = id, ![w].pc = hlWk[w].after]
      BY <1>7 DEF EnsureMachine, Conflict
    <3> QED BY <3>1, Goes DEF EditsWorker, WorkersFit
  <2>2. EditsJobs
    BY <1>7, Steady, Reserves DEF EnsureMachine, Conflict
  <2> QED BY <2>1, <2>2
<1>8. CASE CreateMachine(w)
  <2>1. EditsWorker(w)
    BY <1>8, Goes DEF CreateMachine, Conflict, Call, EditsWorker, WorkersFit
  <2>2. EditsJobs
    BY <1>8, Steady, Reserves DEF CreateMachine, Conflict
  <2> QED BY <2>1, <2>2
<1>9. CASE RecreateMachine(w)
  <2>1. EditsWorker(w)
    BY <1>9, Goes DEF RecreateMachine, EditsWorker, WorkersFit
  <2> QED BY <1>9, <2>1, Steady DEF RecreateMachine
<1>10. CASE StopMachine(w)
  <2>1. EditsWorker(w)
    <3>1. PICK next, gone :
            \/ Missing(w, gone, "start")
            \/ \E m \in Machine(hlWk[w].mach) :
                 Call(w, Changed(m, "stopped", m.cfg), [hlWk EXCEPT ![w].pc = next])
      BY <1>10 DEF StopMachine
    <3> QED BY <3>1, Goes DEF Missing, Call, EditsWorker, WorkersFit
  <2>2. EditsJobs
    <3>1. hlJobs' = hlJobs \/ \E id : hlJobs' = [hlJobs EXCEPT ![hlWk[w].job].stopped = id]
      BY <1>10 DEF StopMachine, Missing
    <3> QED BY <3>1 DEF EditsJobs, SameRows
  <2> QED BY <2>1, <2>2
<1>11. CASE UpdateMachine(w)
  <2>1. EditsWorker(w)
    BY <1>11, Goes DEF UpdateMachine, Conflict, Missing, Call, EditsWorker, WorkersFit
  <2>2. EditsJobs
    BY <1>11, Steady, Reserves DEF UpdateMachine, Conflict, Missing
  <2> QED BY <2>1, <2>2
<1>12. CASE StartMachine(w) \/ DestroyMachine(w)
  <2>1. EditsWorker(w)
    BY <1>12, Goes DEF StartMachine, DestroyMachine, Missing, Call, EditsWorker, WorkersFit
  <2> QED BY <1>12, <2>1, Steady DEF StartMachine, DestroyMachine, Missing
<1>13. CASE DeleteSecrets(w)
  <2>1. EditsWorker(w)
    BY <1>13, Goes DEF DeleteSecrets, EditsWorker, WorkersFit
  <2>2. EditsJobs
    BY <1>13 DEF DeleteSecrets, EditsJobs, SameRows
  <2> QED BY <2>1, <2>2
<1>14. CASE SecretsDeleted(w)
  BY <1>14, Goes DEF SecretsDeleted, EditsJobs, SameRows
<1>15. CASE ReadVolume(w)
  BY <1>15, Steady DEF ReadVolume, EditsWorker, WorkersFit
<1>16. CASE DestroyVolume(w)
  <2>1. EditsWorker(w)
    BY <1>16, Goes DEF DestroyVolume, Call, EditsWorker, WorkersFit
  <2> QED BY <1>16, <2>1, Steady DEF DestroyVolume
<1>17. CASE CompleteJob(w) \/ FailJob(w)
  <2>1. EditsJobs
    BY <1>17 DEF CompleteJob, FailJob, EditsJobs, SameRows
  <2> QED BY <1>17, <2>1, Rests DEF CompleteJob, FailJob
<1>18. CASE AbortJob(w) \/ Crash(w)
  BY <1>18, Goes, Rests, Steady DEF AbortJob, Crash
<1> QED BY <1>2, <1>3, <1>4, <1>5, <1>6, <1>7, <1>8, <1>9, <1>10, <1>11, <1>12, <1>13, <1>14,
       <1>15, <1>16, <1>17, <1>18

(* The steps that write the project row without the storage in view.  A    *)
(* late write of a worker leaves a deleted project deleted.                *)
LEMMA WritesAreQuiet ==
  ASSUME AccountInv, NEW w \in hlScope.workers,
         \/ ReadIntent(w) \/ ApplyRuntimeConfig(w) \/ MarkProvisionedStopped(w) \/ RecordMachineState(w)
         \/ BeginDelete(w) \/ ApplyEnvironmentDelete(w) \/ DropEnvironment(w) \/ BlockJob(w)
  PROVE  QuietStep(w)
<1>0. hlWk[w].pc # "idle"
  BY DEF ReadIntent, ApplyRuntimeConfig, MarkProvisionedStopped, RecordMachineState, BeginDelete,
     ApplyEnvironmentDelete, DropEnvironment, BlockJob
<1>a. JobsFit /\ WorkersFit /\ hlWk[w].job \in DOMAIN hlJobs /\ state # "none"
  BY <1>0 DEF AccountInv, WorkersFit
<1> SUFFICES EditsWorker(w) /\ EditsJobs /\ KeepsAccount
  BY <1>0 DEF QuietStep
<1>1. CASE ReadIntent(w)
  BY <1>1, <1>a, Steady DEF ReadIntent, EditsWorker, WorkersFit, KeepsAccount
<1>2. CASE ApplyRuntimeConfig(w) \/ DropEnvironment(w)
  BY <1>2, <1>a, Goes, Steady DEF ApplyRuntimeConfig, DropEnvironment, KeepsAccount
<1>3. CASE MarkProvisionedStopped(w)
  BY <1>3, <1>a, Goes, Steady DEF MarkProvisionedStopped, KeepsAccount
<1>4. CASE RecordMachineState(w)
  BY <1>4, <1>a, Goes, Steady DEF RecordMachineState, KeepsAccount
<1>5. CASE BeginDelete(w)
  BY <1>5, <1>a, Steady DEF BeginDelete, EditsWorker, WorkersFit, KeepsAccount
<1>6. CASE ApplyEnvironmentDelete(w)
  BY <1>6, <1>a, Goes, Steady DEF ApplyEnvironmentDelete, KeepsAccount
<1>7. CASE BlockJob(w)
  <2>1. EditsJobs
    <3>1. \/ hlJobs' = hlJobs
          \/ hlJobs' = [hlJobs EXCEPT ![hlWk[w].job].state = "blocked", ![hlWk[w].job].lease = {}]
      BY <1>7 DEF BlockJob
    <3> QED BY <3>1 DEF EditsJobs, SameRows
  <2>2. KeepsAccount
    <3>1. hlJobs[hlWk[w].job].prev \notin {"none", "deleted"}
      BY <1>a DEF JobsFit
    <3> QED BY <1>7, <3>1 DEF BlockJob, KeepsAccount
  <2> QED BY <1>7, <1>a, <2>1, <2>2, Rests DEF BlockJob
<1> QED BY <1>1, <1>2, <1>3, <1>4, <1>5, <1>6, <1>7

(* The size of a configuration is a natural number. *)
LEMMA SizeIsNat == ASSUME NEW c \in Configs PROVE SizeOf[c] \in Nat
BY SizeAssumption

(* The release: once, whoever comes second finds its key in the ledger.    *)
LEMMA ReleaseKeeps ==
  ASSUME AccountInv, state # "none", ReleaseAndMarkDeleted, desired' = desired
  PROVE  StorageBalance' /\ released' = (state' = "deleted") /\ state' = "deleted" /\ desired' \in Configs
<1>1. desired \in Configs /\ SizeOf[desired] \in Nat
  BY SizeIsNat DEF AccountInv
<1>2. state' = "deleted" /\ released' = TRUE
  BY DEF ReleaseAndMarkDeleted
<1>3. allocated' = 0
  <2>1. CASE state = "deleted"
    <3>1. released = TRUE /\ allocated = 0
      BY <2>1 DEF AccountInv, StorageBalance
    <3> QED BY <3>1 DEF ReleaseAndMarkDeleted
  <2>2. CASE state # "deleted"
    <3>1. released = FALSE /\ allocated = SizeOf[desired]
      BY <2>2 DEF AccountInv, StorageBalance
    <3> QED BY <3>1, <1>1 DEF ReleaseAndMarkDeleted
  <2> QED BY <2>1, <2>2
<1> QED BY <1>1, <1>2, <1>3 DEF StorageBalance

(* The end of a deletion keeps the invariant. *)
LEMMA MarkDeletedKeeps ==
  ASSUME AccountInv, NEW w \in hlScope.workers, MarkDeleted(w), hlScope' = hlScope
  PROVE  AccountInv'
<1>1. hlWk[w].pc # "idle" /\ hlJobs' = hlJobs /\ EditsWorker(w)
  BY Goes DEF MarkDeleted, AccountInv
<1>2. state # "none" /\ WorkersFit' /\ JobsFit'
  BY <1>1, BusyWorker DEF AccountInv, WorkersFit, JobsFit
<1> QED BY <1>1, <1>2, ReleaseKeeps DEF MarkDeleted, AccountInv

(* Claiming a job keeps the invariant. *)
LEMMA ClaimKeeps ==
  ASSUME AccountInv, NEW w \in hlScope.workers, Claim(w), hlScope' = hlScope
  PROVE  AccountInv'
<1>1. PICK j \in DOMAIN hlJobs :
        /\ hlJobs' = [hlJobs EXCEPT ![j].state = "running", ![j].lease = {w}, ![j].expired = FALSE]
        /\ hlWk' = [hlWk EXCEPT ![w] = [IdleWorker EXCEPT !.job = j, !.pc = FirstStep(hlJobs[j].type)]]
  BY DEF Claim
<1>2. EditsJobs
  BY <1>1 DEF EditsJobs, SameRows
<1>3. JobsFit' /\ DOMAIN hlJobs' = DOMAIN hlJobs
  BY <1>2, JobsStep DEF AccountInv, EditsJobs, SameRows
<1>4. WorkersFit'
  <2>1. hlWk'[w].job = j /\ "pc" \in DOMAIN hlWk'[w] /\ "job" \in DOMAIN hlWk'[w]
    BY <1>1 DEF AccountInv, WorkersFit, IdleWorker
  <2>2. DOMAIN hlWk' = DOMAIN hlWk /\ \A u \in hlScope.workers : u # w => hlWk'[u] = hlWk[u]
    BY <1>1 DEF AccountInv, WorkersFit
  <2> QED BY <2>1, <2>2, <1>3 DEF AccountInv, WorkersFit
<1>5. KeepsAccount
  BY ProjectSteady DEF Claim
<1> QED BY <1>3, <1>4, <1>5, AccountStep DEF AccountInv

(* The passing of a backoff or of a lease keeps the invariant. *)
LEMMA QueueKeeps ==
  ASSUME AccountInv, NEW j \in DOMAIN hlJobs, BackoffOver(j) \/ ExpireLease(j), hlScope' = hlScope
  PROVE  AccountInv'
<1>1. EditsJobs
  BY DEF BackoffOver, ExpireLease, EditsJobs, SameRows
<1>2. JobsFit' /\ DOMAIN hlJobs' = DOMAIN hlJobs /\ WorkersFit'
  BY <1>1, JobsStep, RestingWorkers DEF AccountInv, EditsJobs, SameRows, BackoffOver, ExpireLease
<1>3. KeepsAccount
  BY ProjectSteady DEF BackoffOver, ExpireLease
<1> QED BY <1>2, <1>3, AccountStep DEF AccountInv

(* A new row remembers the state it was queued from. *)
LEMMA NewJobRow ==
  ASSUME NEW type, NEW prev
  PROVE  "prev" \in DOMAIN NewJob(type, prev) /\ NewJob(type, prev).prev = prev
BY DEF NewJob

(* A job that restores nothing.                                            *)
LEMMA NoPrevious == "" \notin {"none", "deleted"}
BY Zenon

(* Creating the project, which takes its storage, keeps the invariant. *)
LEMMA CreateKeeps ==
  ASSUME AccountInv, NEW c \in hlScope.configs, CreateIntent(c), hlScope' = hlScope
  PROVE  AccountInv'
<1>1. c \in Configs /\ SizeOf[c] \in Nat
  BY SizeIsNat, ScopeAssumption DEF AccountInv
<1>2. state = "none" /\ allocated = 0 /\ released = FALSE
  BY DEF CreateIntent, AccountInv, StorageBalance
<1>3. state' = "provisioning_storage" /\ desired' = c /\ released' = FALSE /\ allocated' = 0 + SizeOf[c]
  BY <1>2 DEF CreateIntent
<1>4. StorageBalance' /\ released' = (state' = "deleted")
  <2>1. (state' = "deleted") = FALSE
    BY <1>3
  <2>2. allocated' = SizeOf[c]
    BY <1>1, <1>3
  <2>3. StorageBalance'
    BY <1>3, <2>2 DEF StorageBalance
  <2> QED BY <1>3, <2>1, <2>3, Zenon
<1>5. hlJobs' = Append(hlJobs, NewJob("create", "")) /\ hlWk' = hlWk
  BY DEF CreateIntent
<1>6. AddsJob
  BY <1>5, NewJobRow, NoPrevious DEF AddsJob, Adds, SameRows
<1>7. JobsFit' /\ WorkersFit'
  BY <1>5, <1>6, JobsStep, RestingWorkers DEF AccountInv
<1> QED BY <1>1, <1>3, <1>4, <1>7 DEF AccountInv

(* Changing the wanted size, which moves storage, keeps the invariant. *)
LEMMA UpdateKeeps ==
  ASSUME AccountInv, NEW c \in hlScope.configs, UpdateDesired(c), hlScope' = hlScope
  PROVE  AccountInv'
<1>1. c \in Configs /\ SizeOf[c] \in Nat
  BY SizeIsNat, ScopeAssumption DEF AccountInv
<1>2. state \notin {"none", "deleted"} /\ SizeOf[desired] \in Nat /\ allocated = SizeOf[desired]
  BY SizeIsNat DEF UpdateDesired, AccountInv, StorageBalance
<1>3. state' = state /\ desired' = c /\ released' = released
      /\ allocated' = (allocated + SizeOf[c]) - SizeOf[desired]
  BY DEF UpdateDesired
<1>4. allocated' = SizeOf[c]
  BY <1>1, <1>2, <1>3
<1>5. StorageBalance'
  BY <1>2, <1>3, <1>4 DEF StorageBalance
<1>6. hlJobs' = hlJobs /\ hlWk' = hlWk
  BY DEF UpdateDesired
<1>7. JobsFit' /\ WorkersFit'
  BY <1>6, RestingWorkers DEF AccountInv, JobsFit
<1>8. released' = (state' = "deleted")
  BY <1>3, Zenon DEF AccountInv
<1> QED BY <1>1, <1>2, <1>3, <1>5, <1>7, <1>8 DEF AccountInv

(* A request that only queues a job keeps the invariant. *)
LEMMA RequestKeeps ==
  ASSUME AccountInv, hlScope' = hlScope, hlWk' = hlWk, state # "none",
         EditsJobs \/ AddsJob, KeepsAccount
  PROVE  AccountInv'
<1>1. JobsFit' /\ WorkersFit'
  BY JobsStep, RestingWorkers DEF AccountInv
<1> QED BY <1>1, AccountStep

(* Queueing a start, stop or restart keeps the invariant. *)
LEMMA LifecycleKeeps ==
  ASSUME AccountInv, NEW type \in {"start", "stop", "restart"}, QueueLifecycleJob(type), hlScope' = hlScope
  PROVE  AccountInv'
<1>1. Target(type) \in {"starting", "stopping", "restarting"}
  BY DEF Target
<1>2. KeepsAccount
  BY <1>1 DEF QueueLifecycleJob, KeepsAccount
<1>3. AddsJob
  BY NewJobRow DEF QueueLifecycleJob, AddsJob, Adds, SameRows
<1> QED BY <1>2, <1>3, RequestKeeps DEF QueueLifecycleJob

(* A stop for want of credit keeps the invariant. *)
LEMMA EnforcementKeeps ==
  ASSUME AccountInv, EnforcementStop, hlScope' = hlScope
  PROVE  AccountInv'
<1>1. KeepsAccount
  BY DEF EnforcementStop, KeepsAccount
<1>2. EditsJobs \/ AddsJob
  <2>1. CASE hlJobs' = Append(hlJobs, NewJob("enforce", "running"))
    BY <2>1, NewJobRow DEF AddsJob, Adds, SameRows
  <2>2. ASSUME NEW j \in DOMAIN hlJobs, hlJobs' = [hlJobs EXCEPT ![j].state = "queued", ![j].backoff = FALSE]
        PROVE  EditsJobs
    BY <2>2 DEF EditsJobs, SameRows
  <2> QED BY <2>1, <2>2 DEF EnforcementStop
<1> QED BY <1>1, <1>2, RequestKeeps DEF EnforcementStop

(* Asking for the deletion keeps the invariant. *)
LEMMA DeletingKeeps ==
  ASSUME AccountInv, MarkDeleting, hlScope' = hlScope
  PROVE  AccountInv'
<1>1. state \notin {"none", "deleted"} /\ desired' = desired /\ hlWk' = hlWk
  BY DEF MarkDeleting
<1>2. SameRows(Superseded(hlJobs))
  BY DEF Superseded, SameRows
<1>3. EditsJobs \/ AddsJob
  <2>1. CASE hlJobs' = Superseded(hlJobs)
    BY <1>2, <2>1 DEF EditsJobs, SameRows
  <2>2. CASE hlJobs' = Append(Superseded(hlJobs), NewJob("delete", ""))
    BY <1>2, <2>2, NewJobRow, NoPrevious DEF AddsJob, Adds, SameRows
  <2> QED BY <2>1, <2>2 DEF MarkDeleting
<1>4. CASE volRec # 0 \/ machRec # 0
  <2>1. KeepsAccount
    BY <1>1, <1>4 DEF MarkDeleting, KeepsAccount
  <2> QED BY <2>1, <1>1, <1>3, RequestKeeps
<1>5. CASE ~(volRec # 0 \/ machRec # 0)
  <2>1. ReleaseAndMarkDeleted
    BY <1>5 DEF MarkDeleting
  <2>2. JobsFit' /\ WorkersFit'
    BY <1>1, <1>3, JobsStep, RestingWorkers DEF AccountInv
  <2> QED BY <1>1, <2>1, <2>2, ReleaseKeeps DEF AccountInv
<1> QED BY <1>4, <1>5

(* Every step keeps the invariant. *)
LEMMA AccountNext == AccountInv /\ [HlNext]_hlVars => AccountInv'
<1> SUFFICES ASSUME AccountInv, [HlNext]_hlVars PROVE AccountInv'
  OBVIOUS
<1>1. CASE UNCHANGED hlVars
  <2>1. hlJobs' = hlJobs /\ hlWk' = hlWk /\ hlScope' = hlScope /\ KeepsAccount
    BY <1>1, ProjectSteady DEF hlVars, hlWork, project
  <2>2. JobsFit' /\ WorkersFit'
    BY <2>1, JobsStep, Steady, RestingWorkers DEF AccountInv
  <2> QED BY <2>1, <2>2, AccountStep DEF AccountInv
<1>2. CASE HlNext
  <2>0. hlScope' = hlScope
    BY <1>2 DEF HlNext
  <2>1. CASE Owner
    BY <2>0, <2>1, CreateKeeps, UpdateKeeps, LifecycleKeeps, DeletingKeeps DEF Owner
  <2>2. CASE EnforcementStop
    BY <2>0, <2>2, EnforcementKeeps
  <2>3. ASSUME NEW w \in hlScope.workers, Claim(w) \/ Work(w) \/ AbortJob(w) \/ Crash(w)
        PROVE  AccountInv'
    <3>1. Claim(w) \/ MarkDeleted(w) \/ QuietStep(w)
      BY <2>3, CallsAreQuiet, WritesAreQuiet DEF Work
    <3> QED BY <2>0, <3>1, ClaimKeeps, MarkDeletedKeeps, QuietKeeps
  <2>4. ASSUME NEW j \in DOMAIN hlJobs, BackoffOver(j) \/ ExpireLease(j)
        PROVE  AccountInv'
    BY <2>0, <2>4, QueueKeeps
  <2>5. CASE LoseMachine
    <3>1. hlJobs' = hlJobs /\ hlWk' = hlWk /\ KeepsAccount
      BY <2>5, ProjectSteady DEF LoseMachine
    <3>2. JobsFit' /\ WorkersFit'
      BY <2>0, <3>1, JobsStep, Steady, RestingWorkers DEF AccountInv
    <3> QED BY <2>0, <3>1, <3>2, AccountStep DEF AccountInv
  <2> QED BY <1>2, <2>1, <2>2, <2>3, <2>4, <2>5 DEF HlNext
<1> QED BY <1>1, <1>2

(* The storage account is charged exactly for the size the live project    *)
(* asks for, for any configurations, workers, requests, crashes and        *)
(* overlapping leases (reserveStorageTx, MarkDeletedAndReleaseStorage,     *)
(* UpdateOrchestratedProjectState).                                        *)
THEOREM StorageBalanceAlways == HlSpec => []StorageBalance
<1>1. AccountInv => StorageBalance
  BY DEF AccountInv
<1> QED BY <1>1, AccountInit, AccountNext, PTL DEF HlSpec

(* A deleted project stays deleted, and its storage released: no request   *)
(* and no late write of a worker brings it back (UpdateOrchestratedProject-*)
(* State, MarkProvisionedStopped, queueSystemStopTx).                      *)
THEOREM DeletedForGood == HlSpec => [][state = "deleted" => state' = "deleted" /\ released']_hlVars
<1>1. AccountInv /\ AccountInv' /\ [HlNext]_hlVars =>
        [state = "deleted" => state' = "deleted" /\ released']_hlVars
  <2> SUFFICES ASSUME AccountInv, AccountInv', HlNext, state = "deleted" PROVE state' = "deleted"
    BY DEF AccountInv
  <2>1. CASE Owner
    BY <2>1 DEF Owner, CreateIntent, UpdateDesired, QueueLifecycleJob, MarkDeleting
  <2>2. CASE EnforcementStop
    BY <2>2 DEF EnforcementStop
  <2>3. ASSUME NEW w \in hlScope.workers, Claim(w) \/ Work(w) \/ AbortJob(w) \/ Crash(w)
        PROVE  state' = "deleted"
    <3>1. Claim(w) \/ MarkDeleted(w) \/ QuietStep(w)
      BY <2>3, CallsAreQuiet, WritesAreQuiet DEF Work
    <3> QED BY <3>1 DEF Claim, project, MarkDeleted, ReleaseAndMarkDeleted, QuietStep, KeepsAccount
  <2>4. ASSUME NEW j \in DOMAIN hlJobs, BackoffOver(j) \/ ExpireLease(j)
        PROVE  state' = "deleted"
    BY <2>4 DEF BackoffOver, ExpireLease, project
  <2>5. CASE LoseMachine
    BY <2>5 DEF LoseMachine, project
  <2> QED BY <2>1, <2>2, <2>3, <2>4, <2>5 DEF HlNext
<1> QED BY <1>1, AccountInit, AccountNext, PTL DEF HlSpec

=============================================================================
