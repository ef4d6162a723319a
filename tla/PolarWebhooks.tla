---------------------------- MODULE PolarWebhooks ----------------------------
(***************************************************************************)
(* What Polar's webhooks do to one user's account (internal/billing): the  *)
(* subscription row, the credit ledger and balance, and the storage        *)
(* account, together with the requests that use the account in between:    *)
(* downgrades, storage reservations of projects and debits of runtime.     *)
(*                                                                         *)
(* Polar (external) changes the subscription and sends one event for each  *)
(* change and order.  An event may be delivered late, out of order and     *)
(* several times.  A delivery is one transaction: it records the event id, *)
(* applies the event, or rolls everything back and is sent again.          *)
(*                                                                         *)
(* Products are numbered by rank.  A trial product becomes the plan it     *)
(* converts to once the subscription is active.  An event carries the      *)
(* subscription's state when it was sent and the part of the period left,  *)
(* in halves.                                                              *)
(***************************************************************************)
EXTENDS Integers, Sequences, FiniteSets, FiniteSetsExt

CONSTANTS
  Products,    \* plans by rank, a set of positive numbers
  Trials,      \* the products that are trials
  ConvertsTo,  \* the plan a product stands for once active
  Credits,     \* credits a plan includes per period
  Storage,     \* storage a plan includes
  TopUp,       \* credits of a top-up order
  MaxEvents,   \* bound on events
  MaxPeriod,   \* bound on billing periods
  MaxSeats,    \* bound on storage seats (one unit of storage each)
  MaxDebits    \* bound on runtime debits

ASSUME ProductAssumption ==
  /\ Products \subseteq Nat \ {0} /\ Trials \subseteq Products
  /\ ConvertsTo \in [Products -> Products]
  /\ Credits \in [Products -> Nat] /\ Storage \in [Products -> Nat]
ASSUME BoundAssumption == TopUp \in Nat /\ MaxEvents \in Nat /\ MaxPeriod \in Nat /\ MaxSeats \in Nat /\ MaxDebits \in Nat

VARIABLES
  polar,      \* the subscription at Polar
  sent,       \* the events Polar has sent, their ids are their positions
  processed,  \* ids in polar_events
  sub,        \* the subscriptions row
  account,    \* the storage account
  balance,    \* credit_accounts.balance
  ledger,     \* credit ledger entries: key and signed amount
  allotments, \* included-storage ledger entries: their key and amount
  request,    \* the downgrade request under way: its plan and progress
  excuses,    \* history: ways in which a pending plan may stop fitting
  disordered  \* history: an event was applied after a later one

server == <<sub, account, balance, ledger, allotments>>
vars == <<polar, sent, processed, server, request, excuses, disordered>>

Entitling == {"active", "trialing"}
NoRequest == [pc |-> "idle", plan |-> 0]

Init ==
  /\ polar = [status |-> "none", product |-> 0, period |-> 0, seats |-> 0, next |-> 0]
  /\ sent = <<>> /\ processed = {}
  /\ sub = [state |-> "none", plan |-> 0, period |-> 0, pending |-> 0]
  /\ account = [included |-> 0, purchased |-> 0, allocated |-> 0]
  /\ balance = 0 /\ ledger = {} /\ allotments = {}
  /\ request = NoRequest /\ excuses = {} /\ disordered = FALSE

-----------------------------------------------------------------------------
(* Polar (external): the subscription starts, renews, changes its product  *)
(* or seats, and ends; top-ups are bought; top-ups and plans are refunded. *)

Send(type, p, left) ==
  /\ Len(sent) < MaxEvents
  /\ polar' = p
  /\ sent' = Append(sent, [type |-> type, status |-> p.status, product |-> p.product, period |-> p.period,
                           seats |-> p.seats, left |-> left])
  /\ UNCHANGED <<processed, server, request, excuses, disordered>>

Subscribe(r) ==
  /\ polar.status = "none"
  /\ Send("subscription", [status |-> IF r \in Trials THEN "trialing" ELSE "active", product |-> r, period |-> 1,
                           seats |-> 0, next |-> 0], 2)

Renew ==
  /\ polar.status \in Entitling /\ polar.period < MaxPeriod
  /\ Send("subscription", [polar EXCEPT !.status = "active", !.product = IF polar.next = 0 THEN @ ELSE polar.next,
                                       !.period = @ + 1, !.next = 0], 2)

Switch(r, left) ==
  /\ polar.status = "active" /\ r # polar.product /\ r \notin Trials
  /\ Send("subscription", [polar EXCEPT !.product = r, !.next = 0], left)

ChangeSeats(n) ==
  /\ polar.status = "active" /\ n # polar.seats
  /\ Send("subscription", [polar EXCEPT !.seats = n], 2)

Cancel ==
  /\ polar.status \in Entitling
  /\ Send("subscription", [polar EXCEPT !.status = "canceled", !.next = 0], 0)

Sent(type) == {i \in 1..Len(sent) : sent[i].type = type}

Order(type) ==
  /\ polar.status # "none"
  /\ type = "topup.refunded" => Cardinality(Sent("topup.refunded")) < Cardinality(Sent("topup.paid"))
  /\ Send(type, polar, 0)

-----------------------------------------------------------------------------
(* Credits.  An entry counts once: a key that is already in the ledger     *)
(* changes neither the ledger nor the balance.                             *)

InsertCreditLedgerTwice(entries) ==
  /\ ledger' = ledger \union {x \in entries : \A y \in ledger : y.key # x.key}
  /\ balance' = balance + MapThenSumSet(LAMBDA x : x.amount, entries)

InsertCreditLedger(entries) ==
  LET new == {x \in entries : \A y \in ledger : y.key # x.key} IN
  /\ ledger' = ledger \union new
  /\ balance' = balance + MapThenSumSet(LAMBDA x : x.amount, new)

(* applyPlanWebhook grants a period's credits with its first entitling     *)
(* event; a change of plan within the period is prorated, and takes back   *)
(* no more than the balance.                                               *)
PlanOf(e) == IF e.status = "active" THEN ConvertsTo[e.product] ELSE e.product

HasSubscriptionPeriodCreditsOfProduct(e) == \E x \in ledger : x.key = <<"plan", e.period, e.product>>

HasSubscriptionPeriodCredits(e) == \E x \in ledger : x.key[1] \in {"plan", "switch"} /\ x.key[2] = e.period

ProratedCreditDelta(e) == ((Credits[PlanOf(e)] - Credits[sub.plan]) * e.left) \div 2

IsMidPeriodSwitch(e) ==
  sub.state # "none" /\ sub.plan # PlanOf(e) /\ HasSubscriptionPeriodCredits(e) /\ sub.period = e.period

PlanSwitchEntries(e, i) ==
  LET delta == ProratedCreditDelta(e) IN
  IF delta > 0 \/ (delta < 0 /\ balance > 0)
    THEN {[key |-> <<"switch", e.period, i>>, amount |-> IF delta < -balance THEN -balance ELSE delta]}
    ELSE {}

PlanEntries(e, i) ==
  IF IsMidPeriodSwitch(e) THEN PlanSwitchEntries(e, i)
  ELSE IF HasSubscriptionPeriodCredits(e) THEN {}
  ELSE {[key |-> <<"plan", e.period, e.product>>, amount |-> Credits[PlanOf(e)]]}

-----------------------------------------------------------------------------
(* Storage.  The plan's storage and the seats' storage are set one after   *)
(* the other; each must leave the projects' storage covered, and the       *)
(* plan's storage must agree with the entry of the same period and product *)
(* if there is one, or the whole event is refused.                         *)

InsertStorageLedgerIdempotent(key, amount) ==
  /\ \A x \in allotments : x.key = key => x.amount = amount
  /\ allotments' = allotments \union {[key |-> key, amount |-> amount]}

SetStorageUnchecked(e, plan) ==
  /\ account' = [account EXCEPT !.included = Storage[plan], !.purchased = e.seats]
  /\ InsertStorageLedgerIdempotent(<<e.period, e.product>>, Storage[plan])

SetStorage(e, plan) ==
  /\ account.allocated <= Storage[plan] + account.purchased
  /\ account.allocated <= Storage[plan] + e.seats
  /\ account' = [account EXCEPT !.included = Storage[plan], !.purchased = e.seats]
  /\ InsertStorageLedgerIdempotent(<<e.period, e.product>>, Storage[plan])

-----------------------------------------------------------------------------
(* The handlers of the events.                                             *)

ApplyEntitlingWebhook(e, i) ==
  LET plan == PlanOf(e) IN
  IF e.status \in Entitling
    THEN /\ sub' = [state |-> e.status, plan |-> plan, period |-> e.period,
                    pending |-> IF sub.pending = plan THEN 0 ELSE sub.pending]
         /\ InsertCreditLedger(PlanEntries(e, i)) /\ SetStorage(e, plan)
    ELSE UNCHANGED <<sub, account, balance, ledger, allotments>>

ApplyPlanWebhook(e, i) ==
  LET plan == PlanOf(e) IN
  /\ sub' = [state |-> e.status, plan |-> plan, period |-> e.period,
             pending |-> IF sub.pending = plan THEN 0 ELSE sub.pending]
  /\ \/ /\ e.status \in Entitling
        /\ InsertCreditLedger(PlanEntries(e, i)) /\ SetStorage(e, plan)
     \/ e.status \notin Entitling /\ UNCHANGED <<account, balance, ledger, allotments>>

(* A refund names no status, so the state comes from the event's type; no  *)
(* kind of refund, chargeback or dispute is among the types with a state.  *)
SubscriptionState(status) == IF status = "" THEN "active" ELSE status

ApplyRefundWebhook(e, i) ==
  \/ /\ e.type = "plan.refunded"
     /\ sub' = IF sub.state = "none" THEN sub ELSE [sub EXCEPT !.state = SubscriptionState("")]
     /\ UNCHANGED <<account, balance, ledger, allotments>>
  \/ /\ e.type = "topup.refunded" /\ balance >= TopUp
     /\ InsertCreditLedger({[key |-> <<"refund", i>>, amount |-> -TopUp]})
     /\ UNCHANGED <<sub, account, allotments>>

ApplyTopup(e, i) ==
  /\ e.type = "topup.paid"
  /\ InsertCreditLedger({[key |-> <<"topup", i>>, amount |-> TopUp]})
  /\ UNCHANGED <<sub, account, allotments>>

RecordPolarEvent(i) ==
  /\ i \in DOMAIN sent /\ i \notin processed
  /\ processed' = processed \union {i}
  /\ \/ sent[i].type = "subscription" /\ ApplyPlanWebhook(sent[i], i)
     \/ ApplyRefundWebhook(sent[i], i)
     \/ ApplyTopup(sent[i], i)
  /\ disordered' = (disordered \/ \E j \in processed : j > i)
  /\ excuses' = IF account'.purchased < account.purchased THEN excuses \union {"seats"} ELSE excuses
  /\ UNCHANGED <<polar, sent, request>>

-----------------------------------------------------------------------------
(* A downgrade through the server: checked against the storage in use,     *)
(* recorded as the pending plan, and only then sent to Polar, which may    *)
(* refuse it.                                                              *)

CheckDowngrade(r) ==
  /\ request.pc = "idle" /\ sub.state \in Entitling /\ r < sub.plan /\ r \notin Trials
  /\ account.allocated <= Storage[r] + account.purchased
  /\ request' = [pc |-> "checked", plan |-> r]
  /\ UNCHANGED <<polar, sent, processed, server, excuses, disordered>>

SetPendingSubscriptionPlan ==
  /\ request.pc = "checked"
  /\ sub' = [sub EXCEPT !.pending = request.plan]
  /\ request' = [request EXCEPT !.pc = "recorded"]
  /\ UNCHANGED <<polar, sent, processed, account, balance, ledger, allotments, excuses, disordered>>

UpdateSubscription ==
  /\ request.pc = "recorded" /\ request' = NoRequest
  /\ \/ polar.status = "active" /\ polar' = [polar EXCEPT !.next = request.plan] /\ UNCHANGED sub
     \/ sub' = [sub EXCEPT !.pending = 0] /\ UNCHANGED polar
  /\ UNCHANGED <<sent, processed, account, balance, ledger, allotments, excuses, disordered>>

-----------------------------------------------------------------------------
(* A project reserves or releases a unit of storage.  A pending plan       *)
(* already limits what can be reserved (GetStorageAccountForUpdate).       *)

IncludedNow == account.included

IncludedForReservation ==
  IF sub.state \in Entitling /\ sub.pending # 0 /\ Storage[sub.pending] < account.included
    THEN Storage[sub.pending] ELSE account.included

ReserveStorage ==
  /\ account.allocated + 1 <= IncludedForReservation + account.purchased
  /\ account' = [account EXCEPT !.allocated = @ + 1]
  /\ excuses' = excuses \union (IF request.pc = "checked" THEN {"race"} ELSE {})
                        \union (IF sub.state \notin Entitling THEN {"lapsed"} ELSE {})
  /\ UNCHANGED <<polar, sent, processed, sub, balance, ledger, allotments, request, disordered>>

ReleaseStorage ==
  /\ account.allocated >= 1
  /\ account' = [account EXCEPT !.allocated = @ - 1]
  /\ UNCHANGED <<polar, sent, processed, sub, balance, ledger, allotments, request, excuses, disordered>>

(* A debit of runtime; a retry with the same key finds the entry.          *)
DebitCredits(n) ==
  /\ balance >= 1 \/ \E x \in ledger : x.key = <<"debit", n>>
  /\ InsertCreditLedger({[key |-> <<"debit", n>>, amount |-> -1]})
  /\ UNCHANGED <<polar, sent, processed, sub, account, allotments, request, excuses, disordered>>

Next ==
  \/ \E r \in Products : Subscribe(r) \/ \E left \in 0..2 : Switch(r, left)
  \/ Renew \/ Cancel
  \/ \E n \in 0..MaxSeats : ChangeSeats(n)
  \/ \E type \in {"topup.paid", "topup.refunded", "plan.refunded"} : Order(type)
  \/ \E i \in 1..MaxEvents : RecordPolarEvent(i)
  \/ \E r \in Products : CheckDowngrade(r)
  \/ SetPendingSubscriptionPlan \/ UpdateSubscription
  \/ ReserveStorage \/ ReleaseStorage
  \/ \E n \in 1..MaxDebits : DebitCredits(n)

Spec == Init /\ [][Next]_vars

-----------------------------------------------------------------------------
(* The rows and the events have their types, and no account goes below     *)
(* zero (the CHECK constraints of credit_accounts and storage_accounts).   *)
Statuses == {"none", "active", "trialing", "canceled"}
TypeOK ==
  /\ polar \in [status : Statuses, product : Products \union {0}, period : Nat, seats : 0..MaxSeats,
                 next : Products \union {0}]
  /\ processed \subseteq 1..Len(sent)
  /\ sub \in [state : Statuses, plan : Products \union {0}, period : Nat, pending : Products \union {0}]
  /\ account \in [included : Nat, purchased : Nat, allocated : Nat]
  /\ balance \in Nat
  /\ request \in [pc : {"idle", "checked", "recorded"}, plan : Products \union {0}]
  /\ excuses \subseteq {"seats", "race", "lapsed"} /\ disordered \in BOOLEAN

(* The balance is the sum of the ledger: duplicated and reordered events,  *)
(* refunds, prorated switches and debits never move one without the other  *)
(* (insertCreditLedger).                                                   *)
BalanceIsLedger == balance = MapThenSumSet(LAMBDA x : x.amount, ledger)

(* A period's included credits are granted at most once, whichever of the  *)
(* period's events arrive first and whatever plans they name               *)
(* (HasSubscriptionPeriodCredits in applyPlanWebhook).                     *)
PeriodGrantedOnce ==
  \A x, y \in ledger : x.key[1] = "plan" /\ y.key[1] = "plan" /\ x.key[2] = y.key[2] => x = y

(* The storage of the projects is covered by the plan's and the seats'     *)
(* storage, whatever events shrink them (setIncludedStorageTx,             *)
(* setPurchasedStorageTx).                                                 *)
NoOverAllocation == account.allocated <= account.included + account.purchased

(* A recorded downgrade keeps fitting the storage in use, so that its      *)
(* webhook can be applied: reservations already respect the pending plan.  *)
(* The three excuses are a reservation between the check and the record,   *)
(* one while the subscription is not active, and a loss of seats.          *)
PendingPlanFits ==
  excuses = {} /\ sub.state \in Entitling /\ sub.pending # 0
  => account.allocated <= Storage[sub.pending] + account.purchased

(* Once every event has been applied, in order and without a plan refund,  *)
(* the row says what Polar says (UpsertPolarSubscription).                 *)
RowConverges ==
  ~disordered /\ processed = 1..Len(sent) /\ Sent("plan.refunded") = {} /\ polar.status # "none"
  => sub.state = polar.status /\ sub.plan = PlanOf(polar) /\ sub.period = polar.period

(* "Refund, chargeback, or dispute webhooks ... move matching plan         *)
(* subscriptions into a non-active state" (docs/contracts/decisions.md):   *)
(* after a plan refund is applied the subscription no longer entitles      *)
(* (applyRefundWebhook).                                                   *)
RefundDeactivates ==
  [][\A i \in processed' \ processed : sent[i].type = "plan.refunded" => sub'.state \notin Entitling]_vars

-----------------------------------------------------------------------------
(* The catalogue that is model-checked: a trial (1) that becomes the large *)
(* plan (3), and a small plan (2).                                         *)
MCConvertsTo == <<3, 2, 3>>
MCCredits == <<2, 2, 4>>
MCStorage == <<1, 1, 2>>

=============================================================================
