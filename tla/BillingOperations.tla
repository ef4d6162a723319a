-------------------------- MODULE BillingOperations --------------------------
(***************************************************************************)
(* The billing requests of one user that call Polar (internal/billing):    *)
(* customer portal sessions, plan changes of an active subscription,       *)
(* checkouts of a first subscription, and the automatic credit top-ups of  *)
(* the top-up worker.  Each is guarded by a row that reserves the          *)
(* request's idempotency key before the call and records the outcome       *)
(* after it; an outcome nobody knows is "uncertain" and waits for an       *)
(* administrator.                                                          *)
(*                                                                         *)
(* A handler is one HTTP request or one turn of a top-up worker.  The key  *)
(* of a top-up is the version of the credit account.  A top-up attempt's   *)
(* states reserved and created are called pending and succeeded.  Each     *)
(* database statement and each provider call is a step; other handlers,    *)
(* webhooks, the administrator, and a cancelled request context or a crash *)
(* come between any two.                                                   *)
(* Plans are numbered by rank; requests without a plan carry rank 0.       *)
(***************************************************************************)
EXTENDS Naturals

CONSTANTS
  Handlers,    \* concurrent requests
  Keys,        \* idempotency keys of the user's clients and credit versions
  Ranks,       \* plans on offer, by rank
  MaxRequests, \* bound on requests
  MaxFaults    \* bound on refused or ambiguous calls and lost handlers

ASSUME RankAssumption == Ranks \subseteq Nat \ {0}
ASSUME BoundAssumption == MaxRequests \in Nat /\ MaxFaults \in Nat

VARIABLES
  active,    \* the user has an active Polar subscription
  plan,      \* subscriptions.active_plan_version_id, as a rank
  pending,   \* subscriptions.pending_plan_version_id, 0 for NULL
  policy,    \* credit_auto_topup_policies.enabled
  ops,       \* portal and subscription update operations, auto top-up attempts
  checkout,  \* the user's row of billing_checkout_reservations
  hs,        \* the handlers
  effects,   \* how often the provider carried out the call of a key
  product,   \* plan of the checkout the provider made for a key
  paid,      \* keys of checkouts the user has paid for
  next,      \* plan the provider switches to, now or at the end of the period (0: none)
  requests,  \* requests so far
  faults,    \* faults so far
  lapsed     \* history: a checkout reservation ran out

subscription == <<active, plan, pending>>
rows == <<subscription, policy, ops, checkout>>
polar == <<effects, product, paid, next>>
vars == <<rows, hs, polar, requests, faults, lapsed>>

OpKinds == {"portal", "update", "topup"}
Kinds == OpKinds \union {"checkout"}
NoOp == [state |-> "none", req |-> <<0, "">>]
NoReservation == [state |-> "none", key |-> "", url |-> FALSE, expired |-> FALSE]
Request(kind, k, req) == [pc |-> "reserve", kind |-> kind, key |-> k, req |-> req, reply |-> ""]
Idle == [pc |-> "idle", kind |-> "portal", key |-> "", req |-> <<0, "">>, reply |-> ""]

Init ==
  /\ active \in BOOLEAN /\ plan \in Ranks /\ pending = 0 /\ policy = TRUE
  /\ ops = [o \in OpKinds \X Keys |-> NoOp]
  /\ checkout = NoReservation
  /\ hs = [h \in Handlers |-> Idle]
  /\ effects = [o \in Kinds \X Keys |-> 0] /\ product = [k \in Keys |-> 0]
  /\ paid = {} /\ next = 0
  /\ requests = 0 /\ faults = 0 /\ lapsed = FALSE

At(h, pc) == hs[h].pc = pc
Goto(h, pc) == hs' = [hs EXCEPT ![h].pc = pc]
Return(h) == hs' = [hs EXCEPT ![h] = Idle]
Op(h) == <<hs[h].kind, hs[h].key>>
Fault == faults < MaxFaults /\ faults' = faults + 1

-----------------------------------------------------------------------------
(* A request arrives.  CreateCheckout first reads the active subscription: *)
(* with one, the request is a plan change (an upgrade at once, a downgrade *)
(* at the end of the period) and the same plan is refused; without one it  *)
(* is a checkout.  The request hash covers the plan and how it is charged. *)

Behavior(r) == IF r < plan THEN "next_period" ELSE "invoice"

CreateCustomerPortal(h, k) ==
  /\ At(h, "idle") /\ requests < MaxRequests /\ requests' = requests + 1
  /\ hs' = [hs EXCEPT ![h] = Request("portal", k, <<0, "">>)]
  /\ UNCHANGED <<rows, polar, faults, lapsed>>

CreateCheckout(h, k, r) ==
  /\ At(h, "idle") /\ requests < MaxRequests /\ requests' = requests + 1
  /\ ~(active /\ r = plan)
  /\ hs' = [hs EXCEPT ![h] = IF active THEN Request("update", k, <<r, Behavior(r)>>)
                                        ELSE Request("checkout", k, <<r, "">>)]
  /\ UNCHANGED <<rows, polar, faults, lapsed>>

(* ListEligibleCreditAutoTopups: an enabled policy of a subscriber whose   *)
(* credits (at version k) are low and have no attempt under way or done.   *)
RunAutoTopups(h, k) ==
  /\ At(h, "idle") /\ requests < MaxRequests /\ requests' = requests + 1
  /\ policy /\ active /\ ops[<<"topup", k>>].state \notin {"pending", "succeeded"}
  /\ hs' = [hs EXCEPT ![h] = Request("topup", k, <<0, "">>)]
  /\ UNCHANGED <<rows, polar, faults, lapsed>>

SetAutoTopupPolicy ==
  /\ ~policy /\ policy' = TRUE
  /\ UNCHANGED <<subscription, ops, checkout, hs, polar, requests, faults, lapsed>>

-----------------------------------------------------------------------------
(* Reserving.  A key that is new, or failed with the same request, is      *)
(* reserved; any other row decides the answer without a call (replay,      *)
(* unknown outcome, still pending, or a conflicting request).              *)

ReservableUncertain(o, req) ==
  \/ ops[o].state = "none"
  \/ ops[o].state \in {"failed", "uncertain"} /\ ops[o].req = req

Reservable(o, req) ==
  \/ ops[o].state = "none"
  \/ ops[o].state = "failed" /\ ops[o].req = req

ReserveOperation(h) ==
  /\ At(h, "reserve") /\ hs[h].kind \in OpKinds
  /\ IF Reservable(Op(h), hs[h].req)
       THEN /\ ops' = [ops EXCEPT ![Op(h)] = [state |-> "pending", req |-> hs[h].req]]
            /\ Goto(h, IF hs[h].req[2] = "next_period" THEN "intend" ELSE "call")
       ELSE Return(h) /\ UNCHANGED ops
  /\ UNCHANGED <<subscription, policy, checkout, polar, requests, faults, lapsed>>

Takeable == checkout.state \in {"none", "failed", "completed"} \/ (checkout.state = "reserved" /\ checkout.expired)

ReserveBillingCheckout(h) ==
  /\ At(h, "reserve") /\ hs[h].kind = "checkout"
  /\ IF Takeable
       THEN /\ checkout' = [state |-> "reserved", key |-> hs[h].key, url |-> FALSE, expired |-> FALSE]
            /\ Goto(h, "call")
       ELSE Return(h) /\ UNCHANGED checkout
  /\ UNCHANGED <<subscription, policy, ops, polar, requests, faults, lapsed>>

(* A downgrade is recorded as the pending plan before the provider is      *)
(* called; when that fails the operation is marked failed.                 *)
SetPendingSubscriptionPlan(h) ==
  /\ At(h, "intend")
  /\ pending' = hs[h].req[1]
  /\ Goto(h, "call")
  /\ UNCHANGED <<active, plan, policy, ops, checkout, polar, requests, faults, lapsed>>

PersistPendingPlanFails(h) ==
  /\ At(h, "intend") /\ Fault
  /\ hs' = [hs EXCEPT ![h].pc = "mark", ![h].reply = "unsent"]
  /\ UNCHANGED <<rows, polar, requests, lapsed>>

-----------------------------------------------------------------------------
(* The provider call (external).  It is carried out, refused with a client *)
(* error, or ends in a timeout or server error that tells nothing.         *)

CarryOut(h) ==
  LET r == hs[h].req[1] IN
  /\ effects' = [effects EXCEPT ![Op(h)] = @ + 1]
  /\ product' = IF hs[h].kind = "checkout" THEN [product EXCEPT ![hs[h].key] = r] ELSE product
  /\ next' = IF hs[h].kind = "update" THEN r ELSE next
  /\ UNCHANGED paid

Reply(h, reply) == hs' = [hs EXCEPT ![h].pc = "mark", ![h].reply = reply]

PolarSucceeds(h) ==
  /\ At(h, "call") /\ CarryOut(h) /\ Reply(h, "succeeded")
  /\ UNCHANGED <<rows, requests, faults, lapsed>>

PolarRefuses(h) ==
  /\ At(h, "call") /\ Fault /\ Reply(h, "failed")
  /\ UNCHANGED <<rows, polar, requests, lapsed>>

PolarOutcomeUncertain(h) ==
  /\ At(h, "call") /\ Fault /\ Reply(h, "uncertain")
  /\ CarryOut(h) \/ UNCHANGED polar
  /\ UNCHANGED <<rows, requests, lapsed>>

-----------------------------------------------------------------------------
(* Recording the outcome.  A row is only marked while it is pending; a     *)
(* downgrade the provider refused is then no longer intended.              *)

MarkOperationUnknownFails(h) ==
  LET unsent == hs[h].reply = "unsent"
      state  == IF unsent \/ hs[h].reply = "uncertain" THEN "failed" ELSE hs[h].reply
  IN
  /\ At(h, "mark") /\ hs[h].kind \in OpKinds
  /\ ops' = IF ops[Op(h)].state = "pending" \/ hs[h].kind = "topup" THEN [ops EXCEPT ![Op(h)].state = state] ELSE ops
  /\ IF state = "failed" /\ ~unsent /\ hs[h].req[2] = "next_period" THEN Goto(h, "clear")
     ELSE Return(h) \/ (state = "failed" /\ hs[h].kind = "topup" /\ Goto(h, "disable"))
  /\ UNCHANGED <<subscription, policy, checkout, polar, requests, faults, lapsed>>

MarkOperationClearsAny(h) ==
  LET unsent == hs[h].reply = "unsent"
      state  == IF unsent THEN "failed" ELSE hs[h].reply
  IN
  /\ At(h, "mark") /\ hs[h].kind \in OpKinds
  /\ ops' = IF ops[Op(h)].state = "pending" \/ hs[h].kind = "topup" THEN [ops EXCEPT ![Op(h)].state = state] ELSE ops
  /\ IF state # "succeeded" /\ ~unsent /\ hs[h].req[2] = "next_period" THEN Goto(h, "clear")
     ELSE Return(h) \/ (state = "failed" /\ hs[h].kind = "topup" /\ Goto(h, "disable"))
  /\ UNCHANGED <<subscription, policy, checkout, polar, requests, faults, lapsed>>

MarkOperation(h) ==
  LET unsent == hs[h].reply = "unsent"
      state  == IF unsent THEN "failed" ELSE hs[h].reply
  IN
  /\ At(h, "mark") /\ hs[h].kind \in OpKinds
  /\ ops' = IF ops[Op(h)].state = "pending" \/ hs[h].kind = "topup" THEN [ops EXCEPT ![Op(h)].state = state] ELSE ops
  /\ IF state = "failed" /\ ~unsent /\ hs[h].req[2] = "next_period" THEN Goto(h, "clear")
     ELSE Return(h) \/ (state = "failed" /\ hs[h].kind = "topup" /\ Goto(h, "disable"))
  /\ UNCHANGED <<subscription, policy, checkout, polar, requests, faults, lapsed>>

ClearRefusedPlan(h) ==
  /\ At(h, "clear")
  /\ pending' = 0
  /\ Return(h)
  /\ UNCHANGED <<active, plan, policy, ops, checkout, polar, requests, faults, lapsed>>

(* A declined payment or a customer without off-session payments turns     *)
(* the automatic top-up off.                                               *)
DisableAutoTopup(h) ==
  /\ At(h, "disable")
  /\ policy' = FALSE
  /\ Return(h)
  /\ UNCHANGED <<subscription, ops, checkout, polar, requests, faults, lapsed>>

(* CompleteBillingCheckoutReservation and MarkBillingCheckoutUncertain     *)
(* name the key they settle; FailBillingCheckoutReservation only the user. *)
SettledReservationForgetful(h) ==
  LET mine == checkout.state = "reserved" /\ checkout.key = hs[h].key IN
  CASE hs[h].reply = "succeeded" /\ mine -> [checkout EXCEPT !.url = TRUE]
    [] hs[h].reply \in {"failed", "uncertain"} /\ checkout.state = "reserved" -> [checkout EXCEPT !.state = "failed"]
    [] OTHER -> checkout

SettledReservation(h) ==
  LET mine == checkout.state = "reserved" /\ checkout.key = hs[h].key IN
  CASE hs[h].reply = "succeeded" /\ mine -> [checkout EXCEPT !.url = TRUE]
    [] hs[h].reply = "uncertain" /\ mine -> [checkout EXCEPT !.state = "uncertain"]
    [] hs[h].reply = "failed" /\ checkout.state = "reserved" -> [checkout EXCEPT !.state = "failed"]
    [] OTHER -> checkout

SettleCheckout(h) ==
  /\ At(h, "mark") /\ hs[h].kind = "checkout"
  /\ checkout' = SettledReservation(h)
  /\ Return(h)
  /\ UNCHANGED <<subscription, policy, ops, polar, requests, faults, lapsed>>

(* The request's context is cancelled, its statement fails or the server   *)
(* stops: nothing more of the handler happens.                             *)
LoseHandler(h) ==
  /\ ~At(h, "idle") /\ Fault
  /\ Return(h)
  /\ UNCHANGED <<rows, polar, requests, lapsed>>

-----------------------------------------------------------------------------
(* The rest of the world: the reservation's time to live (half an hour,    *)
(* far longer than a call), an administrator who has evidence that an      *)
(* uncertain call changed nothing, and the plan webhooks of a paid         *)
(* checkout and of a changed plan.                                         *)

ExpireReservation ==
  /\ checkout.state = "reserved" /\ ~checkout.expired
  /\ \A h \in Handlers : hs[h].kind = "checkout" => hs[h].pc \in {"idle", "reserve"}
  /\ checkout' = [checkout EXCEPT !.expired = TRUE] /\ lapsed' = TRUE
  /\ UNCHANGED <<subscription, policy, ops, hs, polar, requests, faults>>

Recover(kind, k) ==
  /\ effects[<<kind, k>>] = 0
  /\ \/ /\ kind \in OpKinds /\ ops[<<kind, k>>].state = "uncertain"
        /\ ops' = [ops EXCEPT ![<<kind, k>>].state = "failed"] /\ UNCHANGED checkout
     \/ /\ kind = "checkout" /\ checkout.state = "uncertain" /\ checkout.key = k
        /\ checkout' = [checkout EXCEPT !.state = "failed"] /\ UNCHANGED ops
  /\ UNCHANGED <<subscription, policy, hs, polar, requests, faults, lapsed>>

ClearReservation == checkout' = IF checkout.state = "reserved" THEN [checkout EXCEPT !.state = "completed"] ELSE checkout

CheckoutPaid(k) ==
  /\ ~active /\ effects[<<"checkout", k>>] > 0 /\ k \notin paid
  /\ paid' = paid \union {k}
  /\ active' = TRUE /\ plan' = product[k] /\ pending' = 0
  /\ ClearReservation
  /\ UNCHANGED <<policy, ops, hs, effects, product, next, requests, faults, lapsed>>

PlanChanged ==
  /\ active /\ next # 0
  /\ plan' = next /\ next' = 0
  /\ pending' = IF pending = next THEN 0 ELSE pending
  /\ ClearReservation
  /\ UNCHANGED <<active, policy, ops, hs, effects, product, paid, requests, faults, lapsed>>

HandlerStep(h) ==
  \/ \E k \in Keys : CreateCustomerPortal(h, k) \/ RunAutoTopups(h, k) \/ \E r \in Ranks : CreateCheckout(h, k, r)
  \/ ReserveOperation(h) \/ ReserveBillingCheckout(h)
  \/ SetPendingSubscriptionPlan(h) \/ PersistPendingPlanFails(h)
  \/ PolarSucceeds(h) \/ PolarRefuses(h) \/ PolarOutcomeUncertain(h)
  \/ MarkOperation(h) \/ ClearRefusedPlan(h) \/ DisableAutoTopup(h) \/ SettleCheckout(h) \/ LoseHandler(h)

Next ==
  \/ \E h \in Handlers : HandlerStep(h)
  \/ ExpireReservation
  \/ \E kind \in Kinds, k \in Keys : Recover(kind, k)
  \/ \E k \in Keys : CheckoutPaid(k)
  \/ PlanChanged
  \/ SetAutoTopupPolicy

Spec == Init /\ [][Next]_vars

-----------------------------------------------------------------------------
OpStates == {"none", "pending", "succeeded", "failed", "uncertain"}
Requests == (Ranks \union {0}) \X {"", "invoice", "next_period"}
OpRows == [state : OpStates, req : Requests]
Reservations == [state : {"none", "reserved", "completed", "failed", "uncertain"}, key : Keys \union {""},
                 url : BOOLEAN, expired : BOOLEAN]
HandlerStates == [pc : {"idle", "reserve", "intend", "call", "mark", "clear", "disable"}, kind : Kinds,
                  key : Keys \union {""}, req : Requests, reply : {"", "unsent", "succeeded", "failed", "uncertain"}]

(* The tables, the handlers and the provider's memory have their types: in *)
(* particular an operation row is in one of the states of its CHECK        *)
(* constraint.                                                             *)
TypeOK ==
  /\ active \in BOOLEAN /\ plan \in Ranks /\ pending \in Ranks \union {0} /\ policy \in BOOLEAN
  /\ ops \in [OpKinds \X Keys -> OpRows]
  /\ checkout \in Reservations
  /\ hs \in [Handlers -> HandlerStates]
  /\ effects \in [Kinds \X Keys -> Nat] /\ product \in [Keys -> Ranks \union {0}]
  /\ paid \subseteq Keys /\ next \in Ranks \union {0}
  /\ requests \in Nat /\ faults \in Nat /\ lapsed \in BOOLEAN

(* The provider carries out at most one portal session, one plan change    *)
(* and one top-up order per idempotency key, whatever is retried, timed    *)
(* out, lost or recovered (ReserveBillingPortalOperation,                  *)
(* ReserveBillingSubscriptionUpdate, ReserveCreditAutoTopup).              *)
AtMostOncePerKey == \A o \in OpKinds \X Keys : effects[o] <= 1

(* A key recorded as succeeded, whose retries are answered from the row,   *)
(* was carried out; a key recorded as failed, which may be sent again, was *)
(* not (MarkBillingSubscriptionUpdate, CompleteCreditAutoTopup).           *)
OutcomeIsReal ==
  \A o \in OpKinds \X Keys :
    /\ ops[o].state = "succeeded" => effects[o] > 0
    /\ ops[o].state = "failed" => effects[o] = 0

(* A user without a subscription has at most one checkout that can still   *)
(* be paid, counting the ones being created, until a reservation runs out: *)
(* reservations keep two keys from opening two checkouts, also when the    *)
(* first one's outcome is unknown or its handler was lost                  *)
(* (ReserveBillingCheckout).                                               *)
OpenCheckouts == {k \in Keys : effects[<<"checkout", k>>] > 0} \ paid
CheckoutCalls == {h \in Handlers : At(h, "call") /\ hs[h].kind = "checkout"}
OneOpenCheckout ==
  ~active /\ ~lapsed =>
    \A a, b \in (OpenCheckouts \X {"open"}) \union (CheckoutCalls \X {"call"}) : a = b

(* A downgrade whose outcome is unknown stays recorded as the pending plan *)
(* until its webhook arrives, when it is the user's only plan change and   *)
(* the timeout the only fault (SetPendingSubscriptionPlan before the call).*)
PendingIntentKept ==
  \A k \in Keys :
    LET o == <<"update", k>> IN
    /\ ops[o].state = "uncertain" /\ ops[o].req[2] = "next_period"
    /\ effects[o] = 0 \/ next = ops[o].req[1]
    /\ faults <= 1 /\ \A j \in Keys \ {k} : ops[<<"update", j>>].state = "none"
    => pending = ops[o].req[1]

=============================================================================
