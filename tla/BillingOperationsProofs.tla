----------------------- MODULE BillingOperationsProofs -----------------------
(***************************************************************************)
(* Proofs about BillingOperations for any number of concurrent requests,   *)
(* keys and plans, and any number of faults.                               *)
(*                                                                         *)
(* AtMostOncePerKey and OutcomeIsReal follow from one invariant: a handler *)
(* between its reservation and its mark holds the row of its key alone,    *)
(* the row stays pending meanwhile, and what the handler knows of the call *)
(* agrees with what the provider did.                                      *)
(*                                                                         *)
(* OneOpenCheckout rests on the reservation row: until a reservation runs  *)
(* out, every checkout that is open or being created is the one the row    *)
(* names.  PendingIntentKept rests on the order of a downgrade: its plan   *)
(* is recorded before the call and cleared only after a definite refusal.  *)
(***************************************************************************)
EXTENDS BillingOperations, TLAPS

(* A handler that holds the operation row of its key.                      *)
Holding(h) == hs[h].kind \in OpKinds /\ hs[h].pc \in {"intend", "call", "mark"}

(* The part of the type invariant that the row ledger needs.               *)
LedgerTyped ==
  /\ ops \in [OpKinds \X Keys -> OpRows]
  /\ hs \in [Handlers -> HandlerStates]
  /\ effects \in [Kinds \X Keys -> Nat]
  /\ \A h \in Handlers : hs[h].pc # "idle" => hs[h].key \in Keys

HoldersArePending == \A h \in Handlers : Holding(h) => ops[Op(h)].state = "pending"

HoldersAreAlone == \A g, h \in Handlers : Holding(g) /\ Holding(h) /\ Op(g) = Op(h) => g = h

HoldersKnow ==
  \A h \in Handlers : Holding(h) =>
    /\ hs[h].pc # "mark" \/ hs[h].reply \in {"failed", "unsent"} => effects[Op(h)] = 0
    /\ hs[h].pc = "mark" /\ hs[h].reply = "succeeded" => effects[Op(h)] = 1
    /\ hs[h].pc = "mark" => hs[h].reply # ""

RowsAreHonest ==
  \A o \in OpKinds \X Keys :
    /\ effects[o] <= 1
    /\ ops[o].state \in {"none", "failed"} => effects[o] = 0
    /\ ops[o].state = "succeeded" => effects[o] = 1

Ledger == LedgerTyped /\ HoldersArePending /\ HoldersAreAlone /\ HoldersKnow /\ RowsAreHonest

(* The ledger is well formed initially. *)
LEMMA LedgerInit == Init => Ledger
<1> SUFFICES ASSUME Init PROVE Ledger
  OBVIOUS
<1>0. Idle.pc = "idle"
  BY DEF Idle
<1>1. \A h \in Handlers : hs[h] = Idle
  BY DEF Init
<1>2. LedgerTyped
  <2>1. <<0, "">> \in Requests
    BY Zenon DEF Requests
  <2>2. NoOp \in OpRows
    BY <2>1, Zenon DEF NoOp, OpRows, OpStates
  <2>4. Idle \in HandlerStates
    BY <2>1, Zenon DEF Idle, HandlerStates, Kinds, OpKinds
  <2>3. \A h \in Handlers : hs[h].pc = "idle"
    BY <1>0, <1>1
  <2> QED BY <2>2, <2>3, <2>4 DEF Init, LedgerTyped
<1>3. \A h \in Handlers : ~Holding(h)
  BY <1>0, <1>1 DEF Holding
<1>4. \A o \in OpKinds \X Keys : effects[o] = 0 /\ ops[o].state = "none"
  BY Zenon DEF Init, NoOp, Kinds
<1>5. HoldersArePending /\ HoldersAreAlone /\ HoldersKnow
  BY <1>3, Zenon DEF HoldersArePending, HoldersAreAlone, HoldersKnow
<1>6. RowsAreHonest
  BY <1>4 DEF RowsAreHonest
<1> QED BY <1>2, <1>5, <1>6 DEF Ledger

(* The row a handler works on is a row of the table.                       *)
LEMMA OpInTable ==
  ASSUME Ledger, NEW h \in Handlers, hs[h].kind \in OpKinds, hs[h].pc # "idle"
  PROVE  Op(h) \in OpKinds \X Keys /\ Op(h) \in Kinds \X Keys
BY DEF Ledger, LedgerTyped, Op, Kinds

(* A step that leaves the operation rows and what was done for them alone, *)
(* and changes one handler h to a state in which it holds no row, keeps    *)
(* the ledger.                                                             *)
LEMMA LedgerLetGo ==
  ASSUME Ledger, NEW h \in Handlers, NEW v \in HandlerStates, hs' = [hs EXCEPT ![h] = v],
         v.pc # "idle" => v.key \in Keys,
         ~(v.kind \in OpKinds /\ v.pc \in {"intend", "call", "mark"}),
         ops' = ops, effects' \in [Kinds \X Keys -> Nat],
         \A o \in OpKinds \X Keys : effects'[o] = effects[o]
  PROVE  Ledger'
<1> USE DEF Ledger, LedgerTyped
<1>1. \A g \in Handlers : hs'[g] = IF g = h THEN v ELSE hs[g]
  OBVIOUS
<1>2. LedgerTyped'
  BY <1>1
<1>3. \A g \in Handlers : Holding(g)' => g # h /\ Holding(g) /\ hs'[g] = hs[g] /\ Op(g)' = Op(g)
  BY <1>1 DEF Holding, Op
<1>4. HoldersArePending'
  BY <1>3 DEF HoldersArePending
<1>5. HoldersAreAlone'
  BY <1>3 DEF HoldersAreAlone
<1>6. HoldersKnow'
  <2>1. \A g \in Handlers : Holding(g) => effects'[Op(g)] = effects[Op(g)]
    BY OpInTable DEF Holding
  <2>2. \A g \in Handlers : Holding(g)' => Holding(g) /\ hs'[g] = hs[g] /\ effects'[Op(g)'] = effects[Op(g)]
    BY <2>1, <1>3
  <2> QED BY <2>2, Zenon DEF HoldersKnow
<1>7. RowsAreHonest'
  BY DEF RowsAreHonest
<1> QED BY <1>2, <1>4, <1>5, <1>6, <1>7

(* Reserving a new or failed key makes h its only holder.                  *)
LEMMA LedgerTake ==
  ASSUME Ledger, NEW h \in Handlers, hs[h].kind \in OpKinds, hs[h].pc = "reserve",
         ops[Op(h)].state \in {"none", "failed"},
         NEW p \in {"intend", "call"}, hs' = [hs EXCEPT ![h].pc = p],
         NEW row \in OpRows, row.state = "pending", ops' = [ops EXCEPT ![Op(h)] = row],
         effects' = effects
  PROVE  Ledger'
<1> USE DEF Ledger, LedgerTyped
<1> DEFINE v == [hs[h] EXCEPT !.pc = p]
<1>1. v \in HandlerStates /\ v.pc = p /\ v.kind = hs[h].kind /\ v.key = hs[h].key
  BY Zenon DEF HandlerStates
<1>2. hs' = [hs EXCEPT ![h] = v]
  OBVIOUS
<1> HIDE DEF v
<1>3. Op(h) \in OpKinds \X Keys
  BY OpInTable
<1>4. \A g \in Handlers : hs'[g] = IF g = h THEN v ELSE hs[g]
  BY <1>2
<1>5. \A o \in OpKinds \X Keys : ops'[o] = IF o = Op(h) THEN row ELSE ops[o]
  OBVIOUS
<1>6. LedgerTyped'
  BY <1>1, <1>3, <1>4, <1>5, <1>2
<1>7. Op(h)' = Op(h) /\ \A g \in Handlers : g # h => (Holding(g)' <=> Holding(g)) /\ Op(g)' = Op(g)
  BY <1>1, <1>4 DEF Op, Holding
<1>8. \A g \in Handlers : Holding(g) => g # h /\ Op(g) # Op(h) /\ Op(g) \in OpKinds \X Keys
  <2> SUFFICES ASSUME NEW g \in Handlers, Holding(g)
               PROVE  g # h /\ Op(g) # Op(h) /\ Op(g) \in OpKinds \X Keys
    OBVIOUS
  <2>1. Op(g) \in OpKinds \X Keys
    BY OpInTable DEF Holding
  <2>2. ops[Op(g)].state = "pending"
    BY DEF HoldersArePending
  <2> QED BY <2>1, <2>2 DEF Holding
<1>9. HoldersArePending'
  BY <1>3, <1>5, <1>7, <1>8 DEF HoldersArePending
<1>10. HoldersAreAlone'
  BY <1>7, <1>8 DEF HoldersAreAlone
<1>11. HoldersKnow'
  <2>1. effects[Op(h)] = 0
    BY <1>3 DEF RowsAreHonest
  <2> QED BY <2>1, <1>1, <1>4, <1>7, Zenon DEF HoldersKnow
<1>12. RowsAreHonest'
  BY <1>5 DEF RowsAreHonest
<1> QED BY <1>6, <1>9, <1>10, <1>11, <1>12

(* The call of an operation: what the holder learns is what was done.      *)
LEMMA LedgerCall ==
  ASSUME Ledger, NEW h \in Handlers, hs[h].kind \in OpKinds, hs[h].pc \in {"intend", "call"},
         NEW reply \in {"unsent", "succeeded", "failed", "uncertain"},
         hs' = [hs EXCEPT ![h].pc = "mark", ![h].reply = reply],
         NEW done \in {0, 1}, effects' = [effects EXCEPT ![Op(h)] = @ + done],
         reply = "succeeded" => done = 1, reply \in {"failed", "unsent"} => done = 0,
         ops' = ops
  PROVE  Ledger'
<1> USE DEF Ledger, LedgerTyped
<1> DEFINE v == [hs[h] EXCEPT !.pc = "mark", !.reply = reply]
<1>1. v \in HandlerStates /\ v.pc = "mark" /\ v.reply = reply /\ v.kind = hs[h].kind /\ v.key = hs[h].key
  BY Zenon DEF HandlerStates
<1>2. hs' = [hs EXCEPT ![h] = v]
  BY Zenon
<1> HIDE DEF v
<1>3. Op(h) \in OpKinds \X Keys /\ Op(h) \in Kinds \X Keys
  BY OpInTable
<1>4. \A g \in Handlers : hs'[g] = IF g = h THEN v ELSE hs[g]
  BY <1>2, Zenon
<1>5. Holding(h) /\ effects[Op(h)] = 0
  BY Zenon DEF Holding, HoldersKnow
<1>6. \A o \in Kinds \X Keys : effects'[o] = IF o = Op(h) THEN done ELSE effects[o]
  BY <1>3, <1>5
<1>7. LedgerTyped'
  BY <1>1, <1>2, <1>3, <1>4
<1>8. \A g \in Handlers : (Holding(g)' <=> Holding(g)) /\ Op(g)' = Op(g)
  BY <1>1, <1>4, <1>5 DEF Op, Holding
<1>9. HoldersArePending'
  BY <1>8 DEF HoldersArePending
<1>10. HoldersAreAlone'
  BY <1>8 DEF HoldersAreAlone
<1>11. HoldersKnow'
  <2> SUFFICES ASSUME NEW g \in Handlers, Holding(g)'
               PROVE  /\ hs'[g].pc # "mark" \/ hs'[g].reply \in {"failed", "unsent"} => effects'[Op(g)'] = 0
                      /\ hs'[g].pc = "mark" /\ hs'[g].reply = "succeeded" => effects'[Op(g)'] = 1
                      /\ hs'[g].pc = "mark" => hs'[g].reply # ""
    BY Zenon DEF HoldersKnow
  <2>1. CASE g = h
    BY <2>1, <1>1, <1>3, <1>4, <1>6, <1>8, Zenon
  <2>2. CASE g # h
    <3>1. Op(g) # Op(h) /\ Op(g) \in Kinds \X Keys
      BY <2>2, <1>5, <1>8, OpInTable DEF HoldersAreAlone, Holding
    <3> QED BY <2>2, <3>1, <1>4, <1>6, <1>8, Zenon DEF HoldersKnow
  <2> QED BY <2>1, <2>2, Zenon
<1>12. RowsAreHonest'
  <2>1. ops[Op(h)].state = "pending"
    BY <1>5 DEF HoldersArePending
  <2> QED BY <2>1, <1>6 DEF RowsAreHonest, Kinds
<1> QED BY <1>7, <1>9, <1>10, <1>11, <1>12

(* Marking the row of a finished call and letting go of it.                *)
LEMMA LedgerMark ==
  ASSUME Ledger, NEW h \in Handlers, hs[h].kind \in OpKinds, hs[h].pc = "mark",
         NEW v \in HandlerStates, hs' = [hs EXCEPT ![h] = v],
         v.pc # "idle" => v.key \in Keys, v.pc \notin {"intend", "call", "mark"},
         ops' = [ops EXCEPT ![Op(h)].state = IF hs[h].reply = "unsent" THEN "failed" ELSE hs[h].reply],
         effects' = effects
  PROVE  Ledger'
<1> USE DEF Ledger, LedgerTyped
<1> DEFINE st == IF hs[h].reply = "unsent" THEN "failed" ELSE hs[h].reply
           row == [ops[Op(h)] EXCEPT !.state = st]
<1>1. Holding(h) /\ Op(h) \in OpKinds \X Keys
  BY OpInTable DEF Holding
<1>2. hs[h].reply \in {"unsent", "succeeded", "failed", "uncertain"}
  BY <1>1, Zenon DEF HoldersKnow, HandlerStates
<1>3. row \in OpRows /\ row.state = st
  BY <1>1, <1>2 DEF OpRows, OpStates
<1>4. ops' = [ops EXCEPT ![Op(h)] = row]
  BY <1>1
<1>5. \/ st = "failed" /\ effects[Op(h)] = 0
      \/ st = "succeeded" /\ effects[Op(h)] = 1
      \/ st = "uncertain"
  <2>1. CASE hs[h].reply \in {"unsent", "failed"}
    <3>1. effects[Op(h)] = 0
      BY <2>1, <1>1, Zenon DEF HoldersKnow
    <3>2. st = "failed"
      BY <2>1
    <3> QED BY <3>1, <3>2
  <2>2. CASE hs[h].reply = "succeeded"
    BY <2>2, <1>1, Zenon DEF HoldersKnow
  <2> QED BY <2>1, <2>2, <1>2
<1> HIDE DEF st, row
<1>6. \A g \in Handlers : hs'[g] = IF g = h THEN v ELSE hs[g]
  OBVIOUS
<1>7. \A o \in OpKinds \X Keys : ops'[o] = IF o = Op(h) THEN row ELSE ops[o]
  BY <1>4
<1>8. LedgerTyped'
  BY <1>3, <1>4, <1>6, <1>1
<1>9. \A g \in Handlers : Holding(g)' =>
        g # h /\ Holding(g) /\ hs'[g] = hs[g] /\ Op(g)' = Op(g) /\ Op(g) \in OpKinds \X Keys /\ Op(g) # Op(h)
  <2>1. \A g \in Handlers : Holding(g)' => g # h /\ Holding(g) /\ hs'[g] = hs[g] /\ Op(g)' = Op(g)
    BY <1>6 DEF Holding, Op
  <2>2. \A g \in Handlers : Holding(g) => Op(g) \in OpKinds \X Keys
    BY OpInTable DEF Holding
  <2> QED BY <2>1, <2>2, <1>1 DEF HoldersAreAlone
<1>10. HoldersArePending'
  BY <1>7, <1>9 DEF HoldersArePending
<1>11. HoldersAreAlone'
  BY <1>9 DEF HoldersAreAlone
<1>12. HoldersKnow'
  BY <1>9, Zenon DEF HoldersKnow
<1>13. RowsAreHonest'
  BY <1>3, <1>5, <1>7, Zenon DEF RowsAreHonest
<1> QED BY <1>8, <1>10, <1>11, <1>12, <1>13

(* A step that changes no handler, no row and nothing done for a row.      *)
LEMMA LedgerElsewhere ==
  ASSUME Ledger, ops' = ops, hs' = hs, effects' = effects
  PROVE  Ledger'
<1>1. \A h : (Holding(h)' <=> Holding(h)) /\ Op(h)' = Op(h)
  BY DEF Holding, Op
<1> QED BY <1>1, Zenon DEF Ledger, LedgerTyped, HoldersArePending, HoldersAreAlone, HoldersKnow, RowsAreHonest

(* Recovery fails an uncertain row that nothing was done for.              *)
LEMMA LedgerRecover ==
  ASSUME Ledger, NEW o \in OpKinds \X Keys, ops[o].state = "uncertain", effects[o] = 0,
         ops' = [ops EXCEPT ![o].state = "failed"], hs' = hs, effects' = effects
  PROVE  Ledger'
<1> USE DEF Ledger, LedgerTyped
<1> DEFINE row == [ops[o] EXCEPT !.state = "failed"]
<1>1. row \in OpRows /\ row.state = "failed" /\ ops' = [ops EXCEPT ![o] = row]
  BY DEF OpRows, OpStates
<1> HIDE DEF row
<1>2. \A q \in OpKinds \X Keys : ops'[q] = IF q = o THEN row ELSE ops[q]
  BY <1>1
<1>3. \A g \in Handlers : (Holding(g)' <=> Holding(g)) /\ Op(g)' = Op(g)
  BY DEF Holding, Op
<1>4. \A g \in Handlers : Holding(g) => Op(g) \in OpKinds \X Keys /\ Op(g) # o
  BY OpInTable DEF Holding, HoldersArePending
<1>5. LedgerTyped'
  BY <1>1
<1>6. HoldersArePending'
  BY <1>2, <1>3, <1>4 DEF HoldersArePending
<1>7. HoldersAreAlone' /\ HoldersKnow'
  BY <1>3, Zenon DEF HoldersAreAlone, HoldersKnow
<1>8. RowsAreHonest'
  BY <1>1, <1>2 DEF RowsAreHonest
<1> QED BY <1>5, <1>6, <1>7, <1>8

(* A holder that goes on to its call.                                      *)
LEMMA LedgerAdvance ==
  ASSUME Ledger, NEW h \in Handlers, hs[h].pc = "intend", hs[h].kind \in OpKinds,
         hs' = [hs EXCEPT ![h].pc = "call"], ops' = ops, effects' = effects
  PROVE  Ledger'
<1> USE DEF Ledger, LedgerTyped
<1> DEFINE v == [hs[h] EXCEPT !.pc = "call"]
<1>1. v \in HandlerStates /\ v.pc = "call" /\ v.kind = hs[h].kind /\ v.key = hs[h].key
  BY Zenon DEF HandlerStates
<1>2. hs' = [hs EXCEPT ![h] = v]
  OBVIOUS
<1> HIDE DEF v
<1>3. \A g \in Handlers : hs'[g] = IF g = h THEN v ELSE hs[g]
  BY <1>2
<1>4. \A g \in Handlers : (Holding(g)' <=> Holding(g)) /\ Op(g)' = Op(g)
  BY <1>1, <1>3 DEF Holding, Op
<1>5. LedgerTyped'
  BY <1>1, <1>2, <1>3
<1>6. HoldersArePending' /\ HoldersAreAlone'
  BY <1>4 DEF HoldersArePending, HoldersAreAlone
<1>7. HoldersKnow'
  BY <1>1, <1>3, <1>4, Zenon DEF HoldersKnow
<1>8. RowsAreHonest'
  BY DEF RowsAreHonest
<1> QED BY <1>5, <1>6, <1>7, <1>8

(* Every step of every actor keeps the ledger.                             *)
LEMMA LedgerNext == Ledger /\ [Next]_vars => Ledger'
<1> SUFFICES ASSUME Ledger, [Next]_vars PROVE Ledger'
  OBVIOUS
<1> USE RankAssumption
<1>a. /\ hs \in [Handlers -> HandlerStates] /\ effects \in [Kinds \X Keys -> Nat]
      /\ \A h \in Handlers : hs[h].pc # "idle" => hs[h].key \in Keys
  BY DEF Ledger, LedgerTyped
<1>b. Idle \in HandlerStates /\ Idle.pc = "idle"
  <2>1. <<0, "">> \in Requests
    BY Zenon DEF Requests
  <2> QED BY <2>1, Zenon DEF Idle, HandlerStates, Kinds, OpKinds
<1>c. ASSUME NEW h \in Handlers, Return(h), ops' = ops, effects' = effects PROVE Ledger'
  <2>1. hs' = [hs EXCEPT ![h] = Idle]
    BY <1>c DEF Return
  <2> QED BY <1>a, <1>b, <1>c, <2>1, LedgerLetGo, Zenon
<1>1. ASSUME NEW h \in Handlers, NEW k \in Keys, CreateCustomerPortal(h, k) \/ RunAutoTopups(h, k)
              \/ \E r \in Ranks : CreateCheckout(h, k, r)
      PROVE Ledger'
  <2>1. ASSUME NEW kind \in Kinds, NEW req \in Requests
        PROVE Request(kind, k, req) \in HandlerStates /\ Request(kind, k, req).pc = "reserve"
              /\ Request(kind, k, req).key = k
    BY <2>1, Zenon DEF Request, HandlerStates
  <2>2. <<0, "">> \in Requests /\ \A r \in Ranks : <<r, "">> \in Requests /\ <<r, Behavior(r)>> \in Requests
    BY Zenon DEF Requests, Behavior
  <2>3. \E kind \in Kinds, req \in Requests : hs' = [hs EXCEPT ![h] = Request(kind, k, req)]
    BY <1>1, <2>2, Zenon DEF CreateCustomerPortal, RunAutoTopups, CreateCheckout, Kinds, OpKinds
  <2>4. ops' = ops /\ effects' = effects
    BY <1>1, Zenon DEF CreateCustomerPortal, RunAutoTopups, CreateCheckout, rows, polar
  <2> QED BY <2>1, <2>3, <2>4, <1>a, LedgerLetGo, Zenon
<1>2. ASSUME NEW h \in Handlers, ReserveOperation(h) PROVE Ledger'
  <2>1. CASE Reservable(Op(h), hs[h].req)
    <3> DEFINE row == [state |-> "pending", req |-> hs[h].req]
               p == IF hs[h].req[2] = "next_period" THEN "intend" ELSE "call"
    <3>1. row \in OpRows /\ row.state = "pending"
      BY <1>a, Zenon DEF OpRows, OpStates, HandlerStates
    <3>2. /\ hs[h].kind \in OpKinds /\ hs[h].pc = "reserve"
          /\ ops[Op(h)].state \in {"none", "failed"}
          /\ hs' = [hs EXCEPT ![h].pc = p] /\ ops' = [ops EXCEPT ![Op(h)] = row] /\ effects' = effects
      BY <1>2, <2>1 DEF ReserveOperation, Reservable, At, Goto, polar
    <3>3. p \in {"intend", "call"}
      OBVIOUS
    <3> HIDE DEF row, p
    <3> QED BY <3>1, <3>2, <3>3, LedgerTake, Zenon
  <2>2. CASE ~Reservable(Op(h), hs[h].req)
    BY <1>2, <2>2, <1>c DEF ReserveOperation, polar
  <2> QED BY <2>1, <2>2
<1>d. ASSUME NEW h \in Handlers, NEW v \in HandlerStates, hs' = [hs EXCEPT ![h] = v], v.kind = "checkout",
             v.pc # "idle" => v.key \in Keys, ops' = ops, effects' \in [Kinds \X Keys -> Nat],
             \A o \in OpKinds \X Keys : effects'[o] = effects[o]
      PROVE Ledger'
  <2>1. ~(v.kind \in OpKinds /\ v.pc \in {"intend", "call", "mark"})
    BY <1>d DEF OpKinds
  <2> QED BY <1>d, <2>1, LedgerLetGo, Zenon
<1>3. ASSUME NEW h \in Handlers, ReserveBillingCheckout(h) PROVE Ledger'
  <2>1. CASE Takeable
    <3> DEFINE v == [hs[h] EXCEPT !.pc = "call"]
    <3>1. hs' = [hs EXCEPT ![h] = v] /\ ops' = ops /\ effects' = effects /\ hs[h].pc = "reserve" /\ hs[h].kind = "checkout"
      BY <1>3, <2>1 DEF ReserveBillingCheckout, Goto, At, polar
    <3>2. v \in HandlerStates /\ v.kind = "checkout" /\ v.key \in Keys
      BY <1>a, <3>1, Zenon DEF HandlerStates
    <3> HIDE DEF v
    <3> QED BY <3>1, <3>2, <1>a, <1>d, Zenon
  <2>2. CASE ~Takeable
    BY <1>3, <2>2, <1>c DEF ReserveBillingCheckout, polar
  <2> QED BY <2>1, <2>2
<1>e. \A h \in Handlers : hs[h].kind \in OpKinds \/ hs[h].kind = "checkout"
  BY <1>a, Zenon DEF HandlerStates, Kinds
<1>4. ASSUME NEW h \in Handlers, SetPendingSubscriptionPlan(h) PROVE Ledger'
  <2>1. hs' = [hs EXCEPT ![h].pc = "call"] /\ hs[h].pc = "intend" /\ ops' = ops /\ effects' = effects
    BY <1>4 DEF SetPendingSubscriptionPlan, At, Goto, polar
  <2>2. CASE hs[h].kind \in OpKinds
    BY <2>1, <2>2, LedgerAdvance, Zenon
  <2>3. CASE hs[h].kind = "checkout"
    <3> DEFINE v == [hs[h] EXCEPT !.pc = "call"]
    <3>1. hs' = [hs EXCEPT ![h] = v] /\ v \in HandlerStates /\ v.kind = "checkout" /\ v.key \in Keys
      BY <1>a, <2>1, <2>3, Zenon DEF HandlerStates
    <3> HIDE DEF v
    <3> QED BY <3>1, <2>1, <1>a, <1>d, Zenon
  <2> QED BY <2>2, <2>3, <1>e
<1>5. ASSUME NEW h \in Handlers, PersistPendingPlanFails(h) \/ PolarSucceeds(h) \/ PolarRefuses(h) \/ PolarOutcomeUncertain(h)
      PROVE Ledger'
  <2>1. PICK reply \in {"unsent", "succeeded", "failed", "uncertain"}, done \in {0, 1} :
          /\ hs[h].pc \in {"intend", "call"} /\ ops' = ops
          /\ hs' = [hs EXCEPT ![h].pc = "mark", ![h].reply = reply]
          /\ effects' = [effects EXCEPT ![Op(h)] = @ + done]
          /\ reply = "succeeded" => done = 1
          /\ reply \in {"failed", "unsent"} => done = 0
    <3>1. effects = [effects EXCEPT ![Op(h)] = @ + 0]
      <4>1. \A n \in Nat : n + 0 = n
        OBVIOUS
      <4> QED BY <1>a, <4>1
    <3>2. CASE PersistPendingPlanFails(h)
      BY <3>1, <3>2 DEF PersistPendingPlanFails, At, rows, polar
    <3>3. CASE PolarSucceeds(h)
      BY <3>3 DEF PolarSucceeds, At, Reply, CarryOut, rows
    <3>4. CASE PolarRefuses(h)
      BY <3>1, <3>4 DEF PolarRefuses, At, Reply, rows, polar
    <3>5. CASE PolarOutcomeUncertain(h)
      BY <3>1, <3>5 DEF PolarOutcomeUncertain, At, Reply, CarryOut, rows, polar
    <3> QED BY <1>5, <3>2, <3>3, <3>4, <3>5
  <2>2. CASE hs[h].kind \in OpKinds
    BY <2>1, <2>2, LedgerCall, Zenon
  <2>3. CASE hs[h].kind = "checkout"
    <3> DEFINE v == [hs[h] EXCEPT !.pc = "mark", !.reply = reply]
    <3>1. hs' = [hs EXCEPT ![h] = v] /\ v \in HandlerStates /\ v.kind = "checkout" /\ v.key \in Keys
      BY <1>a, <2>1, <2>3, Zenon DEF HandlerStates
    <3>2. effects' \in [Kinds \X Keys -> Nat]
      <4>1. Op(h) \in Kinds \X Keys
        BY <1>a, <2>1, <2>3 DEF Op, Kinds
      <4>2. effects[Op(h)] + done \in Nat
        BY <4>1, <1>a
      <4> QED BY <1>a, <2>1, <4>2, Zenon
    <3>3. \A o \in OpKinds \X Keys : o # Op(h)
      BY <2>3 DEF Op, OpKinds
    <3>4. \A o \in OpKinds \X Keys : effects'[o] = effects[o]
      BY <1>a, <2>1, <3>3 DEF Kinds
    <3> HIDE DEF v
    <3> QED BY <3>1, <3>2, <3>4, <2>1, <1>d, Zenon
  <2> QED BY <2>2, <2>3, <1>e
<1>6. ASSUME NEW h \in Handlers, MarkOperation(h) PROVE Ledger'
  <2>1. hs[h].pc = "mark" /\ hs[h].kind \in OpKinds /\ effects' = effects
    BY <1>6 DEF MarkOperation, At, polar
  <2>2. ops[Op(h)].state = "pending"
    BY <2>1 DEF Ledger, HoldersArePending, Holding
  <2>3. ops' = [ops EXCEPT ![Op(h)].state = IF hs[h].reply = "unsent" THEN "failed" ELSE hs[h].reply]
    BY <1>6, <2>2 DEF MarkOperation
  <2>4. Return(h) \/ Goto(h, "clear") \/ Goto(h, "disable")
    BY <1>6 DEF MarkOperation
  <2>5. CASE Return(h)
    BY <2>1, <2>3, <2>5, <1>b, LedgerMark, Zenon DEF Return
  <2>6. ASSUME NEW p \in {"clear", "disable"}, Goto(h, p) PROVE Ledger'
    <3> DEFINE v == [hs[h] EXCEPT !.pc = p]
    <3>1. hs' = [hs EXCEPT ![h] = v]
      BY <2>6, <1>a DEF Goto
    <3>2. v \in HandlerStates /\ v.pc = p /\ v.key \in Keys
      BY <1>a, <2>1, Zenon DEF HandlerStates
    <3> HIDE DEF v
    <3> QED BY <3>1, <3>2, <2>1, <2>3, LedgerMark, Zenon
  <2> QED BY <2>4, <2>5, <2>6
<1>7. ASSUME NEW h \in Handlers, ClearRefusedPlan(h) \/ DisableAutoTopup(h) \/ SettleCheckout(h) \/ LoseHandler(h)
      PROVE Ledger'
  <2>1. Return(h) /\ ops' = ops /\ effects' = effects
    BY <1>7 DEF ClearRefusedPlan, DisableAutoTopup, SettleCheckout, LoseHandler, rows, polar
  <2> QED BY <2>1, <1>c
<1>8. CASE ExpireReservation \/ PlanChanged \/ SetAutoTopupPolicy \/ (\E k \in Keys : CheckoutPaid(k)) \/ UNCHANGED vars
  <2>1. ops' = ops /\ hs' = hs /\ effects' = effects
    BY <1>8, Zenon DEF ExpireReservation, PlanChanged, SetAutoTopupPolicy, CheckoutPaid, polar, rows, vars
  <2> QED BY <2>1, LedgerElsewhere
<1>9. ASSUME NEW kind \in Kinds, NEW k \in Keys, Recover(kind, k) PROVE Ledger'
  <2>1. hs' = hs /\ effects' = effects /\ effects[<<kind, k>>] = 0
    BY <1>9 DEF Recover, polar
  <2>2. CASE kind \in OpKinds /\ ops[<<kind, k>>].state = "uncertain"
             /\ ops' = [ops EXCEPT ![<<kind, k>>].state = "failed"]
    <3>1. <<kind, k>> \in OpKinds \X Keys
      BY <2>2
    <3> QED BY <2>1, <2>2, <3>1, LedgerRecover, Zenon
  <2>3. CASE ops' = ops
    BY <2>1, <2>3, LedgerElsewhere
  <2> QED BY <1>9, <2>2, <2>3 DEF Recover
<1> QED BY <1>1, <1>2, <1>3, <1>4, <1>5, <1>6, <1>7, <1>8, <1>9 DEF Next, HandlerStep

(* For every key the provider carries out at most one portal session, plan *)
(* change or top-up order (the reserve statements of billing.sql).         *)
THEOREM AtMostOncePerKeyAlways == Spec => []AtMostOncePerKey
<1>1. Ledger => AtMostOncePerKey
  BY DEF Ledger, RowsAreHonest, AtMostOncePerKey
<1> QED BY <1>1, LedgerInit, LedgerNext, PTL DEF Spec

(* A row that says succeeded was carried out and a row that says failed    *)
(* was not, in every state (the mark statements of billing.sql).           *)
THEOREM OutcomeIsRealAlways == Spec => []OutcomeIsReal
<1>1. Ledger => OutcomeIsReal
  BY DEF Ledger, LedgerTyped, RowsAreHonest, OutcomeIsReal, Kinds
<1> QED BY <1>1, LedgerInit, LedgerNext, PTL DEF Spec

-----------------------------------------------------------------------------
(* The checkout reservation.  While the user has no subscription and no    *)
(* reservation ran out, only the reserved key can have been sent, by one   *)
(* handler, and a reservation that may be taken has sent nothing.          *)

(* A handler between the reservation of a checkout and its settlement.     *)
Creating(h) == hs[h].kind = "checkout" /\ hs[h].pc \in {"call", "mark"}

OnlyReservedIsOpen ==
  \A k \in Keys : effects[<<"checkout", k>>] > 0 => checkout.state \in {"reserved", "uncertain"} /\ checkout.key = k

CreatorsHoldIt ==
  \A h \in Handlers : Creating(h) =>
    /\ checkout.state = "reserved" /\ checkout.key = hs[h].key
    /\ hs[h].pc = "call" \/ hs[h].reply = "failed" => effects[<<"checkout", hs[h].key>>] = 0

CreatorsAreAlone == \A g, h \in Handlers : Creating(g) /\ Creating(h) => g = h

Exclusive ==
  /\ checkout.state # "completed" /\ ~checkout.expired
  /\ OnlyReservedIsOpen /\ CreatorsHoldIt /\ CreatorsAreAlone

Reserved ==
  /\ checkout \in Reservations
  /\ \A h \in Handlers : hs[h].pc = "intend" => hs[h].kind # "checkout"
  /\ ~active /\ ~lapsed => Exclusive

(* No reservation is held initially. *)
LEMMA ReservedInit == Init => Reserved
<1> SUFFICES ASSUME Init PROVE Reserved
  OBVIOUS
<1>1. \A h \in Handlers : hs[h].pc = "idle" /\ ~Creating(h)
  BY Zenon DEF Init, Idle, Creating
<1>2. checkout \in Reservations /\ checkout.state = "none" /\ ~checkout.expired
  BY Zenon DEF Init, NoReservation, Reservations
<1>3. \A k \in Keys : effects[<<"checkout", k>>] = 0
  BY DEF Init, Kinds
<1> QED BY <1>1, <1>2, <1>3 DEF Reserved, Exclusive, OnlyReservedIsOpen, CreatorsHoldIt, CreatorsAreAlone

(* A step that starts no checkout call and leaves the reservation and the  *)
(* checkouts made so far alone keeps the reservation exclusive.            *)
LEMMA ReservedElsewhere ==
  ASSUME Reserved, checkout' = checkout, active' \/ (active' = active /\ lapsed' = lapsed),
         \A k \in Keys : effects'[<<"checkout", k>>] = effects[<<"checkout", k>>],
         \A h \in Handlers : Creating(h)' => Creating(h) /\ hs'[h] = hs[h],
         \A h \in Handlers : Creating(h) => hs[h].key \in Keys,
         \A h \in Handlers : hs'[h].pc = "intend" => hs'[h].kind # "checkout"
  PROVE  Reserved'
<1>1. CASE active'
  BY <1>1 DEF Reserved
<1>2. CASE ~active' /\ active' = active /\ lapsed' = lapsed
  <2> SUFFICES ASSUME ~active, ~lapsed PROVE Exclusive'
    BY <1>2 DEF Reserved
  <2>1. Exclusive
    BY DEF Reserved
  <2>2. OnlyReservedIsOpen'
    BY <2>1 DEF Exclusive, OnlyReservedIsOpen
  <2>3. CreatorsHoldIt'
    <3> SUFFICES ASSUME NEW h \in Handlers, Creating(h)'
                 PROVE  /\ checkout'.state = "reserved" /\ checkout'.key = hs'[h].key
                        /\ hs'[h].pc = "call" \/ hs'[h].reply = "failed" => effects'[<<"checkout", hs'[h].key>>] = 0
      BY DEF CreatorsHoldIt
    <3>1. Creating(h) /\ hs'[h] = hs[h] /\ effects'[<<"checkout", hs[h].key>>] = effects[<<"checkout", hs[h].key>>]
      OBVIOUS
    <3> QED BY <3>1, <2>1 DEF Exclusive, CreatorsHoldIt
  <2>4. CreatorsAreAlone'
    BY <2>1 DEF Exclusive, CreatorsAreAlone
  <2> QED BY <2>1, <2>2, <2>3, <2>4 DEF Exclusive
<1> QED BY <1>1, <1>2

(* A request that takes the reservation becomes its only creator.          *)
LEMMA ReservedTake ==
  ASSUME Ledger, Reserved, NEW h \in Handlers, ReserveBillingCheckout(h), Takeable
  PROVE  Reserved'
<1>1. /\ hs[h].pc = "reserve" /\ hs[h].kind = "checkout" /\ hs[h].key \in Keys
      /\ checkout' = [state |-> "reserved", key |-> hs[h].key, url |-> FALSE, expired |-> FALSE]
      /\ hs' = [hs EXCEPT ![h].pc = "call"]
      /\ active' = active /\ lapsed' = lapsed /\ effects' = effects
  BY DEF ReserveBillingCheckout, At, Goto, polar, subscription, Ledger, LedgerTyped
<1>2. checkout' \in Reservations /\ checkout'.state = "reserved" /\ checkout'.key = hs[h].key /\ ~checkout'.expired
  BY <1>1, Zenon DEF Reservations
<1>3. hs'[h].kind = "checkout" /\ hs'[h].key = hs[h].key /\ hs'[h].pc = "call"
      /\ \A g \in Handlers : g # h => hs'[g] = hs[g]
  BY <1>1, Zenon DEF Ledger, LedgerTyped, HandlerStates
<1>4. \A g \in Handlers : hs'[g].pc = "intend" => hs'[g].kind # "checkout"
  BY <1>3 DEF Reserved
<1>5. ASSUME ~active, ~lapsed PROVE Exclusive'
  <2>1. Exclusive /\ checkout.state \in {"none", "failed"}
    BY <1>5 DEF Reserved, Exclusive, Takeable
  <2>2. \A g \in Handlers : ~Creating(g)
    BY <2>1, Zenon DEF Exclusive, CreatorsHoldIt
  <2>3. \A k \in Keys : ~(effects[<<"checkout", k>>] > 0)
    BY <2>1, Zenon DEF Exclusive, OnlyReservedIsOpen
  <2>4. effects[<<"checkout", hs[h].key>>] = 0
    <3>1. effects[<<"checkout", hs[h].key>>] \in Nat
      BY <1>1 DEF Ledger, LedgerTyped, Kinds
    <3> QED BY <1>1, <2>3, <3>1
  <2>5. \A g \in Handlers : Creating(g)' => g = h
    BY <2>2, <1>3 DEF Creating
  <2>6. OnlyReservedIsOpen'
    BY <2>3, <1>1 DEF OnlyReservedIsOpen
  <2>7. CreatorsHoldIt'
    BY <2>4, <2>5, <1>1, <1>2, <1>3 DEF CreatorsHoldIt
  <2>8. CreatorsAreAlone'
    BY <2>5 DEF CreatorsAreAlone
  <2> QED BY <2>6, <2>7, <2>8, <1>2 DEF Exclusive
<1> QED BY <1>1, <1>2, <1>4, <1>5 DEF Reserved

(* The call of a checkout: only the reserved key is carried out.           *)
LEMMA ReservedCall ==
  ASSUME Ledger, Reserved, NEW h \in Handlers, hs[h].kind = "checkout", hs[h].pc = "call",
         NEW reply \in {"succeeded", "failed", "uncertain"},
         hs' = [hs EXCEPT ![h].pc = "mark", ![h].reply = reply],
         NEW done \in {0, 1}, effects' = [effects EXCEPT ![Op(h)] = @ + done],
         reply = "failed" => done = 0,
         checkout' = checkout, active' = active, lapsed' = lapsed
  PROVE  Reserved'
<1>1. hs[h].key \in Keys /\ Op(h) = <<"checkout", hs[h].key>> /\ Op(h) \in Kinds \X Keys
  BY DEF Ledger, LedgerTyped, Op, Kinds
<1>2. effects \in [Kinds \X Keys -> Nat] /\ hs \in [Handlers -> HandlerStates]
  BY DEF Ledger, LedgerTyped
<1>3. hs'[h].kind = "checkout" /\ hs'[h].key = hs[h].key /\ hs'[h].pc = "mark" /\ hs'[h].reply = reply
      /\ \A g \in Handlers : g # h => hs'[g] = hs[g]
  BY <1>2, Zenon DEF HandlerStates
<1>4. \A g \in Handlers : hs'[g].pc = "intend" => hs'[g].kind # "checkout"
  BY <1>3, Zenon DEF Reserved
<1>5. Creating(h) /\ \A g \in Handlers : Creating(g)' => Creating(g)
  BY <1>3, Zenon DEF Creating
<1>6. ASSUME ~active, ~lapsed PROVE Exclusive'
  <2>1. Exclusive /\ checkout.state = "reserved" /\ checkout.key = hs[h].key /\ effects[Op(h)] = 0
    BY <1>6, <1>5, <1>1 DEF Reserved, Exclusive, CreatorsHoldIt
  <2>2. \A g \in Handlers : Creating(g)' => g = h
    BY <2>1, <1>5 DEF Exclusive, CreatorsAreAlone
  <2>3. \A k \in Keys : k # hs[h].key => effects'[<<"checkout", k>>] = effects[<<"checkout", k>>]
    BY <1>1, <1>2 DEF Kinds
  <2>4. OnlyReservedIsOpen'
    BY <2>1, <2>3 DEF Exclusive, OnlyReservedIsOpen
  <2>5. effects'[Op(h)] = done
    BY <2>1, <1>1, <1>2
  <2>6. CreatorsHoldIt'
    BY <2>1, <2>2, <2>5, <1>1, <1>3, Zenon DEF CreatorsHoldIt
  <2>7. CreatorsAreAlone'
    BY <2>2 DEF CreatorsAreAlone
  <2> QED BY <2>1, <2>4, <2>6, <2>7 DEF Exclusive
<1> QED BY <1>4, <1>6, Zenon DEF Reserved

(* Settling: a definite failure frees a reservation that sent nothing.     *)
LEMMA ReservedSettle ==
  ASSUME Ledger, Reserved, NEW h \in Handlers, SettleCheckout(h)
  PROVE  Reserved'
<1>1. /\ hs[h].pc = "mark" /\ hs[h].kind = "checkout" /\ hs[h].key \in Keys
      /\ checkout' = SettledReservation(h) /\ hs' = [hs EXCEPT ![h] = Idle]
      /\ active' = active /\ lapsed' = lapsed /\ effects' = effects
  BY DEF SettleCheckout, At, Return, polar, subscription, Ledger, LedgerTyped
<1>2. \A g \in Handlers : hs'[g] = IF g = h THEN Idle ELSE hs[g]
  BY <1>1 DEF Ledger, LedgerTyped
<1>0. Idle.pc = "idle"
  BY DEF Idle
<1>3. \A g \in Handlers : hs'[g].pc = "intend" => hs'[g].kind # "checkout"
  BY <1>0, <1>2 DEF Reserved
<1>4. \A g \in Handlers : Creating(g)' => g # h /\ Creating(g)
  BY <1>0, <1>2 DEF Creating
<1>5. /\ checkout' \in Reservations
      /\ checkout'.key = checkout.key /\ checkout'.expired = checkout.expired
      /\ \/ checkout'.state = checkout.state
         \/ checkout.state = "reserved" /\ checkout'.state = "uncertain"
         \/ checkout.state = "reserved" /\ checkout'.state = "failed" /\ hs[h].reply = "failed"
  <2>1. checkout \in Reservations
    BY DEF Reserved
  <2> QED BY <1>1, <2>1, Zenon DEF SettledReservation, Reservations
<1>6. ASSUME ~active, ~lapsed PROVE Exclusive'
  <2>1. Creating(h) /\ Exclusive
    BY <1>1, <1>6 DEF Creating, Reserved
  <2>2. \A g \in Handlers : ~Creating(g)'
    BY <2>1, <1>4 DEF Exclusive, CreatorsAreAlone
  <2>3. checkout.key = hs[h].key /\ (hs[h].reply = "failed" => effects[<<"checkout", checkout.key>>] = 0)
    BY <2>1, Zenon DEF Exclusive, CreatorsHoldIt
  <2>4. OnlyReservedIsOpen'
    BY <2>1, <2>3, <1>1, <1>5 DEF Exclusive, OnlyReservedIsOpen
  <2> QED BY <2>1, <2>2, <2>4, <1>5 DEF Exclusive, CreatorsHoldIt, CreatorsAreAlone
<1> QED BY <1>1, <1>3, <1>5, <1>6 DEF Reserved

(* Every step of every actor keeps the reservation exclusive.              *)
LEMMA ReservedNext == Ledger /\ Reserved /\ [Next]_vars => Reserved'
<1> SUFFICES ASSUME Ledger, Reserved, [Next]_vars PROVE Reserved'
  OBVIOUS
<1>a. /\ hs \in [Handlers -> HandlerStates] /\ effects \in [Kinds \X Keys -> Nat]
      /\ \A h \in Handlers : hs[h].pc # "idle" => hs[h].key \in Keys
      /\ \A h \in Handlers : Creating(h) => hs[h].key \in Keys
      /\ \A h \in Handlers : hs[h].pc = "intend" => hs[h].kind # "checkout"
  BY DEF Ledger, LedgerTyped, Creating, Reserved
<1>b. ASSUME NEW h \in Handlers, NEW v, hs' = [hs EXCEPT ![h] = v], ~(v.kind = "checkout" /\ v.pc \in {"intend", "call", "mark"}),
             checkout' = checkout, active' = active, lapsed' = lapsed,
             \A k \in Keys : effects'[<<"checkout", k>>] = effects[<<"checkout", k>>]
      PROVE  Reserved'
  <2>1. \A g \in Handlers : hs'[g] = IF g = h THEN v ELSE hs[g]
    BY <1>a, <1>b
  <2>2. \A g \in Handlers : Creating(g)' => Creating(g) /\ hs'[g] = hs[g]
    BY <1>b, <2>1 DEF Creating
  <2>3. \A g \in Handlers : hs'[g].pc = "intend" => hs'[g].kind # "checkout"
    BY <1>a, <1>b, <2>1
  <2> QED BY <1>a, <1>b, <2>2, <2>3, ReservedElsewhere
<1>c. ASSUME NEW h \in Handlers, Return(h), checkout' = checkout, active' = active, lapsed' = lapsed, effects' = effects
      PROVE Reserved'
  <2>1. hs' = [hs EXCEPT ![h] = Idle] /\ Idle.pc = "idle"
    BY <1>c, Zenon DEF Return, Idle
  <2> QED BY <1>b, <1>c, <2>1, Zenon
<1>d. ASSUME NEW h \in Handlers, NEW p, Goto(h, p), hs[h].kind # "checkout",
             checkout' = checkout, active' = active, lapsed' = lapsed, effects' = effects
      PROVE Reserved'
  <2> DEFINE v == [hs[h] EXCEPT !.pc = p]
  <2>1. hs' = [hs EXCEPT ![h] = v] /\ v.kind # "checkout"
    BY <1>a, <1>d, Zenon DEF Goto, HandlerStates
  <2> HIDE DEF v
  <2> QED BY <1>b, <1>d, <2>1, Zenon
<1>1. ASSUME NEW h \in Handlers, NEW k \in Keys, CreateCustomerPortal(h, k) \/ RunAutoTopups(h, k)
              \/ \E r \in Ranks : CreateCheckout(h, k, r)
      PROVE Reserved'
  <2>1. PICK kind, req : hs' = [hs EXCEPT ![h] = Request(kind, k, req)]
    BY <1>1, Zenon DEF CreateCustomerPortal, RunAutoTopups, CreateCheckout
  <2>2. Request(kind, k, req).pc = "reserve"
    BY DEF Request
  <2>3. checkout' = checkout /\ active' = active /\ lapsed' = lapsed /\ effects' = effects
    BY <1>1, Zenon DEF CreateCustomerPortal, RunAutoTopups, CreateCheckout, rows, polar, subscription
  <2> QED BY <1>b, <2>1, <2>2, <2>3, Zenon
<1>2. ASSUME NEW h \in Handlers, ReserveOperation(h) PROVE Reserved'
  <2>1. hs[h].kind # "checkout" /\ checkout' = checkout /\ active' = active /\ lapsed' = lapsed /\ effects' = effects
    BY <1>2 DEF ReserveOperation, OpKinds, polar, subscription
  <2>2. Return(h) \/ Goto(h, "intend") \/ Goto(h, "call")
    BY <1>2 DEF ReserveOperation, Goto
  <2> QED BY <1>c, <1>d, <2>1, <2>2
<1>3. ASSUME NEW h \in Handlers, ReserveBillingCheckout(h) PROVE Reserved'
  <2>1. CASE Takeable
    BY <1>3, <2>1, ReservedTake
  <2>2. CASE ~Takeable
    BY <1>3, <2>2, <1>c DEF ReserveBillingCheckout, polar, subscription
  <2> QED BY <2>1, <2>2
<1>4. ASSUME NEW h \in Handlers, SetPendingSubscriptionPlan(h) PROVE Reserved'
  <2>1. hs[h].kind # "checkout" /\ checkout' = checkout /\ active' = active /\ lapsed' = lapsed /\ effects' = effects
        /\ Goto(h, "call")
    BY <1>4, <1>a DEF SetPendingSubscriptionPlan, At, polar
  <2> QED BY <1>d, <2>1
<1>5. ASSUME NEW h \in Handlers, PersistPendingPlanFails(h) \/ PolarSucceeds(h) \/ PolarRefuses(h) \/ PolarOutcomeUncertain(h)
      PROVE Reserved'
  <2>1. PICK reply \in {"unsent", "succeeded", "failed", "uncertain"}, done \in {0, 1} :
          /\ hs[h].pc = "intend" \/ (hs[h].pc = "call" /\ reply # "unsent")
          /\ hs' = [hs EXCEPT ![h].pc = "mark", ![h].reply = reply]
          /\ effects' = [effects EXCEPT ![Op(h)] = @ + done]
          /\ reply = "failed" => done = 0
    <3>1. effects = [effects EXCEPT ![Op(h)] = @ + 0]
      <4>1. \A n \in Nat : n + 0 = n
        OBVIOUS
      <4> QED BY <1>a, <4>1
    <3>2. CASE PersistPendingPlanFails(h)
      BY <3>1, <3>2 DEF PersistPendingPlanFails, At, polar
    <3>3. CASE PolarSucceeds(h)
      BY <3>3 DEF PolarSucceeds, At, Reply, CarryOut
    <3>4. CASE PolarRefuses(h)
      BY <3>1, <3>4 DEF PolarRefuses, At, Reply, polar
    <3>5. CASE PolarOutcomeUncertain(h)
      BY <3>1, <3>5 DEF PolarOutcomeUncertain, At, Reply, CarryOut, polar
    <3> QED BY <1>5, <3>2, <3>3, <3>4, <3>5
  <2>2. checkout' = checkout /\ active' = active /\ lapsed' = lapsed
    BY <1>5 DEF PersistPendingPlanFails, PolarSucceeds, PolarRefuses, PolarOutcomeUncertain, rows, subscription
  <2>3. CASE hs[h].kind = "checkout"
    <3>1. hs[h].pc = "call" /\ reply \in {"succeeded", "failed", "uncertain"}
      BY <1>a, <2>1, <2>3
    <3> QED BY <2>1, <2>2, <2>3, <3>1, ReservedCall, Zenon
  <2>4. CASE hs[h].kind # "checkout"
    <3> DEFINE v == [hs[h] EXCEPT !.pc = "mark", !.reply = reply]
    <3>1. hs' = [hs EXCEPT ![h] = v] /\ v.kind # "checkout"
      BY <1>a, <2>1, <2>4, Zenon DEF HandlerStates
    <3>2. \A k \in Keys : <<"checkout", k>> # Op(h)
      BY <2>4 DEF Op
    <3>3. \A k \in Keys : effects'[<<"checkout", k>>] = effects[<<"checkout", k>>]
      BY <1>a, <2>1, <3>2 DEF Kinds
    <3> HIDE DEF v
    <3> QED BY <1>b, <2>2, <3>1, <3>3, Zenon
  <2> QED BY <2>3, <2>4
<1>6. ASSUME NEW h \in Handlers, MarkOperation(h) PROVE Reserved'
  <2>1. hs[h].kind # "checkout" /\ checkout' = checkout /\ active' = active /\ lapsed' = lapsed /\ effects' = effects
    BY <1>6 DEF MarkOperation, OpKinds, polar, subscription
  <2>2. Return(h) \/ Goto(h, "clear") \/ Goto(h, "disable")
    BY <1>6 DEF MarkOperation
  <2> QED BY <1>c, <1>d, <2>1, <2>2
<1>7. ASSUME NEW h \in Handlers, ClearRefusedPlan(h) \/ DisableAutoTopup(h) \/ LoseHandler(h) PROVE Reserved'
  <2>1. Return(h) /\ checkout' = checkout /\ active' = active /\ lapsed' = lapsed /\ effects' = effects
    BY <1>7 DEF ClearRefusedPlan, DisableAutoTopup, LoseHandler, rows, polar, subscription
  <2> QED BY <1>c, <2>1
<1>8. ASSUME NEW h \in Handlers, SettleCheckout(h) PROVE Reserved'
  BY <1>8, ReservedSettle
<1>9. CASE ExpireReservation
  <2>1. checkout' \in Reservations
    BY <1>9, Zenon DEF ExpireReservation, Reserved, Reservations
  <2>2. lapsed' /\ hs' = hs
    BY <1>9 DEF ExpireReservation
  <2> QED BY <2>1, <2>2, <1>a DEF Reserved
<1>10. CASE PlanChanged \/ \E k \in Keys : CheckoutPaid(k)
  <2>1. checkout' \in Reservations
    <3>1. ClearReservation
      BY <1>10, Zenon DEF PlanChanged, CheckoutPaid
    <3> QED BY <3>1, Zenon DEF ClearReservation, Reserved, Reservations
  <2>2. active' /\ hs' = hs
    <3>1. CASE PlanChanged
      BY <3>1, Zenon DEF PlanChanged
    <3>2. CASE \E k \in Keys : CheckoutPaid(k)
      BY <3>2, Zenon DEF CheckoutPaid
    <3> QED BY <1>10, <3>1, <3>2
  <2> QED BY <2>1, <2>2, <1>a DEF Reserved
<1>11. ASSUME NEW kind \in Kinds, NEW k \in Keys, Recover(kind, k) PROVE Reserved'
  <2>1. hs' = hs /\ effects' = effects /\ active' = active /\ lapsed' = lapsed
    BY <1>11 DEF Recover, polar, subscription
  <2>2. \A g \in Handlers : Creating(g)' <=> Creating(g)
    BY <2>1 DEF Creating
  <2>3. CASE checkout' = checkout
    BY <2>1, <2>2, <2>3, <1>a, ReservedElsewhere
  <2>4. CASE kind = "checkout" /\ checkout.state = "uncertain" /\ checkout.key = k
             /\ checkout' = [checkout EXCEPT !.state = "failed"]
    <3>1. checkout' \in Reservations /\ checkout'.state = "failed" /\ checkout'.expired = checkout.expired
      BY <2>4, Zenon DEF Reserved, Reservations
    <3>2. effects[<<"checkout", checkout.key>>] = 0
      BY <1>11, <2>4 DEF Recover
    <3>3. ASSUME ~active, ~lapsed PROVE Exclusive'
      <4>1. Exclusive
        BY <3>3 DEF Reserved
      <4>2. \A g \in Handlers : ~Creating(g)
        BY <4>1, <2>4 DEF Exclusive, CreatorsHoldIt
      <4>3. \A j \in Keys : ~(effects[<<"checkout", j>>] > 0)
        <5>1. ASSUME NEW j \in Keys, effects[<<"checkout", j>>] > 0 PROVE FALSE
          <6>1. j = checkout.key
            BY <4>1, <5>1 DEF Exclusive, OnlyReservedIsOpen
          <6> QED BY <3>2, <5>1, <6>1
        <5> QED BY <5>1, Zenon
      <4>4. OnlyReservedIsOpen'
        BY <4>3, <2>1 DEF OnlyReservedIsOpen
      <4> QED BY <4>1, <4>2, <4>4, <2>2, <3>1 DEF Exclusive, CreatorsHoldIt, CreatorsAreAlone
    <3> QED BY <3>1, <3>3, <2>1, <1>a DEF Reserved
  <2> QED BY <1>11, <2>3, <2>4 DEF Recover
<1>12. CASE SetAutoTopupPolicy \/ UNCHANGED vars
  <2>1. hs' = hs /\ effects' = effects /\ active' = active /\ lapsed' = lapsed /\ checkout' = checkout
    BY <1>12 DEF SetAutoTopupPolicy, vars, rows, polar, subscription
  <2>2. \A g \in Handlers : Creating(g)' <=> Creating(g)
    BY <2>1 DEF Creating
  <2> QED BY <2>1, <2>2, <1>a, ReservedElsewhere
<1> QED BY <1>1, <1>2, <1>3, <1>4, <1>5, <1>6, <1>7, <1>8, <1>9, <1>10, <1>11, <1>12 DEF Next, HandlerStep

(* A user without a subscription never has two checkouts that can be paid, *)
(* being created or open, until a reservation runs out: retries, refusals, *)
(* timeouts, lost handlers and recoveries included (ReserveBillingCheckout *)
(* takes a row only when nothing was sent for it).                         *)
THEOREM OneOpenCheckoutAlways == Spec => []OneOpenCheckout
<1>1. Ledger /\ Reserved => OneOpenCheckout
  <2> SUFFICES ASSUME Ledger, Reserved, ~active, ~lapsed,
                      NEW a \in (OpenCheckouts \X {"open"}) \union (CheckoutCalls \X {"call"}),
                      NEW b \in (OpenCheckouts \X {"open"}) \union (CheckoutCalls \X {"call"})
               PROVE  a = b
    BY DEF OneOpenCheckout
  <2>1. Exclusive
    BY DEF Reserved
  <2>2. \A k \in OpenCheckouts : k = checkout.key /\ effects[<<"checkout", k>>] > 0
    BY <2>1 DEF Exclusive, OnlyReservedIsOpen, OpenCheckouts
  <2>3. ASSUME NEW h \in CheckoutCalls
        PROVE  h \in Handlers /\ Creating(h) /\ effects[<<"checkout", checkout.key>>] = 0
    <3>1. h \in Handlers /\ hs[h].pc = "call" /\ Creating(h)
      BY DEF CheckoutCalls, At, Creating
    <3> QED BY <2>1, <3>1 DEF Exclusive, CreatorsHoldIt
  <2>4. CASE a \in OpenCheckouts \X {"open"} /\ b \in OpenCheckouts \X {"open"}
    <3>1. PICK k \in OpenCheckouts, j \in OpenCheckouts : a = <<k, "open">> /\ b = <<j, "open">>
      BY <2>4
    <3>2. k = j
      BY <2>2
    <3> QED BY <3>1, <3>2
  <2>5. CASE a \in CheckoutCalls \X {"call"} /\ b \in CheckoutCalls \X {"call"}
    BY <2>1, <2>3, <2>5 DEF Exclusive, CreatorsAreAlone
  <2>6. OpenCheckouts = {} \/ CheckoutCalls = {}
    <3>1. ASSUME NEW k \in OpenCheckouts, NEW h \in CheckoutCalls PROVE FALSE
      <4>1. effects[<<"checkout", k>>] > 0 /\ effects[<<"checkout", k>>] = 0
        BY <2>2, <2>3
      <4>2. ~(0 > 0)
        OBVIOUS
      <4> QED BY <4>1, <4>2
    <3> QED BY <3>1
  <2>7. CASE OpenCheckouts = {}
    BY <2>5, <2>7
  <2>8. CASE CheckoutCalls = {}
    BY <2>4, <2>8
  <2> QED BY <2>6, <2>7, <2>8
<1> QED BY <1>1, LedgerInit, LedgerNext, ReservedInit, ReservedNext, PTL DEF Spec

-----------------------------------------------------------------------------
(* The pending plan of a downgrade.  Three invariants: what a request for  *)
(* a downgrade implies, how many faults lie behind a refusal and behind an *)
(* unknown outcome, and which keys the pending plan is kept for.           *)

Updates(k) == <<"update", k>>

AskedBy(h) ==
  /\ hs[h].req[2] = "next_period" => hs[h].kind = "update" /\ hs[h].req[1] \in Ranks
  /\ hs[h].pc = "intend" => hs[h].req[2] = "next_period"
  /\ hs[h].kind = "update" => active
  /\ Holding(h) => ops[Op(h)].req = hs[h].req

Asked ==
  /\ \A h \in Handlers : AskedBy(h)
  /\ \A k \in Keys :
       /\ ops[Updates(k)].state # "none" => active
       /\ ops[Updates(k)].req[2] = "next_period" => ops[Updates(k)].req[1] \in Ranks
  /\ next # 0 => \E k \in Keys : effects[Updates(k)] > 0

(* A handler whose call was refused, and one that does not know.           *)
Refused(h) == hs[h].pc = "clear" \/ (hs[h].pc = "mark" /\ hs[h].reply = "failed")
Unsure(h) == hs[h].pc = "mark" /\ hs[h].reply = "uncertain"
InDoubt == (\E h \in Handlers : Unsure(h)) \/ (\E o \in OpKinds \X Keys : ops[o].state = "uncertain")

Faulted ==
  /\ faults \in Nat
  /\ (\E h \in Handlers : Refused(h)) \/ InDoubt => faults >= 1
  /\ (\E h \in Handlers : Refused(h)) /\ InDoubt => faults >= 2

(* The plan change of k was sent, or is about to be, and may be answered   *)
(* by the timeout that is the only fault.                                  *)
Awaiting(k) ==
  \/ faults <= 1 /\ ops[Updates(k)].state = "uncertain"
  \/ faults <= 1 /\ \E h \in Handlers : hs[h].kind = "update" /\ hs[h].key = k /\ Unsure(h)
  \/ faults = 0 /\ \E h \in Handlers : hs[h].kind = "update" /\ hs[h].key = k /\ hs[h].pc = "call"

OnlyChange(k) == \A j \in Keys \ {k} : ops[Updates(j)].state = "none"
NotYetReplaced(k) == effects[Updates(k)] = 0 \/ next = ops[Updates(k)].req[1]

Kept ==
  \A k \in Keys :
    Awaiting(k) /\ OnlyChange(k) /\ NotYetReplaced(k) /\ ops[Updates(k)].req[2] = "next_period"
      => pending = ops[Updates(k)].req[1]

(* The invariants behind PendingIntentKept hold initially. *)
LEMMA KeptInit == Init => Asked /\ Faulted /\ Kept
<1> SUFFICES ASSUME Init PROVE Asked /\ Faulted /\ Kept
  OBVIOUS
<1>1. /\ Idle.pc = "idle" /\ Idle.kind = "portal" /\ Idle.req[2] = ""
      /\ \A h \in Handlers : hs[h] = Idle
  BY Zenon DEF Idle, Init
<1>2. \A o \in OpKinds \X Keys : ops[o] = NoOp
  BY DEF Init
<1>3. NoOp.state = "none" /\ NoOp.req[2] = ""
  BY DEF NoOp
<1>4. \A k \in Keys : Updates(k) \in OpKinds \X Keys
  BY DEF Updates, OpKinds
<1>5. Asked
  BY <1>1, <1>2, <1>3, <1>4, Zenon DEF Init, Asked, AskedBy, Holding
<1>6. ~InDoubt /\ \A h \in Handlers : ~Refused(h) /\ ~Unsure(h)
  BY <1>1, <1>2, <1>3, Zenon DEF InDoubt, Refused, Unsure
<1>7. Faulted
  BY <1>6 DEF Init, Faulted
<1>8. Kept
  BY <1>2, <1>3, <1>4, Zenon DEF Kept
<1> QED BY <1>5, <1>7, <1>8

(* A step after which every handler is idle or asks for what it asked for, *)
(* and no row is new or asks for something else.                           *)
LEMMA AskedElsewhere ==
  ASSUME Asked, active' \/ active' = active,
         \A g \in Handlers :
           \/ hs'[g] = Idle
           \/ /\ hs'[g].kind = hs[g].kind /\ hs'[g].key = hs[g].key /\ hs'[g].req = hs[g].req
              /\ hs'[g].pc = "intend" => hs[g].pc = "intend"
              /\ Holding(g)' => Holding(g)
              /\ Holding(g) => Op(g) \in OpKinds \X Keys,
         \A o \in OpKinds \X Keys : ops'[o].req = ops[o].req /\ (ops[o].state = "none" => ops'[o].state = "none"),
         next' # 0 => \E k \in Keys : effects'[Updates(k)] > 0
  PROVE  Asked'
<1>0. \A k \in Keys : Updates(k) \in OpKinds \X Keys
  BY Zenon DEF Updates, OpKinds
<1>1. ASSUME NEW g \in Handlers PROVE AskedBy(g)'
  <2>1. CASE hs'[g] = Idle
    <3>1. Idle.pc = "idle" /\ Idle.kind = "portal" /\ Idle.req[2] = ""
      BY Zenon DEF Idle
    <3> QED BY <2>1, <3>1, Zenon DEF AskedBy, Holding
  <2>2. CASE hs'[g] # Idle
    <3>1. /\ hs'[g].kind = hs[g].kind /\ hs'[g].req = hs[g].req /\ Op(g)' = Op(g)
          /\ hs'[g].pc = "intend" => hs[g].pc = "intend"
      BY <2>2, Zenon DEF Op
    <3>2. AskedBy(g)
      BY DEF Asked
    <3>3. Holding(g)' => ops'[Op(g)'].req = hs'[g].req
      BY <2>2, <3>1, <3>2 DEF AskedBy
    <3>4. hs'[g].kind = "update" => active'
      BY <3>1, <3>2, Zenon DEF AskedBy
    <3> QED BY <3>1, <3>2, <3>3, <3>4 DEF AskedBy
  <2> QED BY <2>1, <2>2
<1>2. ASSUME NEW k \in Keys
      PROVE  /\ ops'[Updates(k)].state # "none" => active'
             /\ ops'[Updates(k)].req[2] = "next_period" => ops'[Updates(k)].req[1] \in Ranks
  <2>1. /\ ops'[Updates(k)].req = ops[Updates(k)].req
        /\ ops[Updates(k)].state = "none" => ops'[Updates(k)].state = "none"
    BY <1>0
  <2>2. /\ ops[Updates(k)].state # "none" => active
        /\ ops[Updates(k)].req[2] = "next_period" => ops[Updates(k)].req[1] \in Ranks
    BY DEF Asked
  <2> QED BY <2>1, <2>2
<1>3. \A k : Updates(k)' = Updates(k)
  BY DEF Updates
<1> QED BY <1>1, <1>2, <1>3 DEF Asked

(* Reserving a key for a plan change writes what the request asks for.     *)
LEMMA AskedTake ==
  ASSUME Ledger, Asked, NEW h \in Handlers, ReserveOperation(h), Reservable(Op(h), hs[h].req)
  PROVE  Asked'
<1> DEFINE row == [state |-> "pending", req |-> hs[h].req]
           p == IF hs[h].req[2] = "next_period" THEN "intend" ELSE "call"
<1>1. /\ hs[h].kind \in OpKinds /\ hs[h].pc = "reserve"
      /\ hs' = [hs EXCEPT ![h].pc = p] /\ ops' = [ops EXCEPT ![Op(h)] = row]
      /\ active' = active /\ next' = next /\ effects' = effects
      /\ ops[Op(h)].state \in {"none", "failed"}
  BY DEF ReserveOperation, At, Goto, subscription, polar, Reservable
<1>2. /\ hs \in [Handlers -> HandlerStates] /\ ops \in [OpKinds \X Keys -> OpRows]
      /\ Op(h) \in OpKinds \X Keys
  BY <1>1, OpInTable DEF Ledger, LedgerTyped
<1>3. row.state = "pending" /\ row.req = hs[h].req /\ (p = "intend" => hs[h].req[2] = "next_period")
  OBVIOUS
<1>4. /\ hs'[h].pc = p /\ hs'[h].kind = hs[h].kind /\ hs'[h].key = hs[h].key /\ hs'[h].req = hs[h].req
      /\ \A g \in Handlers : g # h => hs'[g] = hs[g]
  BY <1>1, <1>2, Zenon DEF HandlerStates
<1> HIDE DEF row, p
<1>5. \A o \in OpKinds \X Keys : ops'[o] = IF o = Op(h) THEN row ELSE ops[o]
  BY <1>1, <1>2
<1>6. \A g \in Handlers : AskedBy(g)
  BY DEF Asked
<1>7. AskedBy(h)'
  <2>1. Op(h)' = Op(h)
    BY <1>4 DEF Op
  <2> QED BY <2>1, <1>1, <1>2, <1>3, <1>4, <1>5, <1>6 DEF AskedBy
<1>8. ASSUME NEW g \in Handlers, g # h PROVE AskedBy(g)'
  <2>1. hs'[g] = hs[g] /\ Op(g)' = Op(g) /\ (Holding(g)' <=> Holding(g))
    BY <1>4, <1>8 DEF Op, Holding
  <2>2. Holding(g) => Op(g) # Op(h) /\ Op(g) \in OpKinds \X Keys
    BY <1>1, OpInTable DEF Ledger, HoldersArePending, Holding
  <2>3. Holding(g)' => ops'[Op(g)'].req = hs'[g].req
    BY <2>1, <2>2, <1>5, <1>6 DEF AskedBy
  <2> QED BY <2>1, <2>3, <1>1, <1>6 DEF AskedBy
<1>9. ASSUME NEW k \in Keys
      PROVE  /\ ops'[Updates(k)].state # "none" => active'
             /\ ops'[Updates(k)].req[2] = "next_period" => ops'[Updates(k)].req[1] \in Ranks
  <2>1. Updates(k) \in OpKinds \X Keys
    BY DEF Updates, OpKinds
  <2>2. CASE Updates(k) = Op(h)
    <3>1. hs[h].kind = "update"
      BY <2>2 DEF Updates, Op
    <3> QED BY <3>1, <2>1, <2>2, <1>1, <1>3, <1>5, <1>6 DEF AskedBy
  <2>3. CASE Updates(k) # Op(h)
    <3>1. ops'[Updates(k)] = ops[Updates(k)]
      BY <2>1, <2>3, <1>5
    <3> QED BY <3>1, <1>1 DEF Asked
  <2> QED BY <2>2, <2>3
<1>10. \A k : Updates(k)' = Updates(k)
  BY DEF Updates
<1> QED BY <1>1, <1>7, <1>8, <1>9, <1>10 DEF Asked

(* Every step keeps Asked. *)
LEMMA AskedNext == Ledger /\ Asked /\ [Next]_vars => Asked'
<1> SUFFICES ASSUME Ledger, Asked, [Next]_vars PROVE Asked'
  OBVIOUS
<1>a. /\ hs \in [Handlers -> HandlerStates] /\ effects \in [Kinds \X Keys -> Nat]
      /\ ops \in [OpKinds \X Keys -> OpRows]
      /\ \A h \in Handlers : hs[h].pc # "idle" => hs[h].key \in Keys
      /\ \A g \in Handlers : Holding(g) => Op(g) \in OpKinds \X Keys
  BY OpInTable DEF Ledger, LedgerTyped, Holding
<1>n. next # 0 => \E k \in Keys : effects[Updates(k)] > 0
  BY DEF Asked
<1>c. ASSUME NEW h \in Handlers, Return(h), ops' = ops, effects' = effects, active' = active, next' = next PROVE Asked'
  <2>1. \A g \in Handlers : hs'[g] = Idle \/ hs'[g] = hs[g]
    BY <1>a, <1>c DEF Return
  <2>2. \A g \in Handlers : hs'[g] = hs[g] => (Holding(g)' <=> Holding(g))
    BY DEF Holding
  <2> QED BY <1>a, <1>c, <1>n, <2>1, <2>2, AskedElsewhere
<1>d. ASSUME NEW h \in Handlers, NEW p, NEW reply, hs[h].pc # "idle",
             hs' = [hs EXCEPT ![h] = [hs[h] EXCEPT !.pc = p, !.reply = reply]],
             p # "intend", Holding(h) \/ hs[h].kind = "checkout" \/ p \in {"clear", "disable"},
             active' = active, next' # 0 => \E k \in Keys : effects'[Updates(k)] > 0,
             \A o \in OpKinds \X Keys : ops'[o].req = ops[o].req /\ (ops[o].state = "none" => ops'[o].state = "none")
      PROVE Asked'
  <2>1. /\ hs'[h].pc = p /\ hs'[h].kind = hs[h].kind /\ hs'[h].key = hs[h].key /\ hs'[h].req = hs[h].req
        /\ \A g \in Handlers : g # h => hs'[g] = hs[g]
    BY <1>a, <1>d, Zenon DEF HandlerStates
  <2>2. \A g \in Handlers : Holding(g)' => Holding(g)
    BY <1>d, <2>1 DEF Holding, OpKinds
  <2> QED BY <1>a, <1>d, <2>1, <2>2, AskedElsewhere
<1>1. ASSUME NEW h \in Handlers, NEW k \in Keys, CreateCustomerPortal(h, k) \/ RunAutoTopups(h, k)
              \/ \E r \in Ranks : CreateCheckout(h, k, r)
      PROVE Asked'
  <2>1. ops' = ops /\ effects' = effects /\ active' = active /\ next' = next
    BY <1>1, Zenon DEF CreateCustomerPortal, RunAutoTopups, CreateCheckout, rows, polar, subscription
  <2>2. PICK kind, req : /\ hs' = [hs EXCEPT ![h] = Request(kind, k, req)]
                         /\ req[2] = "next_period" => kind = "update" /\ req[1] \in Ranks
                         /\ kind = "update" => active
    <3>1. CASE CreateCustomerPortal(h, k)
      <4> DEFINE none == <<0, "">>
      <4>1. hs' = [hs EXCEPT ![h] = Request("portal", k, none)]
        BY <3>1, Zenon DEF CreateCustomerPortal
      <4>2. none[2] # "next_period" /\ "portal" # "update"
        OBVIOUS
      <4> HIDE DEF none
      <4> QED BY <4>1, <4>2, Zenon
    <3>2. CASE RunAutoTopups(h, k)
      <4> DEFINE none == <<0, "">>
      <4>1. hs' = [hs EXCEPT ![h] = Request("topup", k, none)]
        BY <3>2, Zenon DEF RunAutoTopups
      <4>2. none[2] # "next_period" /\ "topup" # "update"
        OBVIOUS
      <4> HIDE DEF none
      <4> QED BY <4>1, <4>2, Zenon
    <3>3. ASSUME NEW r \in Ranks, CreateCheckout(h, k, r), active
          PROVE  \E kind, req : /\ hs' = [hs EXCEPT ![h] = Request(kind, k, req)]
                                /\ req[2] = "next_period" => kind = "update" /\ req[1] \in Ranks
                                /\ kind = "update" => active
      <4>1. hs' = [hs EXCEPT ![h] = Request("update", k, <<r, Behavior(r)>>)] /\ <<r, Behavior(r)>>[1] = r
        BY <3>3 DEF CreateCheckout
      <4> QED BY <4>1, <3>3, Zenon
    <3>4. ASSUME NEW r \in Ranks, CreateCheckout(h, k, r), ~active
          PROVE  \E kind, req : /\ hs' = [hs EXCEPT ![h] = Request(kind, k, req)]
                                /\ req[2] = "next_period" => kind = "update" /\ req[1] \in Ranks
                                /\ kind = "update" => active
      <4> DEFINE first == <<r, "">>
      <4>1. hs' = [hs EXCEPT ![h] = Request("checkout", k, first)]
        BY <3>4, Zenon DEF CreateCheckout
      <4>2. first[2] # "next_period" /\ "checkout" # "update"
        OBVIOUS
      <4> HIDE DEF first
      <4> QED BY <4>1, <4>2, Zenon
    <3> QED BY <1>1, <3>1, <3>2, <3>3, <3>4
  <2>3. /\ Request(kind, k, req).pc = "reserve" /\ Request(kind, k, req).kind = kind
        /\ Request(kind, k, req).req = req
    BY DEF Request
  <2>4. hs'[h] = Request(kind, k, req) /\ \A g \in Handlers : g # h => hs'[g] = hs[g]
    BY <1>a, <2>2
  <2>5. AskedBy(h)'
    BY <2>1, <2>2, <2>3, <2>4 DEF AskedBy, Holding
  <2>6. ASSUME NEW g \in Handlers, g # h PROVE AskedBy(g)'
    <3>1. hs'[g] = hs[g] /\ Op(g)' = Op(g) /\ (Holding(g)' <=> Holding(g)) /\ AskedBy(g)
      BY <2>4, <2>6 DEF Op, Holding, Asked
    <3> QED BY <3>1, <2>1 DEF AskedBy
  <2>7. \A j : Updates(j)' = Updates(j)
    BY DEF Updates
  <2> QED BY <2>1, <2>5, <2>6, <2>7 DEF Asked
<1>2. ASSUME NEW h \in Handlers, ReserveOperation(h) PROVE Asked'
  <2>1. CASE Reservable(Op(h), hs[h].req)
    BY <1>2, <2>1, AskedTake
  <2>2. CASE ~Reservable(Op(h), hs[h].req)
    BY <1>2, <2>2, <1>c DEF ReserveOperation, polar, subscription
  <2> QED BY <2>1, <2>2
<1>3. ASSUME NEW h \in Handlers, ReserveBillingCheckout(h) PROVE Asked'
  <2>0. ops' = ops /\ effects' = effects /\ active' = active /\ next' = next
    BY <1>3 DEF ReserveBillingCheckout, polar, subscription
  <2>1. CASE Takeable
    <3>1. hs' = [hs EXCEPT ![h] = [hs[h] EXCEPT !.pc = "call", !.reply = hs[h].reply]]
          /\ hs[h].pc = "reserve" /\ hs[h].kind = "checkout"
      BY <1>3, <2>1, <1>a, Zenon DEF ReserveBillingCheckout, Goto, At, HandlerStates
    <3> QED BY <3>1, <2>0, <1>d, <1>n, Zenon
  <2>2. CASE ~Takeable
    BY <1>3, <2>0, <2>2, <1>c DEF ReserveBillingCheckout
  <2> QED BY <2>1, <2>2
<1>4. ASSUME NEW h \in Handlers, SetPendingSubscriptionPlan(h) PROVE Asked'
  <2>1. ops' = ops /\ effects' = effects /\ active' = active /\ next' = next /\ hs[h].pc = "intend"
    BY <1>4 DEF SetPendingSubscriptionPlan, polar, At
  <2>2. hs' = [hs EXCEPT ![h] = [hs[h] EXCEPT !.pc = "call", !.reply = hs[h].reply]]
    BY <1>4, <1>a, Zenon DEF SetPendingSubscriptionPlan, Goto, HandlerStates
  <2>3. Holding(h) \/ hs[h].kind = "checkout"
    BY <2>1, <1>a, Zenon DEF Holding, HandlerStates, Kinds
  <2> QED BY <2>1, <2>2, <2>3, <1>d, <1>n, Zenon
<1>5. ASSUME NEW h \in Handlers, PersistPendingPlanFails(h) \/ PolarSucceeds(h) \/ PolarRefuses(h) \/ PolarOutcomeUncertain(h)
      PROVE Asked'
  <2>1. /\ ops' = ops /\ active' = active
        /\ (effects' = effects /\ next' = next) \/ CarryOut(h)
        /\ hs[h].pc \in {"intend", "call"}
        /\ \E reply : hs' = [hs EXCEPT ![h] = [hs[h] EXCEPT !.pc = "mark", !.reply = reply]]
    BY <1>5, Zenon DEF PersistPendingPlanFails, PolarSucceeds, PolarRefuses, PolarOutcomeUncertain, rows, polar, subscription, At, Reply
  <2>2. Holding(h) \/ hs[h].kind = "checkout"
    BY <2>1, <1>a, Zenon DEF Holding, HandlerStates, Kinds
  <2>3. next' # 0 => \E k \in Keys : effects'[Updates(k)] > 0
    <3>1. CASE effects' = effects /\ next' = next
      BY <3>1, <1>n
    <3>2. CASE CarryOut(h)
      <4>0. hs[h].key \in Keys /\ Op(h) \in Kinds \X Keys
        BY <2>1, <1>a, Zenon DEF Op, HandlerStates
      <4>1. effects' = [effects EXCEPT ![Op(h)] = @ + 1]
        BY <3>2 DEF CarryOut
      <4>2. CASE hs[h].kind = "update"
        <5>1. Updates(hs[h].key) = Op(h) /\ effects'[Op(h)] = effects[Op(h)] + 1 /\ effects[Op(h)] \in Nat
          BY <4>0, <4>1, <4>2, <1>a DEF Updates, Op
        <5>2. effects'[Updates(hs[h].key)] > 0
          BY <5>1
        <5> QED BY <5>2, <4>0
      <4>3. CASE hs[h].kind # "update"
        <5>1. next' = next /\ \A k \in Keys : Updates(k) # Op(h) /\ Updates(k) \in Kinds \X Keys
          BY <3>2, <4>3 DEF CarryOut, Updates, Op, Kinds, OpKinds
        <5>2. \A k \in Keys : effects'[Updates(k)] = effects[Updates(k)]
          BY <5>1, <4>1, <1>a
        <5> QED BY <5>1, <5>2, <1>n
      <4> QED BY <4>2, <4>3
    <3> QED BY <2>1, <3>1, <3>2
  <2> QED BY <2>1, <2>2, <2>3, <1>d, Zenon
<1>6. ASSUME NEW h \in Handlers, MarkOperation(h) PROVE Asked'
  <2>1. /\ hs[h].pc = "mark" /\ hs[h].kind \in OpKinds /\ effects' = effects /\ next' = next /\ active' = active
        /\ Holding(h) /\ ops[Op(h)].state = "pending" /\ Op(h) \in OpKinds \X Keys
    BY <1>6, <1>a DEF MarkOperation, At, polar, subscription, Holding, Ledger, HoldersArePending
  <2>2. \E st : ops' = [ops EXCEPT ![Op(h)].state = st]
    BY <1>6, <2>1, Zenon DEF MarkOperation
  <2>3. \A o \in OpKinds \X Keys : ops'[o].req = ops[o].req /\ (ops[o].state = "none" => ops'[o].state = "none")
    BY <2>1, <2>2, <1>a DEF OpRows
  <2>4. Return(h) \/ Goto(h, "clear") \/ Goto(h, "disable")
    BY <1>6 DEF MarkOperation
  <2>5. CASE Return(h)
    <3>1. \A g \in Handlers : hs'[g] = Idle \/ hs'[g] = hs[g]
      BY <1>a, <2>5 DEF Return
    <3>2. \A g \in Handlers : hs'[g] = hs[g] => (Holding(g)' <=> Holding(g))
      BY DEF Holding
    <3> QED BY <1>a, <1>n, <2>1, <2>3, <3>1, <3>2, AskedElsewhere
  <2>6. ASSUME NEW p \in {"clear", "disable"}, Goto(h, p) PROVE Asked'
    <3>1. hs' = [hs EXCEPT ![h] = [hs[h] EXCEPT !.pc = p, !.reply = hs[h].reply]]
      BY <2>6, <1>a, Zenon DEF Goto, HandlerStates
    <3> QED BY <3>1, <2>1, <2>3, <1>d, <1>n, Zenon
  <2> QED BY <2>4, <2>5, <2>6
<1>7. ASSUME NEW h \in Handlers, ClearRefusedPlan(h) \/ DisableAutoTopup(h) \/ SettleCheckout(h) \/ LoseHandler(h)
      PROVE Asked'
  <2>1. Return(h) /\ ops' = ops /\ effects' = effects /\ active' = active /\ next' = next
    BY <1>7 DEF ClearRefusedPlan, DisableAutoTopup, SettleCheckout, LoseHandler, rows, polar, subscription
  <2> QED BY <2>1, <1>c
<1>e. ASSUME hs' = hs, \A o \in OpKinds \X Keys : ops'[o].req = ops[o].req /\ (ops[o].state = "none" => ops'[o].state = "none"),
             active' \/ active' = active, next' # 0 => next' = next, effects' = effects
      PROVE Asked'
  <2>1. \A g \in Handlers : hs'[g] = hs[g] /\ (Holding(g)' <=> Holding(g))
    BY <1>e DEF Holding
  <2> QED BY <1>a, <1>e, <1>n, <2>1, AskedElsewhere
<1>8. CASE ExpireReservation \/ PlanChanged \/ SetAutoTopupPolicy \/ (\E k \in Keys : CheckoutPaid(k)) \/ UNCHANGED vars
  <2>1. ops' = ops /\ hs' = hs /\ effects' = effects /\ (next' # 0 => next' = next) /\ (active' \/ active' = active)
    BY <1>8, Zenon DEF ExpireReservation, PlanChanged, SetAutoTopupPolicy, CheckoutPaid, polar, rows, vars, subscription
  <2> QED BY <2>1, <1>e
<1>9. ASSUME NEW kind \in Kinds, NEW k \in Keys, Recover(kind, k) PROVE Asked'
  <2>1. hs' = hs /\ effects' = effects /\ active' = active /\ next' = next
    BY <1>9 DEF Recover, polar, subscription
  <2>2. \A o \in OpKinds \X Keys : ops'[o].req = ops[o].req /\ (ops[o].state = "none" => ops'[o].state = "none")
    <3>1. CASE kind \in OpKinds /\ ops[<<kind, k>>].state = "uncertain"
               /\ ops' = [ops EXCEPT ![<<kind, k>>].state = "failed"]
      <4>1. <<kind, k>> \in OpKinds \X Keys
        BY <3>1
      <4> QED BY <3>1, <4>1, <1>a DEF OpRows
    <3>2. CASE ops' = ops
      BY <3>2
    <3> QED BY <1>9, <3>1, <3>2 DEF Recover
  <2> QED BY <2>1, <2>2, <1>e
<1> QED BY <1>1, <1>2, <1>3, <1>4, <1>5, <1>6, <1>7, <1>8, <1>9 DEF Next, HandlerStep

(* A step that brings neither a refusal nor an unknown outcome, or counts  *)
(* a fault for the one it brings.                                          *)
LEMMA FaultedStep ==
  ASSUME Faulted,
         \/ faults' = faults /\ (\A g \in Handlers : Refused(g)' => Refused(g)) /\ (InDoubt' => InDoubt)
         \/ faults' = faults + 1 /\ ((\A g \in Handlers : Refused(g)' => Refused(g)) \/ (InDoubt' => InDoubt))
  PROVE  Faulted'
<1> DEFINE some == \E g \in Handlers : Refused(g)
           some1 == \E g \in Handlers : Refused(g)'
<1>1. /\ faults \in Nat
      /\ some \/ InDoubt => faults >= 1
      /\ some /\ InDoubt => faults >= 2
  BY DEF Faulted
<1>2. (\A g \in Handlers : Refused(g)' => Refused(g)) => (some1 => some)
  OBVIOUS
<1> SUFFICES /\ faults' \in Nat
             /\ some1 \/ InDoubt' => faults' >= 1
             /\ some1 /\ InDoubt' => faults' >= 2
  BY DEF Faulted
<1> HIDE DEF some, some1
<1>3. CASE faults' = faults /\ (some1 => some) /\ (InDoubt' => InDoubt)
  <2>1. CASE some1 /\ InDoubt'
    BY <1>1, <1>3, <2>1
  <2>2. CASE ~some1 \/ ~InDoubt'
    BY <1>1, <1>3, <2>2
  <2> QED BY <2>1, <2>2
<1>4. CASE faults' = faults + 1 /\ ((some1 => some) \/ (InDoubt' => InDoubt))
  <2>1. faults' \in Nat /\ faults' >= 1
    BY <1>1, <1>4
  <2>2. ASSUME some1, InDoubt' PROVE faults' >= 2
    <3>1. faults >= 1
      BY <1>1, <1>4, <2>2
    <3> QED BY <3>1, <1>1, <1>4
  <2> QED BY <2>1, <2>2
<1> QED BY <1>2, <1>3, <1>4

(* Every step keeps Faulted. *)
LEMMA FaultedNext == Ledger /\ Faulted /\ [Next]_vars => Faulted'
<1> SUFFICES ASSUME Ledger, Faulted, [Next]_vars PROVE Faulted'
  OBVIOUS
<1>a. /\ hs \in [Handlers -> HandlerStates] /\ ops \in [OpKinds \X Keys -> OpRows]
      /\ \A g \in Handlers : Holding(g) => Op(g) \in OpKinds \X Keys
  BY OpInTable DEF Ledger, LedgerTyped, Holding
<1>f. ASSUME faults' = faults \/ faults' = faults + 1, \A g \in Handlers : (Refused(g)' => Refused(g)) /\ (Unsure(g)' => Unsure(g)),
             \A o \in OpKinds \X Keys : ops'[o].state = "uncertain" => ops[o].state = "uncertain"
      PROVE Faulted'
  <2>1. InDoubt' => InDoubt
    BY <1>f DEF InDoubt
  <2> QED BY <1>f, <2>1, FaultedStep
<1>b. ASSUME NEW h \in Handlers, NEW v, hs' = [hs EXCEPT ![h] = v], v.pc \notin {"clear", "mark"},
             faults' = faults \/ faults' = faults + 1,
             \A o \in OpKinds \X Keys : ops'[o].state = "uncertain" => ops[o].state = "uncertain"
      PROVE  Faulted'
  <2>1. hs'[h] = v /\ \A g \in Handlers : g # h => hs'[g] = hs[g]
    BY <1>a, <1>b
  <2>2. \A g \in Handlers : (Refused(g)' => Refused(g)) /\ (Unsure(g)' => Unsure(g))
    BY <1>b, <2>1 DEF Refused, Unsure
  <2> QED BY <1>b, <1>f, <2>2
<1>c. ASSUME NEW h \in Handlers, Return(h), ops' = ops, faults' = faults \/ faults' = faults + 1 PROVE Faulted'
  <2>1. hs' = [hs EXCEPT ![h] = Idle] /\ Idle.pc = "idle"
    BY <1>c, Zenon DEF Return, Idle
  <2> QED BY <1>b, <1>c, <2>1, Zenon
<1>d. ASSUME NEW h \in Handlers, NEW p \in {"intend", "call"}, Goto(h, p), faults' = faults,
             \A o \in OpKinds \X Keys : ops'[o].state = "uncertain" => ops[o].state = "uncertain"
      PROVE Faulted'
  <2> DEFINE v == [hs[h] EXCEPT !.pc = p]
  <2>1. hs' = [hs EXCEPT ![h] = v] /\ v.pc = p
    BY <1>a, <1>d, Zenon DEF Goto, HandlerStates
  <2> HIDE DEF v
  <2> QED BY <1>b, <1>d, <2>1, Zenon
<1>1. ASSUME NEW h \in Handlers, NEW k \in Keys, CreateCustomerPortal(h, k) \/ RunAutoTopups(h, k)
              \/ \E r \in Ranks : CreateCheckout(h, k, r)
      PROVE Faulted'
  <2>1. PICK kind, req : hs' = [hs EXCEPT ![h] = Request(kind, k, req)]
    BY <1>1, Zenon DEF CreateCustomerPortal, RunAutoTopups, CreateCheckout
  <2>2. Request(kind, k, req).pc = "reserve"
    BY DEF Request
  <2>3. ops' = ops /\ faults' = faults
    BY <1>1, Zenon DEF CreateCustomerPortal, RunAutoTopups, CreateCheckout, rows
  <2> QED BY <1>b, <2>1, <2>2, <2>3, Zenon
<1>2. ASSUME NEW h \in Handlers, ReserveOperation(h) PROVE Faulted'
  <2>1. CASE Reservable(Op(h), hs[h].req)
    <3>1. /\ faults' = faults /\ ops' = [ops EXCEPT ![Op(h)] = [state |-> "pending", req |-> hs[h].req]]
          /\ Goto(h, "intend") \/ Goto(h, "call")
      BY <1>2, <2>1 DEF ReserveOperation
    <3>2. \A o \in OpKinds \X Keys : ops'[o].state = "uncertain" => ops[o].state = "uncertain"
      BY <3>1, <1>a
    <3> QED BY <3>1, <3>2, <1>d
  <2>2. CASE ~Reservable(Op(h), hs[h].req)
    BY <1>2, <2>2, <1>c DEF ReserveOperation
  <2> QED BY <2>1, <2>2
<1>3. ASSUME NEW h \in Handlers, ReserveBillingCheckout(h) \/ SetPendingSubscriptionPlan(h) PROVE Faulted'
  <2>1. faults' = faults /\ ops' = ops /\ (Goto(h, "call") \/ Return(h))
    BY <1>3 DEF ReserveBillingCheckout, SetPendingSubscriptionPlan
  <2> QED BY <2>1, <1>c, <1>d
<1>4. ASSUME NEW h \in Handlers, NEW reply, hs' = [hs EXCEPT ![h].pc = "mark", ![h].reply = reply], ops' = ops,
             \/ reply = "succeeded" /\ faults' = faults
             \/ reply \in {"unsent", "failed", "uncertain"} /\ faults' = faults + 1
      PROVE Faulted'
  <2>1. /\ hs'[h].pc = "mark" /\ hs'[h].reply = reply
        /\ \A g \in Handlers : g # h => hs'[g] = hs[g]
    BY <1>a, <1>4, Zenon DEF HandlerStates
  <2>2. reply # "failed" => \A g \in Handlers : Refused(g)' => Refused(g)
    BY <2>1 DEF Refused
  <2>3. reply # "uncertain" => \A g \in Handlers : Unsure(g)' => Unsure(g)
    BY <2>1 DEF Unsure
  <2>4. reply # "uncertain" => (InDoubt' => InDoubt)
    BY <2>3, <1>4 DEF InDoubt
  <2> QED BY <1>4, <2>2, <2>4, FaultedStep
<1>5. ASSUME NEW h \in Handlers, PersistPendingPlanFails(h) \/ PolarSucceeds(h) \/ PolarRefuses(h) \/ PolarOutcomeUncertain(h)
      PROVE Faulted'
  <2>1. ops' = ops
    BY <1>5 DEF PersistPendingPlanFails, PolarSucceeds, PolarRefuses, PolarOutcomeUncertain, rows
  <2>2. CASE PersistPendingPlanFails(h)
    BY <2>1, <2>2, <1>4, Zenon DEF PersistPendingPlanFails, Fault
  <2>3. CASE PolarSucceeds(h)
    BY <2>1, <2>3, <1>4, Zenon DEF PolarSucceeds, Reply
  <2>4. CASE PolarRefuses(h)
    BY <2>1, <2>4, <1>4, Zenon DEF PolarRefuses, Reply, Fault
  <2>5. CASE PolarOutcomeUncertain(h)
    BY <2>1, <2>5, <1>4, Zenon DEF PolarOutcomeUncertain, Reply, Fault
  <2> QED BY <1>5, <2>2, <2>3, <2>4, <2>5
<1>6. ASSUME NEW h \in Handlers, MarkOperation(h) PROVE Faulted'
  <2> DEFINE st == IF hs[h].reply = "unsent" THEN "failed" ELSE hs[h].reply
  <2>1. /\ hs[h].pc = "mark" /\ hs[h].kind \in OpKinds /\ faults' = faults
        /\ Holding(h) /\ ops[Op(h)].state = "pending" /\ Op(h) \in OpKinds \X Keys
    BY <1>6, <1>a DEF MarkOperation, At, Holding, Ledger, HoldersArePending
  <2>2. ops' = [ops EXCEPT ![Op(h)].state = st]
    BY <1>6, <2>1 DEF MarkOperation
  <2>3. \A o \in OpKinds \X Keys : ops'[o].state = "uncertain" => ops[o].state = "uncertain" \/ Unsure(h)
    BY <2>1, <2>2, <1>a DEF Unsure, OpRows
  <2>4. Return(h) \/ (Goto(h, "clear") /\ hs[h].reply = "failed") \/ Goto(h, "disable")
    BY <1>6 DEF MarkOperation
  <2>5. \A g \in Handlers : (Refused(g)' => Refused(g)) /\ (Unsure(g)' => Unsure(g))
    <3>1. CASE Return(h)
      <4>1. hs'[h] = Idle /\ Idle.pc = "idle" /\ \A g \in Handlers : g # h => hs'[g] = hs[g]
        BY <3>1, <1>a, Zenon DEF Return, Idle
      <4> QED BY <4>1 DEF Refused, Unsure
    <3>2. CASE Goto(h, "clear") /\ hs[h].reply = "failed"
      <4>1. hs'[h].pc = "clear" /\ \A g \in Handlers : g # h => hs'[g] = hs[g]
        BY <3>2, <1>a, Zenon DEF Goto, HandlerStates
      <4> QED BY <4>1, <3>2, <2>1 DEF Refused, Unsure
    <3>3. CASE Goto(h, "disable")
      <4>1. hs'[h].pc = "disable" /\ \A g \in Handlers : g # h => hs'[g] = hs[g]
        BY <3>3, <1>a, Zenon DEF Goto, HandlerStates
      <4> QED BY <4>1 DEF Refused, Unsure
    <3> QED BY <2>4, <3>1, <3>2, <3>3
  <2>6. InDoubt' => InDoubt
    BY <2>3, <2>5 DEF InDoubt
  <2> QED BY <2>1, <2>5, <2>6, FaultedStep
<1>7. ASSUME NEW h \in Handlers, ClearRefusedPlan(h) \/ DisableAutoTopup(h) \/ SettleCheckout(h) \/ LoseHandler(h)
      PROVE Faulted'
  <2>1. Return(h) /\ ops' = ops /\ (faults' = faults \/ faults' = faults + 1)
    BY <1>7 DEF ClearRefusedPlan, DisableAutoTopup, SettleCheckout, LoseHandler, rows, Fault
  <2> QED BY <2>1, <1>c
<1>e. ASSUME hs' = hs, faults' = faults, \A o \in OpKinds \X Keys : ops'[o].state = "uncertain" => ops[o].state = "uncertain"
      PROVE Faulted'
  <2>1. \A g \in Handlers : (Refused(g)' => Refused(g)) /\ (Unsure(g)' => Unsure(g))
    BY <1>e DEF Refused, Unsure
  <2> QED BY <1>e, <1>f, <2>1
<1>8. CASE ExpireReservation \/ PlanChanged \/ SetAutoTopupPolicy \/ (\E k \in Keys : CheckoutPaid(k)) \/ UNCHANGED vars
  <2>1. ops' = ops /\ hs' = hs /\ faults' = faults
    BY <1>8, Zenon DEF ExpireReservation, PlanChanged, SetAutoTopupPolicy, CheckoutPaid, rows, vars
  <2> QED BY <2>1, <1>e
<1>9. ASSUME NEW kind \in Kinds, NEW k \in Keys, Recover(kind, k) PROVE Faulted'
  <2>1. hs' = hs /\ faults' = faults
    BY <1>9 DEF Recover
  <2>2. CASE kind \in OpKinds /\ ops[<<kind, k>>].state = "uncertain"
             /\ ops' = [ops EXCEPT ![<<kind, k>>].state = "failed"]
    <3>1. \A o \in OpKinds \X Keys : ops'[o].state = "uncertain" => ops[o].state = "uncertain"
      BY <2>2, <1>a DEF OpRows
    <3> QED BY <2>1, <3>1, <1>e
  <2>3. CASE ops' = ops
    BY <2>1, <2>3, <1>e
  <2> QED BY <1>9, <2>2, <2>3 DEF Recover
<1> QED BY <1>1, <1>2, <1>3, <1>5, <1>6, <1>7, <1>8, <1>9 DEF Next, HandlerStep

(* The update row of a key is a row of the ledger, the same one before and after a step. *)
LEMMA UpdateRows == \A k \in Keys : Updates(k) \in OpKinds \X Keys /\ Updates(k) \in Kinds \X Keys /\ Updates(k)' = Updates(k)
BY DEF Updates, OpKinds, Kinds

(* A handler that awaits the answer for k holds the row of k.              *)
LEMMA AwaitingHolds ==
  ASSUME NEW k \in Keys, NEW h \in Handlers, hs[h].kind = "update", hs[h].key = k, Unsure(h) \/ hs[h].pc = "call"
  PROVE  Holding(h) /\ Op(h) = Updates(k)
BY DEF Unsure, Holding, Op, Updates, OpKinds

(* A step in which no handler begins to await an answer.                   *)
LEMMA AwaitingShrinks ==
  ASSUME faults \in Nat, faults' = faults \/ faults' = faults + 1,
         \A g \in Handlers : hs'[g] = hs[g] \/ hs'[g].kind # "update" \/ hs'[g].pc \notin {"call", "mark"}
                               \/ (hs'[g].pc = "mark" /\ hs'[g].reply # "uncertain"),
         \A k \in Keys : ops'[Updates(k)].state = "uncertain" => ops[Updates(k)].state = "uncertain"
  PROVE  \A k \in Keys : Awaiting(k)' => Awaiting(k)
<1> SUFFICES ASSUME NEW k \in Keys, Awaiting(k)' PROVE Awaiting(k)
  OBVIOUS
<1>1. (faults' <= 1 => faults <= 1) /\ (faults' = 0 => faults = 0)
  OBVIOUS
<1>2. CASE faults' <= 1 /\ ops'[Updates(k)].state = "uncertain"
  BY <1>1, <1>2 DEF Awaiting
<1>3. CASE faults' <= 1 /\ \E h \in Handlers : hs'[h].kind = "update" /\ hs'[h].key = k /\ Unsure(h)'
  <2>1. PICK h \in Handlers : hs'[h].kind = "update" /\ hs'[h].key = k /\ Unsure(h)'
    BY <1>3
  <2>2. hs'[h] = hs[h]
    BY <2>1 DEF Unsure
  <2> QED BY <1>1, <1>3, <2>1, <2>2 DEF Awaiting, Unsure
<1>4. CASE faults' = 0 /\ \E h \in Handlers : hs'[h].kind = "update" /\ hs'[h].key = k /\ hs'[h].pc = "call"
  <2>1. PICK h \in Handlers : hs'[h].kind = "update" /\ hs'[h].key = k /\ hs'[h].pc = "call"
    BY <1>4
  <2>2. hs'[h] = hs[h]
    BY <2>1
  <2> QED BY <1>1, <1>4, <2>1, <2>2 DEF Awaiting
<1>5. Updates(k)' = Updates(k)
  BY DEF Updates
<1> QED BY <1>2, <1>3, <1>4, <1>5 DEF Awaiting

(* A step that leaves the pending plan and Polar's plan changes alone and  *)
(* makes no further key await a downgrade.                                 *)
LEMMA KeptElsewhere ==
  ASSUME Kept, pending' = pending, next' = next,
         \A k \in Keys : effects'[Updates(k)] = effects[Updates(k)],
         \A k \in Keys : ops'[Updates(k)].state = "none" => ops[Updates(k)].state = "none",
         \A k \in Keys : Awaiting(k)' /\ ops'[Updates(k)].req[2] = "next_period"
                           => Awaiting(k) /\ ops'[Updates(k)].req = ops[Updates(k)].req
  PROVE  Kept'
<1> SUFFICES ASSUME NEW k \in Keys, Awaiting(k)', OnlyChange(k)', NotYetReplaced(k)', ops'[Updates(k)].req[2] = "next_period"
             PROVE  pending' = ops'[Updates(k)].req[1]
  BY UpdateRows DEF Kept
<1>1. Awaiting(k) /\ ops'[Updates(k)].req = ops[Updates(k)].req
  OBVIOUS
<1>2. OnlyChange(k)
  BY UpdateRows DEF OnlyChange
<1>3. NotYetReplaced(k)
  BY <1>1, UpdateRows DEF NotYetReplaced
<1> QED BY <1>1, <1>2, <1>3 DEF Kept

(* The call of a plan change: a timeout is what the recorded plan was for. *)
LEMMA KeptCall ==
  ASSUME Ledger, Asked, Faulted, Kept, NEW h \in Handlers, hs[h].kind = "update", hs[h].pc \in {"intend", "call"},
         NEW reply \in {"unsent", "succeeded", "failed", "uncertain"},
         hs' = [hs EXCEPT ![h].pc = "mark", ![h].reply = reply],
         reply = "uncertain" => hs[h].pc = "call" /\ faults' = faults + 1,
         faults' = faults \/ faults' = faults + 1,
         ops' = ops, pending' = pending
  PROVE  Kept'
<1>a. /\ hs \in [Handlers -> HandlerStates] /\ hs[h].key \in Keys /\ faults \in Nat
      /\ Holding(h) /\ Op(h) = Updates(hs[h].key)
  BY DEF Ledger, LedgerTyped, Faulted, Holding, Op, Updates, OpKinds
<1>b. /\ hs'[h].pc = "mark" /\ hs'[h].reply = reply
      /\ hs'[h].kind = "update" /\ hs'[h].key = hs[h].key
      /\ \A g \in Handlers : g # h => hs'[g] = hs[g]
  BY <1>a, Zenon DEF HandlerStates
<1>c. ops[Updates(hs[h].key)].state = "pending" /\ effects[Updates(hs[h].key)] = 0
  BY <1>a, Zenon DEF Ledger, HoldersArePending, HoldersKnow
<1> SUFFICES ASSUME NEW k \in Keys, Awaiting(k)', OnlyChange(k)', ops[Updates(k)].req[2] = "next_period"
             PROVE  pending = ops[Updates(k)].req[1]
  BY UpdateRows DEF Kept
<1>1. k = hs[h].key
  BY <1>a, <1>c, UpdateRows DEF OnlyChange
<1>2. ops[Updates(k)].state # "uncertain"
  BY <1>1, <1>c
<1>3. ASSUME NEW g \in Handlers, hs'[g].kind = "update", hs'[g].key = k, Unsure(g)' \/ hs'[g].pc = "call"
      PROVE  g = h
  <2> SUFFICES ASSUME g # h PROVE FALSE
    OBVIOUS
  <2>1. hs[g].kind = "update" /\ hs[g].key = k /\ (Unsure(g) \/ hs[g].pc = "call")
    BY <1>3, <1>b, Zenon DEF Unsure
  <2>2. Holding(g) /\ Op(g) = Updates(k)
    BY <2>1, AwaitingHolds
  <2> QED BY <2>2, <1>1, <1>a DEF Ledger, HoldersAreAlone
<1>4. Unsure(h)' /\ faults' <= 1
  BY <1>2, <1>3, <1>b, UpdateRows, Zenon DEF Awaiting, Unsure
<1>5. hs[h].pc = "call" /\ faults = 0
  BY <1>4, <1>b, <1>a DEF Unsure
<1>6. Awaiting(k) /\ NotYetReplaced(k) /\ OnlyChange(k)
  BY <1>1, <1>5, <1>c, UpdateRows DEF Awaiting, NotYetReplaced, OnlyChange
<1> QED BY <1>6 DEF Kept

(* Recording the plan of a downgrade before its call.                      *)
LEMMA KeptIntend ==
  ASSUME Ledger, Asked, NEW h \in Handlers, SetPendingSubscriptionPlan(h)
  PROVE  Kept'
<1>1. hs[h].pc = "intend" /\ hs[h].kind = "update" /\ ops' = ops /\ pending' = hs[h].req[1] /\ hs[h].key \in Keys
  BY DEF SetPendingSubscriptionPlan, At, Asked, AskedBy, Ledger, LedgerTyped
<1>2. Holding(h) /\ Op(h) = Updates(hs[h].key) /\ ops[Op(h)].req = hs[h].req /\ ops[Op(h)].state = "pending"
  <2>1. Holding(h) /\ Op(h) = Updates(hs[h].key)
    BY <1>1 DEF Holding, Op, Updates, OpKinds
  <2> QED BY <2>1 DEF Asked, AskedBy, Ledger, HoldersArePending
<1> SUFFICES ASSUME NEW k \in Keys, OnlyChange(k)'
             PROVE  pending' = ops[Updates(k)].req[1]
  BY <1>1, UpdateRows DEF Kept
<1>3. k = hs[h].key
  BY <1>1, <1>2, UpdateRows DEF OnlyChange
<1> QED BY <1>1, <1>2, <1>3

(* Clearing the plan of a refused downgrade: a second fault.               *)
LEMMA KeptClear ==
  ASSUME Ledger, Faulted, NEW h \in Handlers, ClearRefusedPlan(h)
  PROVE  Kept'
<1>1. hs[h].pc = "clear" /\ ops' = ops /\ faults' = faults /\ faults \in Nat
      /\ hs' = [hs EXCEPT ![h] = Idle] /\ Idle.pc = "idle" /\ hs \in [Handlers -> HandlerStates]
  BY Zenon DEF ClearRefusedPlan, At, Return, Faulted, Idle, Ledger, LedgerTyped
<1>2. Refused(h) /\ faults >= 1
  BY <1>1 DEF Refused, Faulted
<1>3. \A g \in Handlers : hs'[g] = hs[g] \/ hs'[g].pc = "idle"
  BY <1>1
<1>4. InDoubt => ~(faults <= 1)
  BY <1>1, <1>2 DEF Faulted
<1>5. \A k \in Keys : Awaiting(k)' => Awaiting(k)
  BY <1>1, <1>3, AwaitingShrinks
<1>6. \A k \in Keys : ~Awaiting(k)
  <2> SUFFICES ASSUME NEW k \in Keys, Awaiting(k) PROVE FALSE
    OBVIOUS
  <2>1. InDoubt \/ faults = 0
    BY UpdateRows DEF Awaiting, InDoubt
  <2>2. faults <= 1
    BY <1>1 DEF Awaiting
  <2> QED BY <2>1, <2>2, <1>1, <1>2, <1>4
<1> QED BY <1>5, <1>6 DEF Kept

(* The webhooks: a first checkout is not paid while a plan change is open, *)
(* and a changed plan is one Polar carried out.                            *)
LEMMA KeptWebhook ==
  ASSUME Ledger, Asked, Faulted, Kept, PlanChanged \/ \E k \in Keys : CheckoutPaid(k)
  PROVE  Kept'
<1>1. ops' = ops /\ hs' = hs /\ effects' = effects /\ faults' = faults /\ faults \in Nat
  BY Zenon DEF PlanChanged, CheckoutPaid, Faulted
<1>2. \A k \in Keys : Awaiting(k)' => Awaiting(k)
  BY <1>1, AwaitingShrinks
<1>3. CASE \E k \in Keys : CheckoutPaid(k)
  <2>1. ~active
    BY <1>3 DEF CheckoutPaid
  <2>2. \A k \in Keys : ops[Updates(k)].state = "none"
    BY <2>1 DEF Asked
  <2>3. \A h \in Handlers : hs[h].kind # "update"
    BY <2>1 DEF Asked, AskedBy
  <2>4. \A k \in Keys : ~Awaiting(k)
    BY <2>2, <2>3 DEF Awaiting
  <2> QED BY <2>4, <1>2 DEF Kept
<1>4. CASE PlanChanged
  <2>1. next # 0 /\ next' = 0
    BY <1>4 DEF PlanChanged
  <2>2. PICK j \in Keys : effects[Updates(j)] > 0
    BY <2>1 DEF Asked
  <2>3. ops[Updates(j)].state # "none"
    BY <2>2, UpdateRows DEF Ledger, RowsAreHonest
  <2> SUFFICES ASSUME NEW k \in Keys, OnlyChange(k)', NotYetReplaced(k)', ops[Updates(k)].req[2] = "next_period"
               PROVE  FALSE
    BY <1>1, UpdateRows DEF Kept
  <2>4. k = j
    BY <2>3, <1>1, UpdateRows DEF OnlyChange
  <2>5. ops[Updates(k)].req[1] \in Ranks
    BY DEF Asked
  <2>6. ops[Updates(k)].req[1] # 0
    BY <2>5, RankAssumption
  <2>7. ~(effects[Updates(k)] = 0)
    BY <2>2, <2>4
  <2> QED BY <2>1, <2>6, <2>7, <1>1, UpdateRows DEF NotYetReplaced
<1> QED BY <1>3, <1>4

(* Reserving: a downgrade is not called before its plan is recorded.       *)
LEMMA KeptTake ==
  ASSUME Ledger, Faulted, Kept, NEW h \in Handlers, ReserveOperation(h), Reservable(Op(h), hs[h].req)
  PROVE  Kept'
<1> DEFINE row == [state |-> "pending", req |-> hs[h].req]
           p == IF hs[h].req[2] = "next_period" THEN "intend" ELSE "call"
<1>1. /\ hs[h].kind \in OpKinds /\ hs[h].pc = "reserve"
      /\ hs' = [hs EXCEPT ![h].pc = p] /\ ops' = [ops EXCEPT ![Op(h)] = row]
      /\ pending' = pending /\ next' = next /\ effects' = effects /\ faults' = faults
  BY DEF ReserveOperation, At, Goto, subscription, polar
<1>2. /\ hs \in [Handlers -> HandlerStates] /\ ops \in [OpKinds \X Keys -> OpRows]
      /\ Op(h) \in OpKinds \X Keys /\ faults \in Nat
  BY <1>1, OpInTable DEF Ledger, LedgerTyped, Faulted
<1>3. row.state = "pending" /\ row.req = hs[h].req /\ (hs[h].req[2] = "next_period" => p = "intend") /\ p \in {"intend", "call"}
  OBVIOUS
<1>4. /\ hs'[h].pc = p /\ hs'[h].kind = hs[h].kind /\ hs'[h].key = hs[h].key
      /\ \A g \in Handlers : g # h => hs'[g] = hs[g]
  BY <1>1, <1>2, Zenon DEF HandlerStates
<1> HIDE DEF row, p
<1>5. \A o \in OpKinds \X Keys : ops'[o] = IF o = Op(h) THEN row ELSE ops[o]
  BY <1>1, <1>2
<1>6. ASSUME NEW k \in Keys, Awaiting(k)', ops'[Updates(k)].req[2] = "next_period"
      PROVE  Awaiting(k) /\ ops'[Updates(k)].req = ops[Updates(k)].req
  <2>1. CASE Updates(k) = Op(h)
    <3>1. hs[h].kind = "update" /\ hs[h].key = k /\ p = "intend" /\ ops'[Updates(k)].state = "pending"
      BY <1>2, <1>3, <1>5, <1>6, <2>1 DEF Updates, Op
    <3>2. PICK g \in Handlers : hs'[g].kind = "update" /\ hs'[g].key = k /\ (Unsure(g)' \/ hs'[g].pc = "call")
      BY <3>1, <1>6, UpdateRows DEF Awaiting
    <3>3. g # h
      BY <3>1, <3>2, <1>4 DEF Unsure
    <3>4. Holding(g) /\ Op(g) = Updates(k)
      BY <3>2, <3>3, <1>4, AwaitingHolds DEF Unsure
    <3>5. ops[Op(h)].state = "pending"
      BY <3>4, <2>1 DEF Ledger, HoldersArePending
    <3> QED BY <3>5 DEF Reservable
  <2>2. CASE Updates(k) # Op(h)
    <3>1. ops'[Updates(k)] = ops[Updates(k)]
      BY <2>2, <1>5, UpdateRows
    <3>2. \A g \in Handlers : hs'[g].kind = "update" /\ hs'[g].key = k => g # h /\ hs'[g] = hs[g]
      BY <2>2, <1>4 DEF Updates, Op
    <3>3. Awaiting(k)
      BY <3>1, <3>2, <1>1, <1>6, UpdateRows DEF Awaiting, Unsure
    <3> QED BY <3>1, <3>3
  <2> QED BY <2>1, <2>2
<1>7. \A k \in Keys : ops'[Updates(k)].state = "none" => ops[Updates(k)].state = "none"
  BY <1>3, <1>5, UpdateRows
<1> QED BY <1>1, <1>6, <1>7, KeptElsewhere

(* Marking: an unknown outcome passes from the handler to the row.         *)
LEMMA KeptMark ==
  ASSUME Ledger, Faulted, Kept, NEW h \in Handlers, MarkOperation(h)
  PROVE  Kept'
<1> DEFINE st == IF hs[h].reply = "unsent" THEN "failed" ELSE hs[h].reply
<1>1. /\ hs[h].pc = "mark" /\ hs[h].kind \in OpKinds
      /\ pending' = pending /\ next' = next /\ effects' = effects /\ faults' = faults
  BY DEF MarkOperation, At, polar, subscription
<1>2. /\ hs \in [Handlers -> HandlerStates] /\ ops \in [OpKinds \X Keys -> OpRows] /\ faults \in Nat
      /\ Op(h) \in OpKinds \X Keys /\ Holding(h) /\ ops[Op(h)].state = "pending"
      /\ hs[h].reply # ""
  BY <1>1, OpInTable, Zenon DEF Ledger, LedgerTyped, Faulted, Holding, HoldersArePending, HoldersKnow
<1>3. ops' = [ops EXCEPT ![Op(h)].state = st]
  BY <1>2, Zenon DEF MarkOperation
<1>4. \A k \in Keys : /\ ops'[Updates(k)].req = ops[Updates(k)].req
                      /\ Updates(k) # Op(h) => ops'[Updates(k)].state = ops[Updates(k)].state
                      /\ Updates(k) = Op(h) => ops'[Updates(k)].state = st
  BY <1>2, <1>3, UpdateRows, Zenon DEF OpRows
<1>5. st # "none"
  BY <1>2, Zenon DEF HandlerStates
<1>6. Return(h) \/ Goto(h, "clear") \/ Goto(h, "disable")
  BY DEF MarkOperation
<1>7. \A g \in Handlers : hs'[g] = hs[g] \/ hs'[g].pc \notin {"call", "mark"}
  <2>1. CASE Return(h)
    <3>1. Idle.pc = "idle" /\ \A g \in Handlers : hs'[g] = hs[g] \/ hs'[g] = Idle
      BY <2>1, <1>2, Zenon DEF Return, Idle
    <3> QED BY <3>1
  <2>2. ASSUME NEW p \in {"clear", "disable"}, Goto(h, p) PROVE \A g \in Handlers : hs'[g] = hs[g] \/ hs'[g].pc \notin {"call", "mark"}
    BY <2>2, <1>2, Zenon DEF Goto, HandlerStates
  <2> QED BY <1>6, <2>1, <2>2
<1>8. st = "uncertain" => Unsure(h)
  BY <1>1 DEF Unsure
<1> HIDE DEF st
<1>9. ASSUME NEW k \in Keys, Awaiting(k)' PROVE Awaiting(k)
  <2>1. CASE faults' <= 1 /\ ops'[Updates(k)].state = "uncertain" /\ Updates(k) = Op(h)
    <3>1. hs[h].kind = "update" /\ hs[h].key = k /\ Unsure(h)
      BY <2>1, <1>4, <1>8 DEF Updates, Op
    <3> QED BY <3>1, <2>1, <1>1 DEF Awaiting
  <2>2. CASE faults' <= 1 /\ ops'[Updates(k)].state = "uncertain" /\ Updates(k) # Op(h)
    BY <2>2, <1>1, <1>4 DEF Awaiting
  <2>3. CASE ~(faults' <= 1 /\ ops'[Updates(k)].state = "uncertain")
    BY <2>3, <1>1, <1>7, <1>9, UpdateRows DEF Awaiting, Unsure
  <2> QED BY <2>1, <2>2, <2>3
<1>10. \A k \in Keys : ops'[Updates(k)].state = "none" => ops[Updates(k)].state = "none"
  BY <1>4, <1>5
<1> QED BY <1>1, <1>4, <1>9, <1>10, KeptElsewhere

(* Every step keeps Kept. *)
LEMMA KeptNext == Ledger /\ Asked /\ Faulted /\ Kept /\ [Next]_vars => Kept'
<1> SUFFICES ASSUME Ledger, Asked, Faulted, Kept, [Next]_vars PROVE Kept'
  OBVIOUS
<1>a. /\ hs \in [Handlers -> HandlerStates] /\ effects \in [Kinds \X Keys -> Nat]
      /\ ops \in [OpKinds \X Keys -> OpRows] /\ faults \in Nat
  BY DEF Ledger, LedgerTyped, Faulted
<1>q. ASSUME pending' = pending, next' = next, \A k \in Keys : effects'[Updates(k)] = effects[Updates(k)], ops' = ops,
             faults' = faults \/ faults' = faults + 1,
             \A g \in Handlers : hs'[g] = hs[g] \/ hs'[g].kind # "update" \/ hs'[g].pc \notin {"call", "mark"}
      PROVE Kept'
  <2>1. \A k \in Keys : Awaiting(k)' => Awaiting(k)
    BY <1>a, <1>q, AwaitingShrinks
  <2> QED BY <1>q, <2>1, KeptElsewhere
<1>c. ASSUME NEW h \in Handlers, Return(h), ops' = ops, effects' = effects, pending' = pending, next' = next,
             faults' = faults \/ faults' = faults + 1
      PROVE Kept'
  <2>1. Idle.pc = "idle" /\ \A g \in Handlers : hs'[g] = hs[g] \/ hs'[g] = Idle
    BY <1>a, <1>c, Zenon DEF Return, Idle
  <2> QED BY <1>q, <1>c, <2>1
<1>1. ASSUME NEW h \in Handlers, NEW k \in Keys, CreateCustomerPortal(h, k) \/ RunAutoTopups(h, k)
              \/ \E r \in Ranks : CreateCheckout(h, k, r)
      PROVE Kept'
  <2>1. PICK kind, req : hs' = [hs EXCEPT ![h] = Request(kind, k, req)]
    BY <1>1, Zenon DEF CreateCustomerPortal, RunAutoTopups, CreateCheckout
  <2>2. Request(kind, k, req).pc = "reserve" /\ \A g \in Handlers : hs'[g] = hs[g] \/ hs'[g] = Request(kind, k, req)
    BY <1>a, <2>1, Zenon DEF Request
  <2>3. ops' = ops /\ faults' = faults /\ effects' = effects /\ next' = next /\ pending' = pending
    BY <1>1, Zenon DEF CreateCustomerPortal, RunAutoTopups, CreateCheckout, rows, polar, subscription
  <2> QED BY <1>q, <2>2, <2>3
<1>2. ASSUME NEW h \in Handlers, ReserveOperation(h) PROVE Kept'
  <2>1. CASE Reservable(Op(h), hs[h].req)
    BY <1>2, <2>1, KeptTake
  <2>2. CASE ~Reservable(Op(h), hs[h].req)
    BY <1>2, <2>2, <1>c DEF ReserveOperation, polar, subscription
  <2> QED BY <2>1, <2>2
<1>3. ASSUME NEW h \in Handlers, ReserveBillingCheckout(h) PROVE Kept'
  <2>1. /\ ops' = ops /\ faults' = faults /\ effects' = effects /\ next' = next /\ pending' = pending
        /\ hs[h].kind = "checkout" /\ (Return(h) \/ Goto(h, "call"))
    BY <1>3 DEF ReserveBillingCheckout, polar, subscription
  <2>2. CASE Goto(h, "call")
    <3>1. \A g \in Handlers : hs'[g] = hs[g] \/ hs'[g].kind = "checkout"
      BY <2>1, <2>2, <1>a, Zenon DEF Goto, HandlerStates
    <3> QED BY <1>q, <2>1, <3>1
  <2> QED BY <2>1, <2>2, <1>c
<1>4. ASSUME NEW h \in Handlers, SetPendingSubscriptionPlan(h) PROVE Kept'
  BY <1>4, KeptIntend
<1>5. ASSUME NEW h \in Handlers, PersistPendingPlanFails(h) \/ PolarSucceeds(h) \/ PolarRefuses(h) \/ PolarOutcomeUncertain(h)
      PROVE Kept'
  <2>1. PICK reply \in {"unsent", "succeeded", "failed", "uncertain"} :
          /\ hs[h].pc \in {"intend", "call"} /\ ops' = ops /\ pending' = pending
          /\ hs' = [hs EXCEPT ![h].pc = "mark", ![h].reply = reply]
          /\ faults' = faults \/ faults' = faults + 1
          /\ reply = "uncertain" => hs[h].pc = "call" /\ faults' = faults + 1
          /\ UNCHANGED polar \/ CarryOut(h)
    BY <1>5 DEF PersistPendingPlanFails, PolarSucceeds, PolarRefuses, PolarOutcomeUncertain, At, Reply, Fault, rows, subscription
  <2>2. CASE hs[h].kind = "update"
    BY <2>1, <2>2, KeptCall, Zenon
  <2>3. CASE hs[h].kind # "update"
    <3>1. \A g \in Handlers : hs'[g] = hs[g] \/ hs'[g].kind # "update"
      BY <2>1, <2>3, <1>a, Zenon DEF HandlerStates
    <3>2. \A k \in Keys : Updates(k) # Op(h)
      BY <2>3 DEF Updates, Op
    <3>3. next' = next /\ \A k \in Keys : effects'[Updates(k)] = effects[Updates(k)]
      <4>1. CASE UNCHANGED polar
        BY <4>1 DEF polar
      <4>2. CASE CarryOut(h)
        BY <4>2, <2>3, <3>2, <1>a, UpdateRows DEF CarryOut
      <4> QED BY <2>1, <4>1, <4>2
    <3> QED BY <1>q, <2>1, <3>1, <3>3, Zenon
  <2> QED BY <2>2, <2>3
<1>6. ASSUME NEW h \in Handlers, MarkOperation(h) PROVE Kept'
  BY <1>6, KeptMark
<1>7. ASSUME NEW h \in Handlers, ClearRefusedPlan(h) PROVE Kept'
  BY <1>7, KeptClear
<1>8. ASSUME NEW h \in Handlers, DisableAutoTopup(h) \/ SettleCheckout(h) \/ LoseHandler(h) PROVE Kept'
  <2>1. Return(h) /\ ops' = ops /\ effects' = effects /\ pending' = pending /\ next' = next
        /\ (faults' = faults \/ faults' = faults + 1)
    BY <1>8 DEF DisableAutoTopup, SettleCheckout, LoseHandler, rows, polar, subscription, Fault
  <2> QED BY <2>1, <1>c
<1>9. CASE PlanChanged \/ \E k \in Keys : CheckoutPaid(k)
  BY <1>9, KeptWebhook
<1>10. CASE ExpireReservation \/ SetAutoTopupPolicy \/ UNCHANGED vars
  <2>1. ops' = ops /\ hs' = hs /\ effects' = effects /\ faults' = faults /\ pending' = pending /\ next' = next
    BY <1>10 DEF ExpireReservation, SetAutoTopupPolicy, polar, rows, vars, subscription
  <2> QED BY <2>1, <1>q
<1>11. ASSUME NEW kind \in Kinds, NEW k \in Keys, Recover(kind, k) PROVE Kept'
  <2>1. hs' = hs /\ effects' = effects /\ faults' = faults /\ pending' = pending /\ next' = next
    BY <1>11 DEF Recover, polar, subscription
  <2>2. CASE kind \in OpKinds /\ ops[<<kind, k>>].state = "uncertain"
             /\ ops' = [ops EXCEPT ![<<kind, k>>].state = "failed"]
    <3>1. \A j \in Keys : /\ ops'[Updates(j)].req = ops[Updates(j)].req
                          /\ ops'[Updates(j)].state \in {"none", "uncertain"} => ops'[Updates(j)].state = ops[Updates(j)].state
      BY <2>2, <1>a, UpdateRows DEF OpRows
    <3>2. \A j \in Keys : Awaiting(j)' => Awaiting(j)
      BY <2>1, <3>1, <1>a, AwaitingShrinks
    <3> QED BY <2>1, <3>1, <3>2, KeptElsewhere
  <2>3. CASE ops' = ops
    BY <2>1, <2>3, <1>q
  <2> QED BY <1>11, <2>2, <2>3 DEF Recover
<1> QED BY <1>1, <1>2, <1>3, <1>4, <1>5, <1>6, <1>7, <1>8, <1>9, <1>10, <1>11 DEF Next, HandlerStep

(* A downgrade whose outcome is unknown stays recorded as the pending plan *)
(* until its webhook arrives, when it is the user's only plan change and   *)
(* the timeout the only fault, for any number of concurrent requests       *)
(* (SetPendingSubscriptionPlan before the call, the clear only after a     *)
(* definite refusal).                                                      *)
THEOREM PendingIntentKeptAlways == Spec => []PendingIntentKept
<1>1. Kept => PendingIntentKept
  BY Zenon DEF Kept, PendingIntentKept, Awaiting, OnlyChange, NotYetReplaced, Updates
<1> QED BY <1>1, LedgerInit, LedgerNext, KeptInit, AskedNext, FaultedNext, KeptNext, PTL DEF Spec

=============================================================================
