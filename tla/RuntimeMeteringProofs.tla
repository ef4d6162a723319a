------------------------ MODULE RuntimeMeteringProofs ------------------------
(***************************************************************************)
(* What metering keeps for any number of workers, any clock and any number *)
(* of faults: the tables are well typed, a processed checkpoint is paid    *)
(* for, and last_metered_at never passes time that was not debited.        *)
(*                                                                         *)
(* The strengthening is what a pass holds between two transactions: the    *)
(* rows it listed are rows of the table, the checkpoint it processes is a  *)
(* copy of the row with that id, and once it is past the debit the key is  *)
(* in the ledger.                                                          *)
(***************************************************************************)
EXTENDS RuntimeMetering, TLAPS

Holding == {"debit", "paid", "failed", "broke"}

HoldsRow(w) ==
  LET cp == wk[w].cp IN
  /\ wk[w].list \subseteq DOMAIN cps
  /\ wk[w].pc = "final" => wk[w].int \in DOMAIN intervals
  /\ wk[w].pc \in Holding /\ cp.id # 0 => cp.id \in DOMAIN cps /\ Key(cps[cp.id]) = Key(cp)
  /\ wk[w].pc = "paid" => Key(cp) \in ledger

Inv == TypeOK /\ ProcessedIsPaid /\ MeteredIsBilled /\ \A w \in Workers : HoldsRow(w)

USE BoundAssumption

(* Adding rows, or changing the state of rows, keeps what passes hold.     *)
RowsKept ==
  /\ DOMAIN intervals \subseteq DOMAIN intervals'
  /\ \A c \in DOMAIN cps : c \in DOMAIN cps' /\ Key(cps'[c]) = Key(cps[c])

(* A pass that does not move keeps its hold while rows and debits stay.    *)
LEMMA HoldKept ==
  ASSUME NEW w \in Workers, HoldsRow(w), RowsKept, ledger \subseteq ledger', wk'[w] = wk[w]
  PROVE  HoldsRow(w)'
BY DEF HoldsRow, RowsKept, Key

(* Inserting a checkpoint of type keeps the rows and their types.          *)
LEMMA InsertKeeps ==
  ASSUME TypeOK, NEW i \in Nat \ {0}, NEW from \in Times, NEW to \in Times, cps' = Insert(i, from, to)
  PROVE  /\ cps' \in Seq(Checkpoints)
         /\ \A c \in DOMAIN cps : c \in DOMAIN cps' /\ cps'[c] = cps[c]
         /\ \A c \in DOMAIN cps' : c \in DOMAIN cps \/ cps'[c].state = "created"
         /\ ~Taken(i, from, to) =>
              /\ Len(cps) + 1 \in DOMAIN cps'
              /\ cps'[Len(cps) + 1] = [int |-> i, from |-> from, to |-> to, state |-> "created"]
<1> DEFINE r == [int |-> i, from |-> from, to |-> to, state |-> "created"]
<1>1. r \in Checkpoints
  BY DEF Checkpoints
<1>2. cps \in Seq(Checkpoints)
  BY DEF TypeOK
<1>3. CASE Taken(i, from, to)
  BY <1>2, <1>3 DEF Insert
<1>4. CASE ~Taken(i, from, to)
  <2>1. cps' = Append(cps, r)
    BY <1>4 DEF Insert
  <2>2. r.state = "created"
    OBVIOUS
  <2> HIDE DEF r
  <2>3. cps' \in Seq(Checkpoints) /\ DOMAIN cps' = 1 .. Len(cps) + 1
    BY <1>1, <1>2, <2>1
  <2>4. (\A c \in 1 .. Len(cps) : cps'[c] = cps[c]) /\ cps'[Len(cps) + 1] = r
    BY <1>1, <1>2, <2>1
  <2>5. \A c \in DOMAIN cps' : c \in DOMAIN cps \/ cps'[c].state = "created"
    BY <1>2, <2>2, <2>3, <2>4
  <2> QED
    BY <1>2, <2>3, <2>4, <2>5 DEF r
<1> QED
  BY <1>3, <1>4

(* A row of a typed table is a typed copy.                                 *)
LEMMA RowTyped ==
  ASSUME NEW t \in Seq(Checkpoints), NEW c \in DOMAIN t
  PROVE  Row(t, c) \in [id : Nat, int : Nat, from : Times, to : Times]
<1>1. t[c] \in Checkpoints /\ c \in Nat
  OBVIOUS
<1> QED
  BY <1>1 DEF Row, Checkpoints

(* Between passes a worker holds nothing.                                  *)
LEMMA IdlePass == Idle \in Passes /\ Idle.list = {} /\ Idle.pc = "idle"
<1>1. 0 \in Times
  BY DEF Times
<1>2. NoCheckpoint \in [id : Nat, int : Nat, from : Times, to : Times]
  BY <1>1 DEF NoCheckpoint
<1> QED
  BY <1>1, <1>2 DEF Idle, Passes, Steps

(* The initial state satisfies the invariant.                              *)
LEMMA InitInv == Init => Inv
<1> SUFFICES ASSUME Init PROVE Inv
  OBVIOUS
<1>1. TypeOK
  <2>1. wk \in [Workers -> Passes]
    BY IdlePass DEF Init
  <2>2. intervals \in Seq(Intervals) /\ cps \in Seq(Checkpoints)
    BY DEF Init
  <2>3. up \in BOOLEAN /\ entitled \in BOOLEAN
    BY Zenon DEF Init
  <2>4. clock \in Times /\ balance \in Nat /\ grants \in 0 .. MaxGrants /\ faults \in 0 .. MaxFaults
    BY DEF Init, Times
  <2>5. pstate \in {"starting", "running", "stopping", "stopped"}
        /\ jobs \subseteq {"start", "started", "stop", "stopped"} /\ ledger \subseteq (Nat \X Times \X Times)
    BY DEF Init
  <2> QED
    BY <2>1, <2>2, <2>3, <2>4, <2>5 DEF TypeOK
<1>2. ProcessedIsPaid /\ MeteredIsBilled
  BY DEF Init, ProcessedIsPaid, MeteredIsBilled
<1>3. \A w \in Workers : HoldsRow(w)
  BY DEF Init, HoldsRow, Idle, Holding
<1> QED
  BY <1>1, <1>2, <1>3 DEF Inv

(* While the tables stand and the ledger grows, what was paid stays paid.  *)
LEMMA PaidKept ==
  ASSUME ProcessedIsPaid, MeteredIsBilled, UNCHANGED tables, ledger \subseteq ledger'
  PROVE  ProcessedIsPaid' /\ MeteredIsBilled'
BY DEF ProcessedIsPaid, MeteredIsBilled, Billed, Key, tables

(* A step of one pass that leaves tables and ledger and holds no row.      *)
LEMMA LocalStep ==
  ASSUME Inv, NEW w \in Workers, NEW v \in Passes, wk' = [wk EXCEPT ![w] = v],
         v.list \subseteq DOMAIN cps, v.pc \notin Holding, v.pc = "final" => v.int \in DOMAIN intervals,
         UNCHANGED <<clock, machine, tables, account>>,
         faults' \in 0 .. MaxFaults
  PROVE  Inv'
<1>1. TypeOK'
  BY DEF Inv, TypeOK, machine, tables, account
<1>2. ProcessedIsPaid' /\ MeteredIsBilled'
  BY PaidKept DEF Inv, tables, account
<1>3. \A u \in Workers : HoldsRow(u)'
  <2> TAKE u \in Workers
  <2>1. CASE u = w
    BY <2>1 DEF Inv, TypeOK, HoldsRow, Holding, tables
  <2>2. CASE u # w
    BY <2>2, HoldKept DEF Inv, RowsKept, tables, account, TypeOK
  <2> QED
    BY <2>1, <2>2
<1> QED
  BY <1>1, <1>2, <1>3 DEF Inv

(* A step of one pass that leaves tables and ledger and takes up row c.    *)
LEMMA TakeRow ==
  ASSUME Inv, NEW w \in Workers, NEW c \in DOMAIN cps, NEW v \in Passes, wk' = [wk EXCEPT ![w] = v],
         v.list \subseteq DOMAIN cps, v.pc = "debit", v.cp = Row(cps, c),
         UNCHANGED <<clock, machine, tables, account, faults>>
  PROVE  Inv'
<1>1. TypeOK'
  BY DEF Inv, TypeOK, machine, tables, account
<1>2. ProcessedIsPaid' /\ MeteredIsBilled'
  BY PaidKept DEF Inv, tables, account
<1>3. \A u \in Workers : HoldsRow(u)'
  <2> TAKE u \in Workers
  <2>1. CASE u = w
    BY <2>1 DEF Inv, TypeOK, HoldsRow, Holding, tables, Row, Key
  <2>2. CASE u # w
    BY <2>2, HoldKept DEF Inv, RowsKept, tables, account, TypeOK
  <2> QED
    BY <2>1, <2>2
<1> QED
  BY <1>1, <1>2, <1>3 DEF Inv

(* The steps of a pass that only read.                                     *)
LEMMA ReadingSteps ==
  ASSUME Inv, NEW w \in Workers,
         Begin(w) \/ NextPending(w) \/ Observe(w) \/ OpenInterval(w) \/ Abort(w)
  PROVE  Inv'
<1> USE DEF At, Goto
<1>0. wk[w] \in Passes /\ clock \in Times /\ wk[w].list \subseteq DOMAIN cps
  BY DEF Inv, TypeOK, HoldsRow
<1>u. Unpaid(cps) \subseteq DOMAIN cps /\ Unpaid(cps) \subseteq Nat
  BY DEF Unpaid, Inv, TypeOK
<1>1. CASE Begin(w)
  <2> DEFINE v == [Idle EXCEPT !.pc = "pending", !.now = clock, !.list = Unpaid(cps)]
  <2>1. v \in Passes /\ v.list \subseteq DOMAIN cps /\ v.pc \notin Holding /\ v.pc # "final"
    BY <1>0, <1>u, IdlePass DEF Passes, Steps, Holding
  <2>2. wk' = [wk EXCEPT ![w] = v]
    BY <1>1 DEF Begin
  <2> HIDE DEF v
  <2> QED
    BY <1>1, <2>1, <2>2, LocalStep DEF Begin, Inv, TypeOK
<1>2. CASE NextPending(w)
  <2>1. ASSUME NEW c \in wk[w].list,
               wk' = [wk EXCEPT ![w].pc = "debit", ![w].ret = "pending", ![w].cp = Row(cps, c), ![w].list = @ \ {c}]
        PROVE  Inv'
    <3> DEFINE v == [wk[w] EXCEPT !.pc = "debit", !.ret = "pending", !.cp = Row(cps, c), !.list = @ \ {c}]
    <3>1. c \in DOMAIN cps /\ Row(cps, c) \in [id : Nat, int : Nat, from : Times, to : Times]
      BY <1>0, <2>1, RowTyped DEF Inv, TypeOK
    <3>2. v \in Passes /\ v.list \subseteq DOMAIN cps /\ v.pc = "debit" /\ v.cp = Row(cps, c)
      BY <1>0, <3>1 DEF Passes, Steps
    <3>3. wk' = [wk EXCEPT ![w] = v]
      BY <2>1, <1>0 DEF Inv, TypeOK, Passes
    <3> HIDE DEF v
    <3> QED
      BY <1>2, <3>1, <3>2, <3>3, TakeRow DEF NextPending
  <2>2. ASSUME NEW pc \in {"enforce", "observe"}, wk' = [wk EXCEPT ![w].pc = pc]
        PROVE  Inv'
    <3> DEFINE v == [wk[w] EXCEPT !.pc = pc]
    <3>1. v \in Passes /\ v.list \subseteq DOMAIN cps /\ v.pc \notin Holding /\ v.pc # "final"
      BY <1>0, <2>2 DEF Passes, Steps, Holding
    <3>2. wk' = [wk EXCEPT ![w] = v]
      BY <2>2
    <3> HIDE DEF v
    <3> QED
      BY <1>2, <3>1, <3>2, LocalStep DEF NextPending, Inv, TypeOK
  <2> QED
    BY <1>2, <2>1, <2>2 DEF NextPending
<1>3. CASE Observe(w)
  <2>1. PICK pc \in {"running", "stopped"} : wk' = [wk EXCEPT ![w].pc = pc]
    BY <1>3 DEF Observe
  <2> DEFINE v == [wk[w] EXCEPT !.pc = pc]
  <2>2. v \in Passes /\ v.list \subseteq DOMAIN cps /\ v.pc \notin Holding /\ v.pc # "final"
    BY <1>0, <2>1 DEF Passes, Steps, Holding
  <2>3. wk' = [wk EXCEPT ![w] = v]
    BY <2>1
  <2> HIDE DEF v
  <2> QED
    BY <1>3, <2>2, <2>3, LocalStep DEF Observe, Inv, TypeOK
<1>4. CASE OpenInterval(w)
  <2>1. PICK pc \in {"close", "final"}, i \in Nat :
          wk' = [wk EXCEPT ![w] = [wk[w] EXCEPT !.pc = pc, !.int = i]] /\ (pc = "final" => i \in DOMAIN intervals)
    <3>1. CASE wk' = [wk EXCEPT ![w].pc = "close"]
      <4>1. wk[w].int \in Nat
        BY <1>0 DEF Passes
      <4>2. [wk[w] EXCEPT !.pc = "close"] = [wk[w] EXCEPT !.pc = "close", !.int = wk[w].int]
        BY <1>0 DEF Passes
      <4> QED
        BY <3>1, <4>1, <4>2
    <3>2. ASSUME NEW i \in Open, wk' = [wk EXCEPT ![w].int = i, ![w].pc = "final"]
          PROVE  i \in Nat /\ i \in DOMAIN intervals /\ wk' = [wk EXCEPT ![w] = [wk[w] EXCEPT !.pc = "final", !.int = i]]
      <4>1. i \in Nat /\ i \in DOMAIN intervals
        BY <3>2 DEF Open, Inv, TypeOK
      <4>2. wk' = [wk EXCEPT ![w] = [wk[w] EXCEPT !.pc = "final", !.int = i]]
        BY <3>2, <1>0 DEF Inv, TypeOK, Passes
      <4> QED
        BY <4>1, <4>2
    <3> QED
      BY <1>4, <3>1, <3>2 DEF OpenInterval
  <2> DEFINE v == [wk[w] EXCEPT !.pc = pc, !.int = i]
  <2>2. v \in Passes /\ v.list \subseteq DOMAIN cps /\ v.pc \notin Holding /\ (v.pc = "final" => v.int \in DOMAIN intervals)
    BY <1>0, <2>1 DEF Passes, Steps, Holding
  <2> HIDE DEF v
  <2> QED
    BY <1>4, <2>1, <2>2, LocalStep DEF OpenInterval, Inv, TypeOK, v
<1>5. CASE Abort(w)
  <2> DEFINE v == [Idle EXCEPT !.now = wk[w].now]
  <2>1. v \in Passes /\ v.list \subseteq DOMAIN cps /\ v.pc \notin Holding /\ v.pc # "final"
    BY <1>0, IdlePass DEF Passes, Steps, Holding
  <2>2. wk' = [wk EXCEPT ![w] = v] /\ faults' \in 0 .. MaxFaults
    BY <1>5 DEF Abort, Fault, Inv, TypeOK
  <2> HIDE DEF v
  <2> QED
    BY <1>5, <2>1, <2>2, LocalStep DEF Abort
<1> QED
  BY <1>1, <1>2, <1>3, <1>4, <1>5

(* EnsureOpenInterval: a new interval starts with nothing metered.         *)
LEMMA OpeningStep ==
  ASSUME Inv, NEW w \in Workers, EnsureOpenInterval(w)
  PROVE  Inv'
<1> USE DEF At, Goto
<1>0. wk[w] \in Passes /\ wk[w].list \subseteq DOMAIN cps /\ intervals \in Seq(Intervals)
  BY DEF Inv, TypeOK, HoldsRow
<1>1. ASSUME intervals' = Append(intervals, [start |-> wk[w].now, last |-> wk[w].now, stopped |-> 0]),
             wk' = [wk EXCEPT ![w].pc = "enforce"]
      PROVE  Inv'
  <2> DEFINE r == [start |-> wk[w].now, last |-> wk[w].now, stopped |-> 0]
  <2>1. r \in Intervals
    BY <1>0 DEF Passes, Intervals, Times
  <2>2. /\ intervals' \in Seq(Intervals)
        /\ DOMAIN intervals' = 1 .. Len(intervals) + 1
        /\ \A i \in DOMAIN intervals : intervals'[i] = intervals[i]
        /\ intervals'[Len(intervals) + 1] = r
    <3> HIDE DEF r
    <3> QED
      BY <1>0, <1>1, <2>1 DEF r
  <2>3. wk' \in [Workers -> Passes] /\ wk'[w].pc = "enforce" /\ wk'[w].list = wk[w].list
    BY <1>0, <1>1 DEF Inv, TypeOK, Passes, Steps
  <2>4. TypeOK'
    BY <2>2, <2>3 DEF EnsureOpenInterval, Inv, TypeOK, machine, account
  <2>5. ProcessedIsPaid' /\ UNCHANGED <<cps, ledger>>
    BY DEF EnsureOpenInterval, Inv, ProcessedIsPaid, Key, account
  <2>6. MeteredIsBilled'
    <3> SUFFICES ASSUME NEW i \in DOMAIN intervals' PROVE Billed(i, intervals[i].start, intervals[i].last)'
      BY DEF MeteredIsBilled
    <3>1. CASE i \in DOMAIN intervals
      BY <2>2, <2>5, <3>1 DEF Inv, MeteredIsBilled, Billed
    <3>2. CASE i = Len(intervals) + 1
      <4>1. intervals'[i].start = wk[w].now /\ intervals'[i].last = wk[w].now /\ wk[w].now \in Nat
        BY <1>0, <2>2, <3>2 DEF Passes, Times
      <4> QED
        BY <4>1 DEF Billed
    <3> QED
      BY <1>0, <2>2, <3>1, <3>2
  <2>7. \A u \in Workers : HoldsRow(u)'
    <3> TAKE u \in Workers
    <3>1. CASE u = w
      BY <1>0, <2>3, <2>5, <3>1 DEF HoldsRow, Holding
    <3>2. CASE u # w
      <4>1. RowsKept
        BY <1>0, <2>2, <2>5 DEF RowsKept, Key
      <4> QED
        BY <1>1, <2>5, <3>2, <4>1, HoldKept DEF Inv, TypeOK
    <3> QED
      BY <3>1, <3>2
  <2> QED
    BY <2>4, <2>5, <2>6, <2>7 DEF Inv
<1>2. ASSUME NEW i \in Open, UNCHANGED intervals,
             wk' = [wk EXCEPT ![w].int = i, ![w].last = intervals[i].last, ![w].pc = "checkpoint"]
      PROVE  Inv'
  <2> DEFINE v == [wk[w] EXCEPT !.int = i, !.last = intervals[i].last, !.pc = "checkpoint"]
  <2>1. i \in Nat /\ intervals[i].last \in Times
    <3>1. i \in DOMAIN intervals
      BY <1>2 DEF Open
    <3>2. i \in Nat /\ intervals[i] \in Intervals
      BY <1>0, <3>1
    <3> QED
      BY <3>2 DEF Intervals
  <2>2. v \in Passes /\ v.list \subseteq DOMAIN cps /\ v.pc \notin Holding /\ v.pc # "final"
    BY <1>0, <2>1 DEF Passes, Steps, Holding
  <2>3. wk' = [wk EXCEPT ![w] = v]
    BY <1>0, <1>2 DEF Inv, TypeOK, Passes
  <2>4. UNCHANGED <<clock, machine, tables, account>> /\ faults' \in 0 .. MaxFaults
    BY <1>2 DEF EnsureOpenInterval, tables, Inv, TypeOK
  <2> HIDE DEF v
  <2> QED
    BY <2>2, <2>3, <2>4, LocalStep
<1> QED
  BY <1>1, <1>2 DEF EnsureOpenInterval

(* A table that gained at most one created row keeps the invariant, with   *)
(* the acting pass holding a row of the new table, or none.                *)
LEMMA InsertStep ==
  ASSUME Inv, NEW w \in Workers, NEW v \in Passes, wk' = [wk EXCEPT ![w] = v],
         NEW i \in Nat \ {0}, NEW from \in Times, NEW to \in Times,
         cps' = Insert(i, from, to),
         v.list \subseteq DOMAIN cps, v.pc \in {"debit", "close"},
         v.pc = "debit" /\ v.cp.id # 0 => v.cp.id \in DOMAIN cps' /\ Key(cps'[v.cp.id]) = Key(v.cp),
         UNCHANGED <<clock, machine, intervals, account, faults>>
  PROVE  Inv'
<1>1. /\ cps' \in Seq(Checkpoints)
      /\ \A c \in DOMAIN cps : c \in DOMAIN cps' /\ cps'[c] = cps[c]
      /\ \A c \in DOMAIN cps' : c \in DOMAIN cps \/ cps'[c].state = "created"
  BY InsertKeeps DEF Inv
<1>2. TypeOK'
  BY <1>1 DEF Inv, TypeOK, machine, account
<1>3. ProcessedIsPaid'
  BY <1>1 DEF Inv, ProcessedIsPaid, Key, account
<1>4. MeteredIsBilled'
  BY DEF Inv, MeteredIsBilled, Billed, account
<1>5. \A u \in Workers : HoldsRow(u)'
  <2> TAKE u \in Workers
  <2>1. CASE u = w
    <3>1. wk'[w] = v
      BY DEF Inv, TypeOK
    <3> QED
      BY <1>1, <2>1, <3>1 DEF HoldsRow, Holding, Key
  <2>2. CASE u # w
    <3>1. RowsKept
      BY <1>1 DEF RowsKept, Key
    <3>2. wk'[u] = wk[u] /\ ledger \subseteq ledger'
      BY <2>2 DEF Inv, TypeOK, account
    <3> QED
      BY <3>1, <3>2, HoldKept DEF Inv
  <2> QED
    BY <2>1, <2>2
<1> QED
  BY <1>2, <1>3, <1>4, <1>5 DEF Inv

(* CreateCheckpoint takes up an unprocessed row or the row it inserts.     *)
LEMMA CreatingStep ==
  ASSUME Inv, NEW w \in Workers, CreateCheckpoint(w)
  PROVE  Inv'
<1> USE DEF At, Goto
<1> DEFINE i == wk[w].int
           now == wk[w].now
           last == intervals[i].last
<1>0. wk[w] \in Passes /\ wk[w].list \subseteq DOMAIN cps /\ intervals \in Seq(Intervals) /\ cps \in Seq(Checkpoints)
  BY DEF Inv, TypeOK, HoldsRow
<1>1. ASSUME UNCHANGED cps, wk' = [wk EXCEPT ![w].pc = "enforce"]
      PROVE  Inv'
  <2> DEFINE v == [wk[w] EXCEPT !.pc = "enforce"]
  <2>1. v \in Passes /\ v.list \subseteq DOMAIN cps /\ v.pc \notin Holding /\ v.pc # "final"
    BY <1>0 DEF Passes, Steps, Holding
  <2>2. wk' = [wk EXCEPT ![w] = v]
    BY <1>1
  <2>3. UNCHANGED <<clock, machine, tables, account>> /\ faults' \in 0 .. MaxFaults
    BY <1>1 DEF CreateCheckpoint, tables, Inv, TypeOK
  <2> HIDE DEF v
  <2> QED
    BY <2>1, <2>2, <2>3, LocalStep
<1>2. ASSUME NEW c \in UnpaidOf(cps, i), UNCHANGED cps,
             wk' = [wk EXCEPT ![w].pc = "debit", ![w].ret = "enforce", ![w].cp = Row(cps, c)]
      PROVE  Inv'
  <2> DEFINE v == [wk[w] EXCEPT !.pc = "debit", !.ret = "enforce", !.cp = Row(cps, c)]
  <2>1. c \in DOMAIN cps
    BY <1>2 DEF UnpaidOf, Unpaid
  <2>2. Row(cps, c) \in [id : Nat, int : Nat, from : Times, to : Times]
    BY <1>0, <2>1, RowTyped
  <2>3. v \in Passes /\ v.list \subseteq DOMAIN cps /\ v.pc = "debit" /\ v.cp = Row(cps, c)
    BY <1>0, <2>2 DEF Passes, Steps
  <2>4. wk' = [wk EXCEPT ![w] = v]
    BY <1>0, <1>2 DEF Inv, TypeOK, Passes
  <2>5. UNCHANGED <<clock, machine, tables, account, faults>>
    BY <1>2 DEF CreateCheckpoint, tables
  <2> HIDE DEF v
  <2> QED
    BY <2>1, <2>3, <2>4, <2>5, TakeRow
<1>3. ASSUME i \in Open, now > last, cps' = Insert(i, last, now),
             wk' = [wk EXCEPT ![w].pc = "debit", ![w].ret = "enforce",
                              ![w].cp = [id |-> IF Taken(i, last, now) THEN 0 ELSE Len(cps) + 1,
                                         int |-> i, from |-> last, to |-> now]]
      PROVE  Inv'
  <2> DEFINE cp == [id |-> IF Taken(i, last, now) THEN 0 ELSE Len(cps) + 1, int |-> i, from |-> last, to |-> now]
             v == [wk[w] EXCEPT !.pc = "debit", !.ret = "enforce", !.cp = cp]
  <2>1. i \in Nat \ {0} /\ last \in Times /\ now \in Times
    <3>1. i \in DOMAIN intervals
      BY <1>3 DEF Open
    <3>2. i \in Nat \ {0} /\ intervals[i] \in Intervals
      BY <1>0, <3>1
    <3> QED
      BY <1>0, <3>2 DEF Intervals, Passes
  <2>2. cp \in [id : Nat, int : Nat, from : Times, to : Times]
    BY <1>0, <2>1
  <2>3. cp.id # 0 => cp.id \in DOMAIN cps' /\ Key(cps'[cp.id]) = Key(cp)
    <3>1. ASSUME ~Taken(i, last, now)
          PROVE  Len(cps) + 1 \in DOMAIN cps'
                 /\ cps'[Len(cps) + 1] = [int |-> i, from |-> last, to |-> now, state |-> "created"]
      BY <1>3, <2>1, <3>1, InsertKeeps DEF Inv
    <3> QED
      BY <3>1 DEF Key
  <2> HIDE DEF cp
  <2>4. v \in Passes /\ v.list \subseteq DOMAIN cps /\ v.pc = "debit" /\ v.cp = cp
    BY <1>0, <2>2 DEF Passes, Steps
  <2>5. wk' = [wk EXCEPT ![w] = v]
    BY <1>0, <1>3 DEF Inv, TypeOK, Passes, cp
  <2>6. UNCHANGED <<clock, machine, intervals, account, faults>>
    BY DEF CreateCheckpoint
  <2> HIDE DEF v, i, now, last
  <2> QED
    BY <1>3, <2>1, <2>3, <2>4, <2>5, <2>6, InsertStep
<1> QED
  BY <1>1, <1>2, <1>3 DEF CreateCheckpoint

(* EnsureFinalCheckpoint takes up an unprocessed row of the table with the *)
(* tail, if there is one.                                                  *)
LEMMA FinalStep ==
  ASSUME Inv, NEW w \in Workers, EnsureFinalCheckpoint(w)
  PROVE  Inv'
<1> USE DEF At, Goto
<1>0. /\ wk[w] \in Passes /\ wk[w].list \subseteq DOMAIN cps
      /\ intervals \in Seq(Intervals) /\ cps \in Seq(Checkpoints)
      /\ wk[w].int \in DOMAIN intervals
  BY DEF EnsureFinalCheckpoint, Inv, TypeOK, HoldsRow
<1>1. wk[w].int \in Nat \ {0} /\ wk[w].now \in Times
  BY <1>0 DEF Passes
<1>2. PICK from \in Times :
        /\ cps' = IF wk[w].now > from THEN Insert(wk[w].int, from, wk[w].now) ELSE cps
        /\ \/ wk' = [wk EXCEPT ![w].pc = "close"]
           \/ \E c \in UnpaidOf(cps', wk[w].int) :
                wk' = [wk EXCEPT ![w].pc = "debit", ![w].ret = "close", ![w].cp = Row(cps', c)]
  BY DEF EnsureFinalCheckpoint
<1>3. UNCHANGED <<clock, machine, intervals, account, faults>>
  BY DEF EnsureFinalCheckpoint
<1>4. cps' \in Seq(Checkpoints)
  BY <1>0, <1>1, <1>2, InsertKeeps DEF Inv
<1>5. PICK v \in Passes :
        /\ wk' = [wk EXCEPT ![w] = v]
        /\ v.list \subseteq DOMAIN cps /\ v.pc \in {"debit", "close"}
        /\ v.pc = "debit" => v.cp.id \in DOMAIN cps' /\ v.cp = Row(cps', v.cp.id)
  <2>1. CASE wk' = [wk EXCEPT ![w].pc = "close"]
    <3> DEFINE v == [wk[w] EXCEPT !.pc = "close"]
    <3>1. v \in Passes /\ v.list \subseteq DOMAIN cps /\ v.pc = "close"
      BY <1>0 DEF Passes, Steps
    <3>2. wk' = [wk EXCEPT ![w] = v]
      BY <2>1
    <3> HIDE DEF v
    <3> QED
      BY <3>1, <3>2
  <2>2. ASSUME NEW c \in UnpaidOf(cps', wk[w].int),
               wk' = [wk EXCEPT ![w].pc = "debit", ![w].ret = "close", ![w].cp = Row(cps', c)]
        PROVE  \E v \in Passes :
                 /\ wk' = [wk EXCEPT ![w] = v]
                 /\ v.list \subseteq DOMAIN cps /\ v.pc \in {"debit", "close"}
                 /\ v.pc = "debit" => v.cp.id \in DOMAIN cps' /\ v.cp = Row(cps', v.cp.id)
    <3> DEFINE v == [wk[w] EXCEPT !.pc = "debit", !.ret = "close", !.cp = Row(cps', c)]
    <3>1. c \in DOMAIN cps' /\ Row(cps', c).id = c
      BY <2>2 DEF UnpaidOf, Unpaid, Row
    <3>2. Row(cps', c) \in [id : Nat, int : Nat, from : Times, to : Times]
      <4>1. cps'[c] \in Checkpoints /\ c \in Nat
        BY <1>4, <3>1
      <4> QED
        BY <4>1 DEF Row, Checkpoints
    <3>3. v \in Passes /\ v.list \subseteq DOMAIN cps /\ v.pc = "debit" /\ v.cp = Row(cps', c)
      BY <1>0, <3>2 DEF Passes, Steps
    <3>4. wk' = [wk EXCEPT ![w] = v]
      BY <1>0, <2>2 DEF Inv, TypeOK, Passes
    <3> HIDE DEF v
    <3> QED
      BY <3>1, <3>3, <3>4
  <2> QED
    BY <1>2, <2>1, <2>2
<1>6. v.pc = "debit" => Key(cps'[v.cp.id]) = Key(v.cp)
  <2>1. \A c : Key(Row(cps', c)) = Key(cps'[c])
    BY DEF Key, Row
  <2> QED
    BY <1>5, <2>1
<1>7. CASE wk[w].now > from
  BY <1>1, <1>2, <1>3, <1>5, <1>6, <1>7, InsertStep
<1>8. CASE ~(wk[w].now > from)
  <2>1. cps' = cps /\ UNCHANGED <<clock, machine, tables, account, faults>>
    BY <1>2, <1>3, <1>8 DEF tables
  <2>2. CASE v.pc = "debit"
    BY <1>5, <2>1, <2>2, TakeRow DEF Row
  <2>3. CASE v.pc = "close"
    <3>1. v.pc \notin Holding /\ v.pc # "final" /\ faults' \in 0 .. MaxFaults
      BY <2>1, <2>3 DEF Holding, Inv, TypeOK
    <3> QED
      BY <1>5, <2>1, <3>1, LocalStep
  <2> QED
    BY <1>5, <2>2, <2>3
<1> QED
  BY <1>7, <1>8

(* CloseOpenInterval changes neither the start nor the metered time.       *)
LEMMA ClosingStep ==
  ASSUME Inv, NEW w \in Workers, CloseOpenInterval(w)
  PROVE  Inv'
<1> USE DEF At, Goto
<1>0. wk[w] \in Passes /\ wk[w].list \subseteq DOMAIN cps /\ intervals \in Seq(Intervals) /\ wk[w].now \in Times
  BY DEF Inv, TypeOK, HoldsRow, Passes
<1>1. UNCHANGED <<clock, machine, cps, account, faults>>
  BY DEF CloseOpenInterval
<1>2. /\ DOMAIN intervals' = DOMAIN intervals
      /\ \A i \in DOMAIN intervals : /\ intervals'[i] \in Intervals
                                     /\ intervals'[i].start = intervals[i].start
                                     /\ intervals'[i].last = intervals[i].last
  <2>1. \A i \in DOMAIN intervals : intervals[i] \in Intervals
    BY <1>0
  <2> QED
    BY <1>0, <2>1 DEF CloseOpenInterval, Intervals
<1>3. intervals' \in Seq(Intervals)
  <2>1. intervals' = [i \in 1 .. Len(intervals) |-> intervals'[i]]
    BY <1>0 DEF CloseOpenInterval
  <2>2. intervals' \in [1 .. Len(intervals) -> Intervals] /\ Len(intervals) \in Nat
    BY <1>0, <1>2, <2>1
  <2> QED
    BY <2>2
<1>4. wk' \in [Workers -> Passes] /\ wk'[w].pc = "enforce" /\ wk'[w].list = wk[w].list
  BY <1>0 DEF CloseOpenInterval, Inv, TypeOK, Passes, Steps
<1>5. TypeOK'
  BY <1>1, <1>3, <1>4 DEF Inv, TypeOK, machine, account
<1>6. ProcessedIsPaid' /\ MeteredIsBilled'
  BY <1>1, <1>2 DEF Inv, ProcessedIsPaid, MeteredIsBilled, Billed, Key, account
<1>7. \A u \in Workers : HoldsRow(u)'
  <2> TAKE u \in Workers
  <2>1. CASE u = w
    BY <1>0, <1>1, <1>4, <2>1 DEF HoldsRow, Holding
  <2>2. CASE u # w
    <3>1. RowsKept /\ ledger \subseteq ledger'
      BY <1>1, <1>2 DEF RowsKept, account
    <3>2. wk'[u] = wk[u]
      BY <2>2 DEF CloseOpenInterval, Inv, TypeOK
    <3> QED
      BY <3>1, <3>2, HoldKept DEF Inv
  <2> QED
    BY <2>1, <2>2
<1> QED
  BY <1>5, <1>6, <1>7 DEF Inv

(* DebitCredits reaches the mark only with the key in the ledger.          *)
LEMMA DebitStep ==
  ASSUME Inv, NEW w \in Workers, DebitCredits(w)
  PROVE  Inv'
<1> USE DEF At, Goto
<1> DEFINE cp == wk[w].cp
<1>0. /\ wk[w] \in Passes /\ wk[w].pc = "debit" /\ HoldsRow(w)
      /\ cp \in [id : Nat, int : Nat, from : Times, to : Times]
      /\ balance \in Nat /\ faults \in 0 .. MaxFaults
  BY DEF DebitCredits, Inv, TypeOK, Passes
<1>1. UNCHANGED <<clock, machine, tables, grants>>
  BY DEF DebitCredits
<1>2. PICK pc \in {"paid", "broke", "failed"} :
        wk' = [wk EXCEPT ![w].pc = pc] /\ (pc = "paid" => Key(cp) \in ledger')
  BY DEF DebitCredits
<1>3. Key(cp) \in Nat \X Times \X Times /\ Cost(cp) \in Int
  BY <1>0 DEF Key, Cost, Times
<1>4. ledger \subseteq ledger' /\ ledger' \subseteq (Nat \X Times \X Times)
  BY <1>3 DEF DebitCredits, Inv, TypeOK
<1>5. balance' \in Nat
  BY <1>0, <1>3 DEF DebitCredits
<1>6. faults' \in 0 .. MaxFaults
  BY <1>0 DEF DebitCredits, Fault
<1>7. wk' \in [Workers -> Passes] /\ wk'[w] = [wk[w] EXCEPT !.pc = pc]
  BY <1>0, <1>2 DEF Inv, TypeOK, Passes, Steps
<1>8. TypeOK'
  BY <1>1, <1>4, <1>5, <1>6, <1>7 DEF Inv, TypeOK, machine, tables
<1>9. ProcessedIsPaid' /\ MeteredIsBilled'
  BY <1>1, <1>4, PaidKept DEF Inv
<1>10. \A u \in Workers : HoldsRow(u)'
  <2> TAKE u \in Workers
  <2>1. CASE u = w
    <3>1. /\ wk'[w].list = wk[w].list /\ wk'[w].cp = wk[w].cp /\ wk'[w].int = wk[w].int
          /\ wk'[w].pc = pc /\ pc # "final"
      BY <1>0, <1>2, <1>7 DEF Passes
    <3> QED
      BY <1>0, <1>1, <1>2, <2>1, <3>1 DEF HoldsRow, Holding, tables, Key
  <2>2. CASE u # w
    <3>1. RowsKept
      BY <1>1 DEF RowsKept, tables
    <3>2. wk'[u] = wk[u]
      BY <1>2, <2>2 DEF Inv, TypeOK
    <3> QED
      BY <1>4, <3>1, <3>2, HoldKept DEF Inv
  <2> QED
    BY <2>1, <2>2
<1> QED
  BY <1>8, <1>9, <1>10 DEF Inv

(* Changing the state of one row keeps every row and its type.             *)
LEMMA StateKeeps ==
  ASSUME TypeOK, NEW id \in Nat, NEW state \in {"created", "failed", "processed"}, cps' = SetState(id, state)
  PROVE  /\ cps' \in Seq(Checkpoints)
         /\ DOMAIN cps' = DOMAIN cps
         /\ \A c \in DOMAIN cps : /\ Key(cps'[c]) = Key(cps[c])
                                  /\ cps'[c].state = cps[c].state \/ (c = id /\ id # 0 /\ cps'[c].state = state)
<1>1. cps \in Seq(Checkpoints) /\ \A c \in DOMAIN cps : cps[c] \in Checkpoints
  BY DEF TypeOK
<1>2. CASE id = 0 \/ id \notin DOMAIN cps
  <2>1. cps' = cps
    BY <1>1, <1>2 DEF SetState
  <2> QED
    BY <1>1, <2>1
<1>3. CASE id # 0 /\ id \in DOMAIN cps
  <2>1. cps' = [cps EXCEPT ![id] = [cps[id] EXCEPT !.state = state]]
    BY <1>3 DEF SetState
  <2>2. [cps[id] EXCEPT !.state = state] \in Checkpoints
    BY <1>1, <1>3 DEF Checkpoints
  <2>3. cps' \in Seq(Checkpoints) /\ DOMAIN cps' = DOMAIN cps
    BY <1>1, <1>3, <2>1, <2>2
  <2>4. \A c \in DOMAIN cps : c # id => cps'[c] = cps[c]
    BY <1>1, <2>1
  <2>5. cps'[id] = [cps[id] EXCEPT !.state = state]
    BY <1>1, <1>3, <2>1
  <2>6. Key(cps'[id]) = Key(cps[id]) /\ cps'[id].state = state
    BY <1>1, <1>3, <2>5 DEF Key, Checkpoints
  <2> QED
    BY <1>3, <2>3, <2>4, <2>6
<1> QED
  BY <1>2, <1>3

(* The three marks: the row changes state, to processed only past the      *)
(* debit; last_metered_at moves only over the period just paid for.        *)
LEMMA MarkingStep ==
  ASSUME Inv, NEW w \in Workers,
         \/ MarkCheckpointProcessed(w)
         \/ MarkCheckpointFailed(w)
         \/ MarkCheckpointFailedAndQueueCreditStop(w)
  PROVE  Inv'
<1> USE DEF At, Goto
<1> DEFINE cp == wk[w].cp
<1>0. /\ wk[w] \in Passes /\ HoldsRow(w) /\ wk[w].pc \in Holding
      /\ cp \in [id : Nat, int : Nat, from : Times, to : Times]
      /\ intervals \in Seq(Intervals) /\ TypeOK
  BY DEF MarkCheckpointProcessed, MarkCheckpointFailed, MarkCheckpointFailedAndQueueCreditStop,
         Inv, TypeOK, Passes, Holding
<1>1. PICK state \in {"failed", "processed"} :
        cps' = SetState(cp.id, state) /\ (state = "processed" => wk[w].pc = "paid")
  BY DEF MarkCheckpointProcessed, MarkCheckpointFailed, MarkCheckpointFailedAndQueueCreditStop
<1>2. /\ cps' \in Seq(Checkpoints)
      /\ DOMAIN cps' = DOMAIN cps
      /\ \A c \in DOMAIN cps :
           /\ Key(cps'[c]) = Key(cps[c])
           /\ cps'[c].state = cps[c].state \/ (c = cp.id /\ cp.id # 0 /\ cps'[c].state = state)
  BY <1>0, <1>1, StateKeeps
<1>3. wk' = [wk EXCEPT ![w].pc = wk[w].ret] /\ UNCHANGED <<clock, account, faults>>
  BY DEF MarkCheckpointProcessed, MarkCheckpointFailed, MarkCheckpointFailedAndQueueCreditStop
<1>4. \/ UNCHANGED intervals
      \/ /\ wk[w].pc = "paid" /\ intervals[cp.int].last = cp.from
         /\ intervals' = [intervals EXCEPT ![cp.int].last = cp.to]
  BY DEF MarkCheckpointProcessed, MarkCheckpointFailed, MarkCheckpointFailedAndQueueCreditStop
<1>5. UNCHANGED <<up, entitled>> /\ pstate' \in {pstate, "stopping"} /\ jobs' \in {jobs, jobs \cup {"stop"}}
  BY DEF MarkCheckpointProcessed, MarkCheckpointFailed, MarkCheckpointFailedAndQueueCreditStop,
         QueueSystemStop, machine
<1>6. /\ intervals' \in Seq(Intervals) /\ DOMAIN intervals' = DOMAIN intervals
      /\ \A i \in DOMAIN intervals :
           \/ intervals'[i] = intervals[i]
           \/ /\ i = cp.int /\ wk[w].pc = "paid" /\ intervals[i].last = cp.from
              /\ intervals'[i].start = intervals[i].start /\ intervals'[i].last = cp.to
  <2>1. CASE UNCHANGED intervals
    BY <1>0, <2>1
  <2>2. CASE /\ wk[w].pc = "paid" /\ intervals[cp.int].last = cp.from /\ cp.int \in DOMAIN intervals
             /\ intervals' = [intervals EXCEPT ![cp.int].last = cp.to]
    <3>1. intervals[cp.int] \in Intervals
      BY <1>0, <2>2
    <3>2. intervals' = [intervals EXCEPT ![cp.int] = [intervals[cp.int] EXCEPT !.last = cp.to]]
      BY <2>2
    <3>3. [intervals[cp.int] EXCEPT !.last = cp.to] \in Intervals
      BY <1>0, <3>1 DEF Intervals
    <3>4. intervals' \in Seq(Intervals) /\ DOMAIN intervals' = DOMAIN intervals
      BY <1>0, <2>2, <3>2, <3>3
    <3>5. intervals'[cp.int] = [intervals[cp.int] EXCEPT !.last = cp.to]
          /\ \A i \in DOMAIN intervals : i # cp.int => intervals'[i] = intervals[i]
      BY <1>0, <2>2, <3>2
    <3>6. intervals'[cp.int].start = intervals[cp.int].start /\ intervals'[cp.int].last = cp.to
      BY <3>1, <3>5 DEF Intervals
    <3> QED
      BY <2>2, <3>4, <3>5, <3>6
  <2>3. CASE cp.int \notin DOMAIN intervals /\ intervals' = [intervals EXCEPT ![cp.int].last = cp.to]
    <3>1. intervals' = intervals
      BY <1>0, <2>3
    <3> QED
      BY <1>0, <3>1
  <2> QED
    BY <1>4, <2>1, <2>2, <2>3
<1>7. wk' \in [Workers -> Passes] /\ wk'[w] = [wk[w] EXCEPT !.pc = wk[w].ret]
  BY <1>0, <1>3 DEF TypeOK, Passes, Steps
<1>8. TypeOK'
  <2>1. up' \in BOOLEAN /\ entitled' \in BOOLEAN
    BY <1>0, <1>5 DEF TypeOK
  <2>2. pstate' \in {"starting", "running", "stopping", "stopped"}
        /\ jobs' \subseteq {"start", "started", "stop", "stopped"}
    BY <1>0, <1>5 DEF TypeOK
  <2> QED
    BY <1>0, <1>2, <1>3, <1>6, <1>7, <2>1, <2>2 DEF TypeOK, account
<1>9. ProcessedIsPaid'
  <2> SUFFICES ASSUME NEW c \in DOMAIN cps, cps'[c].state = "processed" PROVE Key(cps'[c]) \in ledger
    BY <1>2, <1>3 DEF ProcessedIsPaid, account, Key
  <2>1. CASE cps[c].state = "processed"
    BY <1>2, <2>1 DEF Inv, ProcessedIsPaid
  <2>2. CASE c = cp.id /\ cp.id # 0 /\ state = "processed"
    BY <1>0, <1>1, <1>2, <2>2 DEF HoldsRow
  <2> QED
    BY <1>2, <2>1, <2>2
<1>10. MeteredIsBilled'
  <2> SUFFICES ASSUME NEW i \in DOMAIN intervals, NEW t \in intervals'[i].start .. intervals'[i].last - 1
               PROVE  \E k \in ledger : k[1] = i /\ k[2] <= t /\ t < k[3]
    BY <1>3, <1>6 DEF MeteredIsBilled, Billed, account
  <2>0. \A s \in intervals[i].start .. intervals[i].last - 1 : \E k \in ledger : k[1] = i /\ k[2] <= s /\ s < k[3]
    BY DEF Inv, MeteredIsBilled, Billed
  <2>1. CASE intervals'[i] = intervals[i]
    BY <2>0, <2>1
  <2>2. CASE /\ i = cp.int /\ wk[w].pc = "paid" /\ intervals[i].last = cp.from
             /\ intervals'[i].start = intervals[i].start /\ intervals'[i].last = cp.to
    <3>0. intervals[i] \in Intervals
      BY <1>0
    <3>1. t \in Int /\ intervals[i].start \in Int /\ cp.from \in Int /\ cp.to \in Int
          /\ intervals[i].start <= t /\ t < cp.to
      <4>1. intervals[i].start \in Int /\ cp.from \in Int /\ cp.to \in Int
        <5>1. cp.from \in Times /\ cp.to \in Times
          BY <1>0
        <5>2. intervals[i].start \in Times
          BY <3>0 DEF Intervals
        <5>3. Times \subseteq Int
          BY DEF Times
        <5> QED
          BY <5>1, <5>2, <5>3
      <4>2. t \in intervals[i].start .. cp.to - 1
        BY <2>2
      <4> QED
        BY <4>1, <4>2
    <3>2. CASE t < cp.from
      BY <2>0, <2>2, <3>1, <3>2
    <3>3. CASE cp.from <= t
      <4>1. <<cp.int, cp.from, cp.to>> \in ledger
        BY <1>0, <2>2 DEF HoldsRow, Key
      <4> QED
        BY <2>2, <3>1, <3>3, <4>1
    <3> QED
      BY <3>1, <3>2, <3>3
  <2> QED
    BY <1>6, <2>1, <2>2
<1>11. \A u \in Workers : HoldsRow(u)'
  <2> TAKE u \in Workers
  <2>1. CASE u = w
    <3>1. wk'[w].list = wk[w].list /\ wk'[w].pc \notin Holding /\ wk'[w].pc # "final"
      BY <1>0, <1>7 DEF Passes, Holding
    <3> QED
      BY <1>0, <1>2, <2>1, <3>1 DEF HoldsRow, Holding
  <2>2. CASE u # w
    <3>1. RowsKept /\ ledger \subseteq ledger'
      BY <1>2, <1>3, <1>6 DEF RowsKept, account
    <3>2. wk'[u] = wk[u]
      BY <1>3, <2>2 DEF Inv, TypeOK
    <3> QED
      BY <3>1, <3>2, HoldKept DEF Inv
  <2> QED
    BY <2>1, <2>2
<1> QED
  BY <1>8, <1>9, <1>10, <1>11 DEF Inv

(* EnforceEntitlementState ends the pass and may queue a stop.             *)
LEMMA EnforcingStep ==
  ASSUME Inv, NEW w \in Workers, EnforceEntitlementState(w)
  PROVE  Inv'
<1>0. wk[w] \in Passes /\ wk' = [wk EXCEPT ![w] = [Idle EXCEPT !.now = wk[w].now]]
  BY DEF EnforceEntitlementState, Inv, TypeOK
<1>1. UNCHANGED <<clock, tables, account, faults>>
  BY DEF EnforceEntitlementState
<1>2. UNCHANGED <<up, entitled>> /\ pstate' \in {pstate, "stopping"} /\ jobs' \in {jobs, jobs \cup {"stop"}}
  <2>1. CASE QueueSystemStop
    BY <2>1 DEF QueueSystemStop
  <2>2. CASE UNCHANGED machine
    BY <2>2 DEF machine
  <2> QED
    BY <2>1, <2>2 DEF EnforceEntitlementState
<1>3. wk' \in [Workers -> Passes] /\ wk'[w].list = {} /\ wk'[w].pc = "idle"
  BY <1>0, IdlePass DEF Inv, TypeOK, Passes
<1>4. TypeOK'
  <2>1. up' \in BOOLEAN /\ entitled' \in BOOLEAN
    BY <1>2 DEF Inv, TypeOK
  <2>2. pstate' \in {"starting", "running", "stopping", "stopped"}
        /\ jobs' \subseteq {"start", "started", "stop", "stopped"}
    BY <1>2 DEF Inv, TypeOK
  <2> QED
    BY <1>1, <1>3, <2>1, <2>2 DEF Inv, TypeOK, account, tables
<1>5. ProcessedIsPaid' /\ MeteredIsBilled'
  BY <1>1, PaidKept DEF Inv, account
<1>6. \A u \in Workers : HoldsRow(u)'
  <2> TAKE u \in Workers
  <2>1. CASE u = w
    BY <1>3, <2>1 DEF HoldsRow, Holding
  <2>2. CASE u # w
    BY <1>0, <1>1, <2>2, HoldKept DEF Inv, RowsKept, tables, account, TypeOK
  <2> QED
    BY <2>1, <2>2
<1> QED
  BY <1>4, <1>5, <1>6 DEF Inv

(* Time, the owner, the lifecycle jobs, the provider and the grants touch  *)
(* neither the tables nor the debits.                                      *)
LEMMA OutsideStep ==
  ASSUME Inv, Tick \/ Request \/ RunJob \/ FinishJob \/ Exit \/ LoseEntitlement \/ Grant
  PROVE  Inv'
<1>1. UNCHANGED <<tables, ledger, wk>>
  BY DEF Tick, Request, RunJob, FinishJob, Exit, LoseEntitlement, Grant, account
<1>2. TypeOK'
  <2> USE DEF Inv, TypeOK, machine, tables, account
  <2>1. CASE Tick
    BY <2>1 DEF Tick, Times
  <2>2. CASE Request
    BY <2>2 DEF Request
  <2>3. CASE RunJob
    <3>1. up' \in BOOLEAN
      BY <2>3, Zenon DEF RunJob
    <3> QED
      BY <2>3, <3>1 DEF RunJob
  <2>4. CASE FinishJob
    BY <2>4 DEF FinishJob
  <2>5. CASE Exit
    <3>1. up' \in BOOLEAN
      BY <2>5, Zenon DEF Exit
    <3> QED
      BY <2>5, <3>1 DEF Exit, Fault
  <2>6. CASE LoseEntitlement
    <3>1. entitled' \in BOOLEAN
      BY <2>6, Zenon DEF LoseEntitlement
    <3> QED
      BY <2>6, <3>1 DEF LoseEntitlement
  <2>7. CASE Grant
    BY <2>7 DEF Grant
  <2> QED
    BY <2>1, <2>2, <2>3, <2>4, <2>5, <2>6, <2>7
<1>3. ProcessedIsPaid' /\ MeteredIsBilled'
  BY <1>1, PaidKept DEF Inv
<1>4. \A u \in Workers : HoldsRow(u)'
  BY <1>1, HoldKept DEF Inv, RowsKept, tables
<1> QED
  BY <1>2, <1>3, <1>4 DEF Inv

(* The invariant is inductive.                                             *)
LEMMA NextInv == Inv /\ [Next]_vars => Inv'
<1> SUFFICES ASSUME Inv, [Next]_vars PROVE Inv'
  OBVIOUS
<1>1. ASSUME NEW w \in Workers, Pass(w) PROVE Inv'
  BY <1>1, ReadingSteps, OpeningStep, CreatingStep, FinalStep, ClosingStep, DebitStep, MarkingStep, EnforcingStep
     DEF Pass
<1>2. ASSUME NEW w \in Workers, Abort(w) PROVE Inv'
  BY <1>2, ReadingSteps
<1>3. CASE Tick \/ Request \/ RunJob \/ FinishJob \/ Exit \/ LoseEntitlement \/ Grant
  BY <1>3, OutsideStep
<1>4. CASE UNCHANGED vars
  <2>1. UNCHANGED <<clock, machine, tables, account, wk, faults>>
    BY <1>4 DEF vars
  <2>2. TypeOK'
    BY <2>1 DEF Inv, TypeOK, machine, tables, account
  <2>3. ProcessedIsPaid' /\ MeteredIsBilled'
    BY <2>1, PaidKept DEF Inv, account
  <2>4. \A u \in Workers : HoldsRow(u)'
    BY <2>1, HoldKept DEF Inv, RowsKept, tables, account
  <2> QED
    BY <2>2, <2>3, <2>4 DEF Inv
<1> QED
  BY <1>1, <1>2, <1>3, <1>4 DEF Next

(* The metering tables, the account and every pass stay well typed; in     *)
(* particular no debit takes the balance below zero.                       *)
THEOREM MeteringTyped == Spec => []TypeOK
<1>1. Inv => TypeOK
  BY DEF Inv
<1> QED
  BY <1>1, InitInv, NextInv, PTL DEF Spec

(* For any number of overlapping and aborted passes, a checkpoint marked   *)
(* processed has its debit in the credit ledger.                           *)
THEOREM ProcessedIsPaidAlways == Spec => []ProcessedIsPaid
<1>1. Inv => ProcessedIsPaid
  BY DEF Inv
<1> QED
  BY <1>1, InitInv, NextInv, PTL DEF Spec

(* For any number of overlapping and aborted passes, all time up to        *)
(* last_metered_at was debited.                                            *)
THEOREM MeteredIsBilledAlways == Spec => []MeteredIsBilled
<1>1. Inv => MeteredIsBilled
  BY DEF Inv
<1> QED
  BY <1>1, InitInv, NextInv, PTL DEF Spec
=============================================================================
