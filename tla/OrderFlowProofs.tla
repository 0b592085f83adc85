--------------------------- MODULE OrderFlowProofs ---------------------------
(* Theorems about OrderFlow, for any orders, quantities and clients. *)
EXTENDS OrderFlow, TLAPS, FiniteSetTheorems

Batch == [first : Nat, last : Nat]
OrderRow == [status : Flow \cup {"Absent"}, ctb : {"never", "clear", "short"},
             schedule : BOOLEAN, summary : BOOLEAN, batch : Batch]
Entry == [old : Flow, new : Flow]
RequestRow == [op : {"none", "status", "delete", "schedule", "unschedule", "qc"},
             pc : {"idle", "loaded", "create", "status", "write", "cleanup", "reserved", "moved"},
             order : Orders, seen : Flow, to : Flow, plan : Seq(Orders),
             created : BOOLEAN, first : Nat]

TypeInv ==
  /\ order \in [Orders -> OrderRow]
  /\ history \in [Orders -> Seq(Entry)]
  /\ seq \in Nat /\ faults \in Nat
  /\ IsFiniteSet(InFlight) /\ req \in [InFlight -> RequestRow]
  /\ \A c \in InFlight : /\ Idles(c) <=> req[c].op = "none"
                         /\ req[c].op = "schedule" => req[c].plan # << >>

\* What is written together stays together, whatever runs beside each other: an
\* order that was deleted leaves nothing behind.
RowsInv ==
  /\ HistoryEndsInStatus /\ ClosedHasSummary
  /\ \A o \in Orders : ~Exists(o) => ~order[o].schedule /\ history[o] = << >>

\* What a scheduling run that nobody disturbs knows of the orders of its plan.
RunKnows(r) ==
  /\ r.pc \in {"create", "status", "write", "cleanup"}
  /\ \A j, k \in DOMAIN r.plan : r.plan[j] = r.plan[k] => j = k
  /\ \A k \in DOMAIN r.plan : k > 1 \/ r.pc = "create" => ~order[r.plan[k]].schedule
  /\ r.pc # "create" => r.created
  /\ r.pc = "write" => r.seen = order[Head(r.plan)].status

\* What a request that nobody disturbs knows.
Knows(r) ==
  /\ r.op = "status" => /\ Exists(r.order) /\ r.seen = order[r.order].status
                        /\ r.to \in getAllowedNextStatuses(r.seen)
  /\ r.op = "unschedule" => MayUnschedule(r.order)
  /\ r.op = "schedule" => RunKnows(r)

AloneKnows == \A c \in InFlight : Alone => Knows(req[c])

\* A history from Open that goes on where it was.
NoGap(h) == /\ h # << >> => h[1].old = "Open"
            /\ \A k \in 1..Len(h) - 1 : h[k + 1].old = h[k].new

HistoriesInv == \A o \in Orders : Alone => NoGap(history[o])

\* The numbers given out: up to seq, except that a request between nextval and
\* setval, or between setval and its row, has numbers no batch has yet.
BatchesNumbered == \A o \in Orders : order[o].batch # NoBatch =>
  /\ order[o].batch.first >= 1 /\ order[o].batch.last <= seq
  /\ order[o].batch.last = LastSerial(o, order[o].batch.first)

BatchesDisjoint == \A o, p \in Orders :
  o # p /\ order[o].batch # NoBatch /\ order[p].batch # NoBatch =>
    \/ order[o].batch.last < order[p].batch.first
    \/ order[p].batch.last < order[o].batch.first

\* The first number of r is past every batch, and its last is what seq is or will be.
Numbering(r) ==
  /\ r.first >= 1
  /\ r.pc = "reserved" => seq = r.first
  /\ r.pc = "moved" => seq = LastSerial(r.order, r.first)
  /\ \A o \in Orders : order[o].batch # NoBatch => order[o].batch.last < r.first

SerialsInv == Alone =>
  /\ BatchesNumbered /\ BatchesDisjoint
  /\ \A c \in InFlight : req[c].op = "qc" /\ req[c].pc \in {"reserved", "moved"} =>
       Numbering(req[c])

Inv == TypeInv /\ RowsInv /\ AloneKnows /\ SerialsInv /\ HistoriesInv

-----------------------------------------------------------------------------
(* The flow *)

LEMMA FlowIs ==
  /\ DOMAIN STATUS_FLOW = 1..7
  /\ Flow = {"Open", "PendingRM", "Scheduled", "Running", "QC", "DispatchReady", "Closed"}
<1>1. DOMAIN STATUS_FLOW = 1..7
  BY DEF STATUS_FLOW
<1>2. 1..7 = {1, 2, 3, 4, 5, 6, 7}
  OBVIOUS
<1> QED BY <1>1, <1>2 DEF Flow, ToSet, STATUS_FLOW

\* The flow never leads back to Open, and to PendingRM only from there.
LEMMA NextStatus ==
  ASSUME NEW s \in Flow, NEW to \in getAllowedNextStatuses(s)
  PROVE  to \in Flow /\ to # "Open" /\ (to = "PendingRM" => s = "Open")
<1>1. CASE s = "Open" /\ to = "Scheduled"
  BY <1>1, FlowIs
<1>2. CASE to \in LinearNext(s)
  <2>1. PICK k \in DOMAIN STATUS_FLOW : k = IndexOf(s) + 1 /\ to = STATUS_FLOW[k]
    BY <1>2 DEF LinearNext
  <2>2. \E j \in DOMAIN STATUS_FLOW : STATUS_FLOW[j] = s
    BY DEF Flow, ToSet
  <2>3. IndexOf(s) \in 1..7 /\ STATUS_FLOW[IndexOf(s)] = s
    BY <2>2, FlowIs DEF IndexOf
  <2>4. k \in 2..7
    BY <2>1, <2>3, FlowIs
  <2>5. to \in Flow /\ to # "Open" /\ (to = "PendingRM" => k = 2)
    BY <2>1, <2>4, FlowIs DEF STATUS_FLOW
  <2>6. k = 2 => s = "Open"
    BY <2>1, <2>3 DEF STATUS_FLOW
  <2> QED BY <2>5, <2>6
<1> QED BY <1>1, <1>2 DEF getAllowedNextStatuses

-----------------------------------------------------------------------------
(* Type correctness *)

LEMMA IdleType == Idle \in RequestRow /\ Idle.pc = "idle" /\ Idle.op = "none"
<1>1. (CHOOSE o \in Orders : TRUE) \in Orders
  BY OrderFlowAssumption
<1>2. "Open" \in Flow
  BY FlowIs
<1> QED BY <1>1, <1>2 DEF Idle, RequestRow

LEMMA InitType == Init => TypeInv
<1> SUFFICES ASSUME Init PROVE TypeInv
  OBVIOUS
<1>1. order \in [Orders -> OrderRow]
  BY DEF Init, NoOrder, NoBatch, OrderRow, Batch
<1>2. history \in [Orders -> Seq(Entry)] /\ seq \in Nat /\ faults \in Nat
  BY DEF Init
<1>3. PICK inFlight \in {Clients, {CHOOSE c \in Clients : TRUE}} : req = [c \in inFlight |-> Idle]
  BY DEF Init
<1>4. IsFiniteSet(inFlight)
  <2> DEFINE c == CHOOSE c \in Clients : TRUE
  <2>1. inFlight \in {Clients, {c}}
    OBVIOUS
  <2> HIDE DEF c
  <2>2. IsFiniteSet({c})
    BY FS_Singleton
  <2> QED BY <2>1, <2>2, OrderFlowAssumption
<1> QED BY <1>1, <1>2, <1>3, <1>4, IdleType DEF TypeInv, InFlight, Idles

\* A step that moves the request of c keeps the types when what it writes is
\* well-formed.
LEMMA StepType ==
  ASSUME TypeInv, NEW c \in InFlight, NEW r \in RequestRow,
         r.pc = "idle" <=> r.op = "none", r.op = "schedule" => r.plan # << >>, req' = [req EXCEPT ![c] = r],
         order' \in [Orders -> OrderRow], history' \in [Orders -> Seq(Entry)],
         seq' \in Nat, faults' \in Nat
  PROVE  TypeInv'
<1>1. InFlight' = InFlight
  BY DEF TypeInv, InFlight
<1>2. req' \in [InFlight -> RequestRow]
  BY DEF TypeInv
<1>3. \A d \in InFlight : /\ req'[d].pc = "idle" <=> req'[d].op = "none"
                          /\ req'[d].op = "schedule" => req'[d].plan # << >>
  BY DEF TypeInv, Idles
<1> QED BY <1>1, <1>2, <1>3 DEF TypeInv, Idles

LEMMA DoneType ==
  ASSUME TypeInv, NEW c \in InFlight, Done(c),
         order' \in [Orders -> OrderRow], history' \in [Orders -> Seq(Entry)],
         seq' \in Nat, faults' \in Nat
  PROVE  TypeInv'
BY StepType, IdleType DEF Done

LEMMA PlanType ==
  ASSUME NEW plan \in Plans
  PROVE  plan \in Seq(Orders)
<1>1. PICK n \in 1..Cardinality(Orders) : plan \in [1..n -> Orders]
  BY DEF Plans
<1>2. n \in Nat
  BY <1>1
<1> QED BY <1>1, <1>2

\* A change of its status leaves a row a row and its history a history.
LEMMA ChangeType ==
  ASSUME TypeInv, NEW o \in Orders, NEW seen \in Flow, NEW to \in Flow,
         ChangeStatus(o, seen, to)
  PROVE  order' \in [Orders -> OrderRow] /\ history' \in [Orders -> Seq(Entry)]
<1>1. WithStatus(order[o], to) \in OrderRow
  BY DEF TypeInv, WithStatus, OrderRow
<1>2. Changed(history[o], seen, to) \in Seq(Entry)
  <2>1. history[o] \in Seq(Entry) /\ [old |-> seen, new |-> to] \in Entry
    BY DEF TypeInv, Entry
  <2> QED BY <2>1 DEF Changed
<1> QED BY <1>1, <1>2 DEF ChangeStatus, TypeInv

LEMMA NextOrderType ==
  ASSUME TypeInv, NEW c \in InFlight, req[c].op = "schedule", NextOrder(c),
         order' \in [Orders -> OrderRow], history' \in [Orders -> Seq(Entry)],
         seq' \in Nat, faults' \in Nat
  PROVE  TypeInv'
<1> DEFINE r == [req[c] EXCEPT !.pc = "create", !.plan = Rest(c), !.created = FALSE]
<1>1. req[c] \in RequestRow /\ req[c].plan \in Seq(Orders) /\ req[c].plan # << >>
  BY DEF TypeInv, RequestRow
<1>2. Rest(c) \in Seq(Orders)
  BY <1>1 DEF Rest
<1>3. r \in RequestRow /\ r.pc = "create" /\ r.op = "schedule" /\ r.plan = Rest(c)
  BY <1>1, <1>2 DEF RequestRow
<1>4. CASE Rest(c) = << >>
  <2>1. req' = [req EXCEPT ![c] = Idle]
    BY <1>4 DEF NextOrder
  <2> QED BY <2>1, StepType, IdleType
<1>5. CASE Rest(c) # << >>
  <2>1. req' = [req EXCEPT ![c] = r]
    BY <1>5 DEF NextOrder
  <2> HIDE DEF r
  <2> QED BY <1>3, <1>5, <2>1, StepType
<1> QED BY <1>4, <1>5

\* A request begins.
LEMMA RequestType ==
  ASSUME TypeInv, NEW c \in InFlight, Request(c)
  PROVE  TypeInv'
<1> USE IdleType DEF Start
<1>1. ASSUME NEW o \in Orders, createOrder(c, o)
      PROVE  TypeInv'
  <2>1. [NoOrder EXCEPT !.status = "Open"] \in OrderRow
    BY FlowIs DEF NoOrder, NoBatch, OrderRow, Batch
  <2>2. order' \in [Orders -> OrderRow]
    BY <1>1, <2>1 DEF createOrder, TypeInv
  <2> QED BY <1>1, <2>2 DEF createOrder, TypeInv, InFlight, Idles
<1>2. ASSUME NEW o \in Orders, NEW ctb \in {"clear", "short"}, liveEvaluateOrder(c, o, ctb)
      PROVE  TypeInv'
  <2>1. [order[o] EXCEPT !.ctb = ctb] \in OrderRow
    BY DEF TypeInv, OrderRow
  <2>2. order' \in [Orders -> OrderRow]
    BY <1>2, <2>1 DEF liveEvaluateOrder, TypeInv
  <2> QED BY <1>2, <2>2 DEF liveEvaluateOrder, TypeInv, InFlight, Idles
<1>3. ASSUME NEW o \in Orders, NEW to \in Flow, statusLoad(c, o, to)
      PROVE  TypeInv'
  <2> DEFINE r == [Idle EXCEPT !.op = "status", !.pc = "loaded", !.order = o,
                               !.seen = order[o].status, !.to = to]
  <2>1. order[o].status \in Flow
    BY <1>3 DEF statusLoad, Exists, TypeInv, OrderRow
  <2>2. r \in RequestRow /\ r.pc = "loaded" /\ r.op = "status"
    BY <2>1 DEF RequestRow
  <2>3. req' = [req EXCEPT ![c] = r] /\ UNCHANGED <<order, history, seq, faults>>
    BY <1>3 DEF statusLoad
  <2> HIDE DEF r
  <2> QED BY <2>2, <2>3, StepType DEF TypeInv
<1>4. ASSUME NEW o \in Orders, NEW op \in {"delete", "unschedule", "qc"},
             Start(c, [Idle EXCEPT !.op = op, !.pc = "loaded", !.order = o]),
             UNCHANGED <<order, history, seq, faults>>
      PROVE  TypeInv'
  <2> DEFINE r == [Idle EXCEPT !.op = op, !.pc = "loaded", !.order = o]
  <2>1. r \in RequestRow /\ r.pc = "loaded" /\ r.op = op
    BY DEF RequestRow
  <2>2. req' = [req EXCEPT ![c] = r]
    BY <1>4
  <2> HIDE DEF r
  <2> QED BY <1>4, <2>1, <2>2, StepType DEF TypeInv
<1>5. ASSUME NEW plan \in Plans, gatherSchedulingInputs(c, plan)
      PROVE  TypeInv'
  <2> DEFINE r == [Idle EXCEPT !.op = "schedule", !.pc = "create", !.plan = plan]
  <2>1. plan \in Seq(Orders) /\ plan # << >>
    BY <1>5, PlanType DEF gatherSchedulingInputs
  <2>2. r \in RequestRow /\ r.pc = "create" /\ r.op = "schedule" /\ r.plan # << >>
    BY <2>1 DEF RequestRow
  <2>3. req' = [req EXCEPT ![c] = r] /\ UNCHANGED <<order, history, seq, faults>>
    BY <1>5 DEF gatherSchedulingInputs
  <2> HIDE DEF r
  <2> QED BY <2>2, <2>3, StepType DEF TypeInv
<1>6. ASSUME NEW o \in Orders, deleteLoad(c, o) \/ unscheduleLoad(c, o) \/ qcLoad(c, o)
      PROVE  TypeInv'
  BY <1>4, <1>6 DEF deleteLoad, unscheduleLoad, qcLoad
<1> QED BY <1>1, <1>2, <1>3, <1>5, <1>6 DEF Request

\* Two fields written at once are one request written.
LEMMA SetTwice ==
  ASSUME TypeInv, NEW c \in InFlight
  PROVE  /\ [req EXCEPT ![c].pc = "status", ![c].created = TRUE] =
              [req EXCEPT ![c] = [req[c] EXCEPT !.pc = "status", !.created = TRUE]]
         /\ [req EXCEPT ![c].pc = "reserved", ![c].first = seq + 1] =
              [req EXCEPT ![c] = [req[c] EXCEPT !.pc = "reserved", !.first = seq + 1]]
BY DEF TypeInv, RequestRow

LEMMA SetTwo ==
  ASSUME TypeInv, NEW o \in Orders
  PROVE  [order EXCEPT ![o].schedule = FALSE, ![o].status = "Open"] =
           [order EXCEPT ![o] = [order[o] EXCEPT !.schedule = FALSE, !.status = "Open"]]
BY DEF TypeInv, OrderRow

\* A request goes on, or ends.
LEMMA AdvanceType ==
  ASSUME TypeInv, NEW c \in InFlight, Advance(c)
  PROVE  TypeInv'
<1> DEFINE r == req[c]
<1>1. /\ r \in RequestRow /\ r.order \in Orders /\ r.seen \in Flow /\ r.to \in Flow
      /\ r.plan \in Seq(Orders) /\ r.first \in Nat
      /\ r.op = "schedule" => Head(r.plan) \in Orders
      /\ r.pc # "idle" => r.op # "none"
  BY DEF TypeInv, RequestRow, Idles
<1>2. /\ order \in [Orders -> OrderRow] /\ history \in [Orders -> Seq(Entry)]
      /\ seq \in Nat /\ faults \in Nat
  BY DEF TypeInv
<1>3. ASSUME NEW y \in RequestRow, r.op = "schedule", y.op = r.op, y.plan = r.plan, y.pc # "idle",
             req' = [req EXCEPT ![c] = y],
             order' \in [Orders -> OrderRow], UNCHANGED <<history, seq, faults>>
      PROVE  TypeInv'
  <2>1. r.plan # << >>
    BY <1>3 DEF TypeInv
  <2> QED BY <1>2, <1>3, <2>1, StepType
<1>4. CASE updateOrderStatus(c)
  BY <1>1, <1>2, <1>4, ChangeType, DoneType DEF updateOrderStatus
<1>5. CASE deleteOrder(c)
  <2>1. NoOrder \in OrderRow /\ << >> \in Seq(Entry)
    BY DEF NoOrder, NoBatch, OrderRow, Batch
  <2>2. order' \in [Orders -> OrderRow] /\ history' \in [Orders -> Seq(Entry)]
    BY <1>1, <1>2, <1>5, <2>1 DEF deleteOrder
  <2> QED BY <1>2, <1>5, <2>2, DoneType DEF deleteOrder
<1>6. CASE unscheduleOrder(c)
  <2> DEFINE o == r.order
  <2>1. [order[o] EXCEPT !.schedule = FALSE, !.status = "Open"] \in OrderRow
    BY <1>1, <1>2, FlowIs DEF OrderRow
  <2>2. Changed(history[o], "Scheduled", "Open") \in Seq(Entry)
    <3>1. history[o] \in Seq(Entry) /\ [old |-> "Scheduled", new |-> "Open"] \in Entry
      BY <1>1, <1>2, FlowIs DEF Entry
    <3> QED BY <3>1 DEF Changed
  <2>3. order' \in [Orders -> OrderRow] /\ history' \in [Orders -> Seq(Entry)]
    BY <1>1, <1>2, <1>6, <2>1, <2>2 DEF unscheduleOrder
  <2> QED BY <1>2, <1>6, <2>3, DoneType DEF unscheduleOrder
<1>7. CASE createScheduleRow(c)
  <2> DEFINE o == Head(r.plan)
  <2>1. o \in Orders /\ r.op = "schedule"
    BY <1>1, <1>7 DEF createScheduleRow, At
  <2>2. [order[o] EXCEPT !.schedule = TRUE] \in OrderRow
    BY <1>2, <2>1 DEF OrderRow
  <2>3. order' \in [Orders -> OrderRow]
    BY <1>2, <1>7, <2>1, <2>2 DEF createScheduleRow
  <2> DEFINE y == [r EXCEPT !.pc = "status", !.created = TRUE]
  <2>4. y \in RequestRow /\ y.op = r.op /\ y.plan = r.plan /\ y.pc # "idle"
    BY <1>1 DEF RequestRow
  <2>5. req' = [req EXCEPT ![c] = y]
    BY <1>7, SetTwice DEF createScheduleRow
  <2> HIDE DEF y
  <2> QED BY <1>3, <1>7, <2>1, <2>3, <2>4, <2>5 DEF createScheduleRow
<1>8. CASE createScheduleRowFails(c)
  BY <1>2, <1>8, NextOrderType DEF createScheduleRowFails, At
<1>9. CASE scheduleReadStatus(c)
  <2> DEFINE o == Head(r.plan)
  <2>1. o \in Orders /\ r.op = "schedule" /\ (Exists(o) => order[o].status \in Flow)
    BY <1>1, <1>2, <1>9 DEF scheduleReadStatus, At, Exists, OrderRow
  <2> DEFINE y == [r EXCEPT !.pc = "cleanup"]
             z == [r EXCEPT !.pc = "write", !.seen = order[o].status]
             ok == Exists(o) /\ "Scheduled" \in getAllowedNextStatuses(order[o].status)
  <2>2. y \in RequestRow /\ y.op = r.op /\ y.plan = r.plan /\ y.pc # "idle"
    BY <1>1 DEF RequestRow
  <2>3. Exists(o) => z \in RequestRow /\ z.op = r.op /\ z.plan = r.plan /\ z.pc # "idle"
    <3>1. order[o].status \in Flow => z \in RequestRow /\ z.op = r.op /\ z.plan = r.plan /\ z.pc # "idle"
      BY <1>1 DEF RequestRow
    <3> QED BY <2>1, <3>1
  <2>4. /\ req' = [req EXCEPT ![c] = IF ok THEN z ELSE y]
        /\ UNCHANGED <<order, history, seq, faults>>
    BY <1>9 DEF scheduleReadStatus
  <2>5. CASE ok
    <3>1. req' = [req EXCEPT ![c] = z]
      BY <2>4, <2>5
    <3> HIDE DEF z, y
    <3> QED BY <1>2, <1>3, <2>1, <2>3, <2>4, <2>5, <3>1
  <2>6. CASE ~ok
    <3>1. req' = [req EXCEPT ![c] = y]
      BY <2>4, <2>6
    <3> HIDE DEF z, y
    <3> QED BY <1>2, <1>3, <2>1, <2>2, <2>4, <3>1
  <2> QED BY <2>5, <2>6
<1>10. CASE scheduleWriteStatus(c)
  BY <1>1, <1>2, <1>10, FlowIs, ChangeType, NextOrderType DEF scheduleWriteStatus, At
<1>11. CASE scheduleWriteFails(c)
  <2> DEFINE y == [r EXCEPT !.pc = "cleanup"]
  <2>1. y \in RequestRow /\ y.op = r.op /\ y.plan = r.plan /\ y.pc # "idle"
    BY <1>1 DEF RequestRow
  <2>2. req' = [req EXCEPT ![c] = y] /\ r.op = "schedule"
    BY <1>11 DEF scheduleWriteFails, At
  <2> HIDE DEF y
  <2> QED BY <1>2, <1>3, <1>11, <2>1, <2>2 DEF scheduleWriteFails
<1>12. CASE scheduleCleanup(c)
  <2> DEFINE o == Head(r.plan)
  <2>1. o \in Orders /\ r.op = "schedule"
    BY <1>1, <1>12 DEF scheduleCleanup, At
  <2>2. [order[o] EXCEPT !.schedule = RowAfterFailure(c, o)] \in OrderRow
    <3>1. RowAfterFailure(c, o) \in BOOLEAN
      BY DEF RowAfterFailure
    <3> HIDE DEF o
    <3> QED BY <1>2, <2>1, <3>1 DEF OrderRow
  <2>3. order' \in [Orders -> OrderRow]
    BY <1>2, <1>12, <2>1, <2>2 DEF scheduleCleanup
  <2> QED BY <1>2, <1>12, <2>1, <2>3, NextOrderType DEF scheduleCleanup
<1>13. CASE reserveSerials(c)
  <2> DEFINE y == [r EXCEPT !.pc = "reserved", !.first = seq + 1]
  <2>1. y \in RequestRow /\ y.pc = "reserved" /\ y.op = "qc"
    <3>1. r.op = "qc" /\ seq + 1 \in Nat
      BY <1>2, <1>13 DEF reserveSerials, At
    <3> QED BY <1>1, <3>1 DEF RequestRow
  <2>2. req' = [req EXCEPT ![c] = y]
    BY <1>13, SetTwice DEF reserveSerials
  <2>3. order' \in [Orders -> OrderRow] /\ seq' \in Nat /\ UNCHANGED <<history, faults>>
    BY <1>2, <1>13 DEF reserveSerials
  <2> HIDE DEF y
  <2> QED BY <1>2, <2>1, <2>2, <2>3, StepType
<1>14. CASE moveSequence(c)
  <2> DEFINE y == [r EXCEPT !.pc = "moved"]
  <2>1. /\ y \in RequestRow /\ y.pc = "moved" /\ y.op = "qc" /\ req' = [req EXCEPT ![c] = y]
    BY <1>1, <1>14 DEF moveSequence, At, RequestRow
  <2>2. SequenceAfter(r.order, r.first) \in Nat
    BY <1>1, OrderFlowAssumption DEF SequenceAfter, LastSerial
  <2> HIDE DEF y
  <2> QED BY <1>2, <1>14, <2>1, <2>2, StepType DEF moveSequence
<1>15. CASE createBatchWithSerialRange(c)
  <2> DEFINE o == r.order
             b == [first |-> r.first, last |-> LastSerial(o, r.first)]
  <2>1. b \in Batch
    BY <1>1, OrderFlowAssumption DEF LastSerial, Batch
  <2>2. [order[o] EXCEPT !.batch = b] \in OrderRow
    BY <1>1, <1>2, <2>1 DEF OrderRow
  <2>3. order' \in [Orders -> OrderRow]
    BY <1>1, <1>2, <1>15, <2>2 DEF createBatchWithSerialRange
  <2> QED BY <1>2, <1>15, <2>3, DoneType DEF createBatchWithSerialRange
<1>16. CASE Rollback(c) \/ Crash(c)
  BY <1>2, <1>16, DoneType DEF Rollback, Crash
<1>17. CASE scheduleCleanupFails(c)
  BY <1>2, <1>17, NextOrderType DEF scheduleCleanupFails, At
<1> QED BY <1>4, <1>5, <1>6, <1>7, <1>8, <1>9, <1>10, <1>11, <1>12, <1>13, <1>14, <1>15, <1>16,
       <1>17 DEF Advance

LEMMA TypeStep ==
  ASSUME TypeInv, [Next]_vars
  PROVE  TypeInv'
<1>1. CASE UNCHANGED vars
  BY <1>1 DEF vars, TypeInv, InFlight, Idles
<1> QED BY <1>1, RequestType, AdvanceType DEF Next

-----------------------------------------------------------------------------
(* Rows, whatever runs beside each other *)

LEMMA LastChange ==
  ASSUME NEW h \in Seq(Entry), NEW seen \in Flow, NEW to \in Flow
  PROVE  /\ Changed(h, seen, to) # << >> /\ Len(Changed(h, seen, to)) = Len(h) + 1
         /\ Last(Changed(h, seen, to)).new = to
         /\ Changed(h, seen, to)[Len(h) + 1] = [old |-> seen, new |-> to]
         /\ \A k \in 1..Len(h) : Changed(h, seen, to)[k] = h[k]
<1> DEFINE e == [old |-> seen, new |-> to]
           g == Append(h, e)
<1>1. Len(g) = Len(h) + 1 /\ g[Len(h) + 1] = e /\ \A k \in 1..Len(h) : g[k] = h[k]
  OBVIOUS
<1>2. g # << >>
  BY <1>1
<1>3. e.new = to
  OBVIOUS
<1> HIDE DEF e
<1>4. Last(g) = e
  BY <1>1 DEF Last
<1> QED BY <1>1, <1>2, <1>3, <1>4 DEF Changed, e

\* The row and the history of one order are written.
LEMMA OneRow ==
  ASSUME TypeInv, RowsInv, NEW o \in Orders, NEW w, NEW h,
         order' = [order EXCEPT ![o] = w], history' = [history EXCEPT ![o] = h],
         w.status # "Absent" => w.status = IF h = << >> THEN "Open" ELSE Last(h).new,
         w.status = "Closed" => w.summary,
         w.status = "Absent" => ~w.schedule /\ h = << >>
  PROVE  RowsInv'
<1>1. /\ order'[o] = w /\ history'[o] = h
      /\ \A p \in Orders \ {o} : order'[p] = order[p] /\ history'[p] = history[p]
  BY DEF TypeInv
<1>2. HistoryEndsInStatus'
  BY <1>1 DEF RowsInv, HistoryEndsInStatus, Exists
<1>3. ClosedHasSummary'
  BY <1>1 DEF RowsInv, ClosedHasSummary
<1>4. \A p \in Orders : order'[p].status = "Absent" => ~order'[p].schedule /\ history'[p] = << >>
  BY <1>1 DEF RowsInv, Exists
<1> QED BY <1>2, <1>3, <1>4 DEF RowsInv, Exists

\* Only the row is written, and neither its status nor its summary.
LEMMA OtherField ==
  ASSUME TypeInv, RowsInv, NEW o \in Orders, NEW w,
         order' = [order EXCEPT ![o] = w], UNCHANGED history,
         w.status = order[o].status, w.summary = order[o].summary,
         w.schedule => order[o].schedule \/ Exists(o)
  PROVE  RowsInv'
<1>1. history' = [history EXCEPT ![o] = history[o]]
  BY DEF TypeInv
<1> QED BY <1>1, OneRow DEF RowsInv, HistoryEndsInStatus, ClosedHasSummary, Exists

LEMMA ChangeRows ==
  ASSUME TypeInv, RowsInv, NEW o \in Orders, NEW seen \in Flow, NEW to \in Flow,
         ChangeStatus(o, seen, to)
  PROVE  RowsInv'
<1> DEFINE w == WithStatus(order[o], to)
           h == Changed(history[o], seen, to)
<1>1. order' = [order EXCEPT ![o] = w] /\ history' = [history EXCEPT ![o] = h]
  BY DEF ChangeStatus
<1>2. w.status = to /\ to # "Absent" /\ (to = "Closed" => w.summary)
  BY FlowIs DEF TypeInv, WithStatus, OrderRow
<1>3. h # << >> /\ Last(h).new = to
  <2>1. history[o] \in Seq(Entry)
    BY DEF TypeInv
  <2> QED BY <2>1, LastChange
<1> HIDE DEF w, h
<1> QED BY <1>1, <1>2, <1>3, OneRow

LEMMA RowsStep ==
  ASSUME TypeInv, RowsInv, [Next]_vars
  PROVE  RowsInv'
<1>1. CASE UNCHANGED <<order, history>>
  BY <1>1 DEF RowsInv, HistoryEndsInStatus, ClosedHasSummary, Exists
<1>2. ASSUME NEW c \in InFlight, NEW o \in Orders, createOrder(c, o)
      PROVE  RowsInv'
  <2> DEFINE w == [NoOrder EXCEPT !.status = "Open"]
  <2>1. w.status = "Open"
    BY DEF NoOrder
  <2>2. history' = [history EXCEPT ![o] = << >>] /\ order' = [order EXCEPT ![o] = w]
    BY <1>2 DEF createOrder, RowsInv, TypeInv
  <2> HIDE DEF w
  <2> QED BY <2>1, <2>2, OneRow
<1>3. ASSUME NEW c \in InFlight, NEW o \in Orders, NEW ctb \in {"clear", "short"},
             liveEvaluateOrder(c, o, ctb)
      PROVE  RowsInv'
  <2> DEFINE w == [order[o] EXCEPT !.ctb = ctb]
  <2>1. w.status = order[o].status /\ w.summary = order[o].summary /\ w.schedule = order[o].schedule
    BY DEF TypeInv, OrderRow
  <2>2. order' = [order EXCEPT ![o] = w] /\ UNCHANGED history
    BY <1>3 DEF liveEvaluateOrder
  <2> HIDE DEF w
  <2> QED BY <2>1, <2>2, OtherField
<1>4. ASSUME NEW c \in InFlight, Advance(c)
      PROVE  RowsInv'
  <2> DEFINE r == req[c]
  <2>1. /\ r.order \in Orders /\ r.seen \in Flow /\ r.to \in Flow /\ r.first \in Nat
        /\ r.op = "schedule" => Head(r.plan) \in Orders
        /\ order \in [Orders -> OrderRow] /\ history \in [Orders -> Seq(Entry)]
    BY DEF TypeInv, RequestRow
  <2>2. CASE updateOrderStatus(c) \/ scheduleWriteStatus(c)
    BY <2>1, <2>2, ChangeRows, FlowIs DEF updateOrderStatus, scheduleWriteStatus, At
  <2>3. CASE deleteOrder(c)
    <3>1. NoOrder.status = "Absent" /\ ~NoOrder.schedule
      BY DEF NoOrder
    <3> QED BY <2>1, <2>3, <3>1, OneRow DEF deleteOrder
  <2>4. CASE unscheduleOrder(c)
    <3> DEFINE o == r.order
               w == [order[o] EXCEPT !.schedule = FALSE, !.status = "Open"]
               h == Changed(history[o], "Scheduled", "Open")
    <3>1. w.status = "Open"
      BY <2>1 DEF OrderRow
    <3>2. h # << >> /\ Last(h).new = "Open"
      <4>1. history[o] \in Seq(Entry) /\ "Open" \in Flow /\ "Scheduled" \in Flow
        BY <2>1, FlowIs
      <4> QED BY <4>1, LastChange
    <3>3. order' = [order EXCEPT ![o] = w] /\ history' = [history EXCEPT ![o] = h]
      BY <2>1, <2>4, SetTwo DEF unscheduleOrder
    <3> HIDE DEF w, h
    <3> QED BY <2>1, <3>1, <3>2, <3>3, OneRow
  <2>5. CASE createScheduleRow(c)
    <3> DEFINE o == Head(r.plan)
               w == [order[o] EXCEPT !.schedule = TRUE]
    <3>1. o \in Orders /\ Exists(o) /\ order' = [order EXCEPT ![o] = w] /\ UNCHANGED history
      BY <2>1, <2>5 DEF createScheduleRow, At
    <3>2. w.status = order[o].status /\ w.summary = order[o].summary
      BY <2>1, <3>1 DEF OrderRow
    <3> HIDE DEF w, o
    <3> QED BY <3>1, <3>2, OtherField
  <2>6. CASE scheduleCleanup(c)
    <3> DEFINE o == Head(r.plan)
               w == [order[o] EXCEPT !.schedule = RowAfterFailure(c, o)]
    <3>1. o \in Orders /\ order' = [order EXCEPT ![o] = w] /\ UNCHANGED history
      BY <2>1, <2>6 DEF scheduleCleanup, At
    <3>2. /\ w.status = order[o].status /\ w.summary = order[o].summary
          /\ w.schedule = RowAfterFailure(c, o)
      BY <2>1, <3>1 DEF OrderRow
    <3>3. w.schedule => order[o].schedule
      BY <3>2 DEF RowAfterFailure
    <3> HIDE DEF w, o
    <3> QED BY <3>1, <3>2, <3>3, OtherField
  <2>7. CASE createBatchWithSerialRange(c)
    <3> DEFINE o == r.order
               w == [order[o] EXCEPT !.batch = [first |-> r.first, last |-> LastSerial(o, r.first)]]
    <3>1. order' = [order EXCEPT ![o] = w] /\ UNCHANGED history
      BY <2>7 DEF createBatchWithSerialRange
    <3>2. /\ w.status = order[o].status /\ w.summary = order[o].summary
          /\ w.schedule = order[o].schedule
      BY <2>1 DEF OrderRow
    <3> HIDE DEF w
    <3> QED BY <2>1, <3>1, <3>2, OtherField
  <2>8. CASE UNCHANGED <<order, history>>
    BY <1>1, <2>8
  <2> QED BY <1>4, <2>2, <2>3, <2>4, <2>5, <2>6, <2>7, <2>8
         DEF Advance, createScheduleRowFails, scheduleReadStatus, scheduleWriteFails,
             scheduleCleanupFails, reserveSerials, moveSequence, Rollback, Crash
<1>5. ASSUME NEW c \in InFlight, Request(c)
      PROVE  RowsInv'
  BY <1>1, <1>2, <1>3, <1>5 DEF Request, deleteLoad, unscheduleLoad, qcLoad, statusLoad,
     gatherSchedulingInputs
<1> QED BY <1>1, <1>4, <1>5 DEF Next, vars

-----------------------------------------------------------------------------
(* One request at a time *)

LEMMA Lone ==
  ASSUME TypeInv, Alone, NEW c \in InFlight
  PROVE  \A d \in InFlight : d = c
<1>1. PICK x : InFlight = {x}
  BY FS_Singleton DEF TypeInv, Alone
<1> QED BY <1>1

\* Nobody joins and nobody leaves.
LEMMA SameClients ==
  ASSUME TypeInv, [Next]_vars
  PROVE  InFlight' = InFlight /\ (Alone' <=> Alone)
<1>1. \A c \in InFlight : Request(c) => InFlight' = InFlight
  BY DEF Request, createOrder, liveEvaluateOrder, statusLoad, deleteLoad, unscheduleLoad,
     qcLoad, gatherSchedulingInputs, Start, InFlight
<1>2. \A c \in InFlight : Advance(c) => InFlight' = InFlight
  BY DEF Advance, updateOrderStatus, deleteOrder, unscheduleOrder, createScheduleRow,
     createScheduleRowFails, scheduleReadStatus, scheduleWriteStatus, scheduleWriteFails,
     scheduleCleanup, scheduleCleanupFails, reserveSerials, moveSequence,
     createBatchWithSerialRange, Rollback, Crash, Done, NextOrder, InFlight
<1>3. InFlight' = InFlight
  BY <1>1, <1>2 DEF Next, vars, InFlight
<1> QED BY <1>3 DEF Alone

\* Idle knows nothing.
LEMMA IdleKnows ==
  ASSUME TypeInv, NEW c \in InFlight, Done(c) \/ req'[c].op \in {"none", "delete", "qc"}
  PROVE  Knows(req[c])'
<1>1. req'[c].op \in {"none", "delete", "qc"}
  BY IdleType DEF Done, TypeInv
<1> QED BY <1>1 DEF Knows

LEMMA NextKnows ==
  ASSUME TypeInv, NEW c \in InFlight, req[c].op = "schedule", RunKnows(req[c]), NextOrder(c),
         \A p \in Orders \ {Head(req[c].plan)} : order'[p].schedule = order[p].schedule
  PROVE  Knows(req[c])'
<1> DEFINE r == req[c]
           n == Len(r.plan)
<1>1. r \in RequestRow /\ r.plan \in Seq(Orders) /\ r.plan # << >>
  BY DEF TypeInv, RequestRow
<1>2. /\ n \in Nat \ {0} /\ DOMAIN r.plan = 1..n /\ Head(r.plan) = r.plan[1]
      /\ Rest(c) \in Seq(Orders) /\ Len(Rest(c)) = n - 1 /\ DOMAIN Rest(c) = 1..(n - 1)
      /\ \A k \in 1..(n - 1) : Rest(c)[k] = r.plan[k + 1]
  BY <1>1 DEF Rest
<1>3. CASE Rest(c) = << >>
  <2>1. req'[c].op = "none"
    BY <1>3, IdleType DEF NextOrder, TypeInv
  <2> QED BY <2>1, IdleKnows
<1>4. CASE Rest(c) # << >>
  <2>1. /\ req'[c].op = "schedule" /\ req'[c].pc = "create" /\ req'[c].plan = Rest(c)
    BY <1>1, <1>4 DEF NextOrder, TypeInv, RequestRow
  <2>2. ASSUME NEW j \in 1..(n - 1), NEW k \in 1..(n - 1), Rest(c)[j] = Rest(c)[k]
        PROVE  j = k
    <3>1. j + 1 \in 1..n /\ k + 1 \in 1..n /\ r.plan[j + 1] = r.plan[k + 1]
      BY <1>2, <2>2
    <3>2. j + 1 = k + 1
      BY <1>2, <3>1 DEF RunKnows
    <3> QED BY <3>2
  <2>3. \A k \in 1..(n - 1) : ~order'[Rest(c)[k]].schedule
    <3> TAKE k \in 1..(n - 1)
    <3>1. k + 1 \in 1..n /\ k + 1 > 1 /\ k + 1 # 1
      BY <1>2
    <3>2. Rest(c)[k] \in Orders \ {Head(r.plan)} /\ ~order[r.plan[k + 1]].schedule
      BY <1>1, <1>2, <3>1 DEF RunKnows
    <3> QED BY <1>2, <3>2
  <2>4. RunKnows(req[c])'
    BY <1>2, <2>1, <2>2, <2>3 DEF RunKnows
  <2> QED BY <2>1, <2>4 DEF Knows
<1> QED BY <1>3, <1>4

LEMMA RequestKnows ==
  ASSUME TypeInv, NEW c \in InFlight, Request(c)
  PROVE  Knows(req[c])'
<1>1. ASSUME NEW o \in Orders,
             createOrder(c, o) \/ \E ctb \in {"clear", "short"} : liveEvaluateOrder(c, o, ctb)
      PROVE  Knows(req[c])'
  BY <1>1, IdleKnows DEF createOrder, liveEvaluateOrder, TypeInv
<1>2. ASSUME NEW o \in Orders, deleteLoad(c, o) \/ qcLoad(c, o)
      PROVE  Knows(req[c])'
  BY <1>2, IdleType, IdleKnows DEF deleteLoad, qcLoad, Start, TypeInv, RequestRow
<1>3. ASSUME NEW o \in Orders, unscheduleLoad(c, o)
      PROVE  Knows(req[c])'
  <2>1. req'[c].op = "unschedule" /\ req'[c].order = o
    BY <1>3, IdleType DEF unscheduleLoad, Start, TypeInv, RequestRow
  <2> QED BY <1>3, <2>1 DEF unscheduleLoad, Knows, MayUnschedule
<1>4. ASSUME NEW o \in Orders, NEW to \in Flow, statusLoad(c, o, to)
      PROVE  Knows(req[c])'
  <2>1. /\ req'[c].op = "status" /\ req'[c].order = o
        /\ req'[c].seen = order[o].status /\ req'[c].to = to
    BY <1>4, IdleType DEF statusLoad, Start, TypeInv, RequestRow
  <2> QED BY <1>4, <2>1 DEF statusLoad, Knows, Exists, getAllowedNextStatuses, LinearNext
<1>5. ASSUME NEW plan \in Plans, gatherSchedulingInputs(c, plan)
      PROVE  Knows(req[c])'
  <2>1. /\ req'[c].op = "schedule" /\ req'[c].pc = "create" /\ req'[c].plan = plan
        /\ order' = order
    BY <1>5, IdleType DEF gatherSchedulingInputs, Start, TypeInv, RequestRow
  <2>2. \A j, k \in DOMAIN plan : plan[j] = plan[k] => j = k
    BY DEF Plans
  <2>3. \A k \in DOMAIN plan : ~order[plan[k]].schedule
    BY <1>5 DEF gatherSchedulingInputs, Eligible
  <2>4. RunKnows(req[c])'
    BY <2>1, <2>2, <2>3 DEF RunKnows
  <2> QED BY <2>1, <2>4 DEF Knows
<1> QED BY <1>1, <1>2, <1>3, <1>4, <1>5 DEF Request

LEMMA AdvanceKnows ==
  ASSUME TypeInv, RowsInv, NEW c \in InFlight, Knows(req[c]), Advance(c)
  PROVE  Knows(req[c])'
<1> DEFINE r == req[c]
           o == Head(r.plan)
<1>1. /\ r \in RequestRow /\ r.plan \in Seq(Orders) /\ order \in [Orders -> OrderRow]
      /\ r.op = "schedule" => o \in Orders /\ o = r.plan[1] /\ r.plan # << >>
      /\ DOMAIN r.plan = 1..Len(r.plan) /\ Len(r.plan) \in Nat
  BY DEF TypeInv, RequestRow
<1>2. r.op = "schedule" => RunKnows(r)
  BY DEF Knows
<1>3. CASE updateOrderStatus(c) \/ deleteOrder(c) \/ unscheduleOrder(c)
           \/ createBatchWithSerialRange(c) \/ Rollback(c) \/ Crash(c)
  BY <1>3, IdleKnows DEF updateOrderStatus, deleteOrder, unscheduleOrder,
     createBatchWithSerialRange, Rollback, Crash
<1>4. CASE createScheduleRow(c)
  <2>1. /\ r.op = "schedule" /\ r.pc = "create" /\ req'[c].op = "schedule"
        /\ req'[c].pc = "status" /\ req'[c].plan = r.plan /\ req'[c].created
    BY <1>1, <1>4 DEF createScheduleRow, At, TypeInv, RequestRow
  <2>2. \A p \in Orders \ {o} : order'[p] = order[p]
    BY <1>1, <1>4 DEF createScheduleRow
  <2>3. \A k \in DOMAIN r.plan : k > 1 => r.plan[k] \in Orders \ {o} /\ ~order[r.plan[k]].schedule
    <3> TAKE k \in DOMAIN r.plan
    <3> HAVE k > 1
    <3>1. 1 \in DOMAIN r.plan /\ k # 1
      BY <1>1
    <3> QED BY <1>1, <1>2, <2>1, <3>1 DEF RunKnows
  <2>4. RunKnows(req[c])'
    BY <1>1, <1>2, <2>1, <2>2, <2>3 DEF RunKnows
  <2> QED BY <2>1, <2>4 DEF Knows
<1>5. CASE createScheduleRowFails(c)
  BY <1>2, <1>5, NextKnows DEF createScheduleRowFails, At
<1>6. CASE scheduleReadStatus(c)
  <2>1. /\ r.op = "schedule" /\ r.pc = "status" /\ order' = order
        /\ req'[c].op = "schedule" /\ req'[c].plan = r.plan /\ req'[c].created = r.created
        /\ \/ req'[c].pc = "cleanup"
           \/ req'[c].pc = "write" /\ req'[c].seen = order[o].status
    BY <1>1, <1>6 DEF scheduleReadStatus, At, TypeInv, RequestRow
  <2>2. RunKnows(req[c])'
    BY <1>1, <1>2, <2>1 DEF RunKnows
  <2> QED BY <2>1, <2>2 DEF Knows
<1>7. CASE scheduleWriteStatus(c)
  <2>1. r.op = "schedule" /\ o \in Orders /\ NextOrder(c)
    BY <1>1, <1>7 DEF scheduleWriteStatus, At
  <2>2. \A p \in Orders \ {o} : order'[p] = order[p]
    BY <1>1, <1>7 DEF scheduleWriteStatus, ChangeStatus
  <2> QED BY <1>2, <2>1, <2>2, NextKnows
<1>8. CASE scheduleWriteFails(c)
  <2>1. /\ r.op = "schedule" /\ r.pc = "write" /\ order' = order
        /\ req'[c].op = "schedule" /\ req'[c].plan = r.plan /\ req'[c].created = r.created
        /\ req'[c].pc = "cleanup"
    BY <1>1, <1>8 DEF scheduleWriteFails, At, TypeInv, RequestRow
  <2>2. RunKnows(req[c])'
    BY <1>1, <1>2, <2>1 DEF RunKnows
  <2> QED BY <2>1, <2>2 DEF Knows
<1>9. CASE scheduleCleanup(c)
  <2>1. r.op = "schedule" /\ o \in Orders /\ NextOrder(c)
    BY <1>1, <1>9 DEF scheduleCleanup, At
  <2>2. \A p \in Orders \ {o} : order'[p] = order[p]
    BY <1>1, <1>9 DEF scheduleCleanup
  <2> QED BY <1>2, <2>1, <2>2, NextKnows
<1>10. CASE scheduleCleanupFails(c)
  <2>1. r.op = "schedule" /\ NextOrder(c) /\ order' = order
    BY <1>10 DEF scheduleCleanupFails, At
  <2> QED BY <1>2, <2>1, NextKnows
<1>11. CASE reserveSerials(c) \/ moveSequence(c)
  <2>1. req'[c].op = "qc"
    BY <1>1, <1>11 DEF reserveSerials, moveSequence, At, TypeInv, RequestRow
  <2> QED BY <2>1, IdleKnows
<1> QED BY <1>3, <1>4, <1>5, <1>6, <1>7, <1>8, <1>9, <1>10, <1>11 DEF Advance

LEMMA KnowsStep ==
  ASSUME TypeInv, RowsInv, AloneKnows, [Next]_vars
  PROVE  AloneKnows'
<1>1. InFlight' = InFlight /\ (Alone' <=> Alone)
  BY SameClients
<1>2. CASE UNCHANGED vars
  BY <1>1, <1>2 DEF vars, AloneKnows, Knows, RunKnows, Exists, MayUnschedule
<1>3. ASSUME NEW c \in InFlight, Alone, Request(c) \/ Advance(c)
      PROVE  AloneKnows'
  <2>1. Knows(req[c])
    BY <1>3 DEF AloneKnows
  <2>2. Knows(req[c])'
    BY <1>3, <2>1, RequestKnows, AdvanceKnows
  <2>3. \A d \in InFlight : d = c
    BY <1>3, Lone
  <2> QED BY <1>1, <2>2, <2>3 DEF AloneKnows
<1> QED BY <1>1, <1>2, <1>3 DEF Next, AloneKnows

-----------------------------------------------------------------------------
(* Histories *)

LEMMA ChangedNoGap ==
  ASSUME NEW h \in Seq(Entry), NEW seen \in Flow, NEW to \in Flow, NoGap(h),
         seen = IF h = << >> THEN "Open" ELSE Last(h).new
  PROVE  NoGap(Changed(h, seen, to))
<1> DEFINE g == Changed(h, seen, to)
           n == Len(h)
<1>1. /\ n \in Nat /\ Len(g) = n + 1 /\ g[n + 1] = [old |-> seen, new |-> to]
      /\ \A k \in 1..n : g[k] = h[k]
  BY LastChange
<1>2. g[n + 1].old = seen
  BY <1>1
<1> HIDE DEF g
<1>3. CASE n = 0
  <2>1. h = << >>
    BY <1>3
  <2> QED BY <1>1, <1>2, <1>3, <2>1 DEF NoGap, g
<1>4. CASE n # 0
  <2>1. h # << >> /\ seen = h[n].new
    BY <1>1, <1>4 DEF Last
  <2>2. g[1].old = "Open"
    BY <1>1, <1>4, <2>1 DEF NoGap
  <2>3. ASSUME NEW k \in 1..n PROVE g[k + 1].old = g[k].new
    <3>1. CASE k = n
      BY <1>1, <1>2, <2>1, <3>1
    <3>2. CASE k # n
      <4>1. k \in 1..(n - 1) /\ k + 1 \in 1..n
        BY <1>1, <3>2
      <4> QED BY <1>1, <4>1 DEF NoGap
    <3> QED BY <3>1, <3>2
  <2> QED BY <1>1, <2>2, <2>3 DEF NoGap, g
<1> QED BY <1>3, <1>4

\* What an undisturbed request read is still the status it changes.
LEMMA ChangeNoGap ==
  ASSUME TypeInv, RowsInv, NEW o \in Orders, NEW to \in Flow,
         Exists(o), NoGap(history[o]),
         history' = [history EXCEPT ![o] = Changed(@, order[o].status, to)]
  PROVE  NoGap(history'[o]) /\ \A p \in Orders \ {o} : history'[p] = history[p]
<1>1. history[o] \in Seq(Entry) /\ order[o].status \in Flow
  BY DEF TypeInv, Exists, OrderRow
<1>2. order[o].status = IF history[o] = << >> THEN "Open" ELSE Last(history[o]).new
  BY DEF RowsInv, HistoryEndsInStatus
<1>3. NoGap(Changed(history[o], order[o].status, to))
  BY <1>1, <1>2, ChangedNoGap
<1> QED BY <1>3 DEF TypeInv

LEMMA HistoriesStep ==
  ASSUME TypeInv, RowsInv, AloneKnows, HistoriesInv, [Next]_vars
  PROVE  HistoriesInv'
<1> SUFFICES ASSUME Alone, NEW o \in Orders PROVE NoGap(history'[o])
  BY SameClients DEF HistoriesInv, NoGap
<1>1. NoGap(history[o]) /\ \A p \in Orders : NoGap(history[p])
  BY DEF HistoriesInv
<1>2. CASE UNCHANGED history
  BY <1>1, <1>2
<1>3. ASSUME NEW c \in InFlight, Advance(c)
      PROVE  NoGap(history'[o])
  <2> DEFINE r == req[c]
  <2>1. /\ r.order \in Orders /\ r.to \in Flow /\ history \in [Orders -> Seq(Entry)]
        /\ r.op = "schedule" => Head(r.plan) \in Orders
    BY DEF TypeInv, RequestRow
  <2>2. Knows(r)
    BY DEF AloneKnows
  <2>3. CASE updateOrderStatus(c)
    <3>1. Exists(r.order) /\ r.seen = order[r.order].status
      BY <2>2, <2>3 DEF updateOrderStatus, At, Knows
    <3>2. history' = [history EXCEPT ![r.order] = Changed(@, order[r.order].status, r.to)]
      BY <2>3, <3>1 DEF updateOrderStatus, ChangeStatus
    <3> QED BY <1>1, <2>1, <3>1, <3>2, ChangeNoGap
  <2>4. CASE scheduleWriteStatus(c)
    <3> DEFINE q == Head(r.plan)
    <3>1. Exists(q) /\ r.seen = order[q].status /\ q \in Orders
      BY <2>1, <2>2, <2>4 DEF scheduleWriteStatus, ChangeStatus, At, Knows, RunKnows
    <3>2. history' = [history EXCEPT ![q] = Changed(@, order[q].status, "Scheduled")]
      BY <2>4, <3>1 DEF scheduleWriteStatus, ChangeStatus
    <3> HIDE DEF q
    <3> QED BY <1>1, <3>1, <3>2, ChangeNoGap, FlowIs
  <2>5. CASE unscheduleOrder(c)
    <3>1. order[r.order].status = "Scheduled"
      BY <2>2, <2>5 DEF unscheduleOrder, At, Knows, MayUnschedule
    <3>2. Exists(r.order)
      BY <3>1 DEF Exists
    <3>3. history' = [history EXCEPT ![r.order] = Changed(@, order[r.order].status, "Open")]
      BY <2>5, <3>1 DEF unscheduleOrder
    <3> QED BY <1>1, <2>1, <3>2, <3>3, ChangeNoGap, FlowIs
  <2>6. CASE deleteOrder(c)
    <3>1. history'[o] = << >> \/ history'[o] = history[o]
      BY <2>1, <2>6 DEF deleteOrder
    <3>2. NoGap(<< >>)
      BY DEF NoGap
    <3> QED BY <1>1, <3>1, <3>2
  <2>7. CASE UNCHANGED history
    BY <1>2, <2>7
  <2> QED BY <1>3, <2>3, <2>4, <2>5, <2>6, <2>7
         DEF Advance, createScheduleRow, createScheduleRowFails, scheduleReadStatus,
             scheduleWriteFails, scheduleCleanup, scheduleCleanupFails, reserveSerials,
             moveSequence, createBatchWithSerialRange, Rollback, Crash
<1>4. ASSUME NEW c \in InFlight, Request(c)
      PROVE  UNCHANGED history
  BY <1>4 DEF Request, createOrder, liveEvaluateOrder, deleteLoad, unscheduleLoad, qcLoad,
     statusLoad, gatherSchedulingInputs
<1> QED BY <1>2, <1>3, <1>4 DEF Next, vars

-----------------------------------------------------------------------------
(* Rows of the schedule *)

Waits(o) == order[o].status \in {"Open", "PendingRM"} /\ order[o].schedule

\* The order request r works on, if it is a run.
Works(r, o) == r.op = "schedule" /\ o = Head(r.plan)

OrphansInv == Alone => IsFiniteSet(Orphans) /\ Cardinality(Orphans) <= faults

\* Who alone can work on an order.
LEMMA OrphansAre ==
  ASSUME TypeInv, Alone, NEW c \in InFlight
  PROVE  Orphans = {o \in Orders : Waits(o) /\ ~Works(req[c], o)}
BY Lone DEF Orphans, Waits, Works, InRun, Runs

LEMMA RequestOrphans ==
  ASSUME TypeInv, RowsInv, NEW c \in InFlight, Request(c), NEW p \in Orders, Waits(p)'
  PROVE  Waits(p) /\ req[c].op = "none"
<1>1. req[c].op = "none"
  BY DEF TypeInv, Request, createOrder, liveEvaluateOrder, deleteLoad, unscheduleLoad, qcLoad,
     statusLoad, gatherSchedulingInputs, Start
<1>2. ASSUME NEW o \in Orders, createOrder(c, o)
      PROVE  Waits(p)
  <2>1. order'[o] = [NoOrder EXCEPT !.status = "Open"] /\ \A x \in Orders \ {o} : order'[x] = order[x]
    BY <1>2 DEF createOrder, TypeInv
  <2>2. ~order'[o].schedule
    BY <2>1 DEF NoOrder
  <2> QED BY <2>1, <2>2 DEF Waits
<1>3. ASSUME NEW o \in Orders, NEW ctb \in {"clear", "short"}, liveEvaluateOrder(c, o, ctb)
      PROVE  Waits(p)
  <2>1. order'[o] = [order[o] EXCEPT !.ctb = ctb] /\ \A x \in Orders \ {o} : order'[x] = order[x]
    BY <1>3 DEF liveEvaluateOrder, TypeInv
  <2>2. order'[o].status = order[o].status /\ order'[o].schedule = order[o].schedule
    BY <2>1 DEF TypeInv, OrderRow
  <2> QED BY <2>1, <2>2 DEF Waits
<1>4. CASE UNCHANGED order
  BY <1>1, <1>4 DEF Waits
<1>5. \/ \E o \in Orders : createOrder(c, o)
      \/ \E o \in Orders, ctb \in {"clear", "short"} : liveEvaluateOrder(c, o, ctb)
      \/ UNCHANGED order
  BY DEF Request, deleteLoad, unscheduleLoad, qcLoad, statusLoad, gatherSchedulingInputs
<1>6. Waits(p)
  BY <1>2, <1>3, <1>4, <1>5
<1> QED BY <1>1, <1>6

\* A row that waits and that nobody works on after a step was one before, unless
\* the step is a fault and the row of the order the run was at.
LEMMA AdvanceOrphans ==
  ASSUME TypeInv, RowsInv, NEW c \in InFlight, Knows(req[c]), Advance(c),
         NEW p \in Orders, Waits(p)', ~Works(req'[c], p)
  PROVE  \/ Waits(p) /\ ~Works(req[c], p)
         \/ Works(req[c], p) /\ faults' = faults + 1
<1> DEFINE r == req[c]
           o == Head(r.plan)
<1>1. /\ r \in RequestRow /\ r.order \in Orders /\ order \in [Orders -> OrderRow]
      /\ r.op = "schedule" => o \in Orders /\ o = r.plan[1] /\ 1 \in DOMAIN r.plan /\ RunKnows(r)
  BY DEF TypeInv, RequestRow, Knows
<1>2. ASSUME Waits(p), r.op # "schedule" \/ p # o
      PROVE  Waits(p) /\ ~Works(r, p)
  BY <1>2 DEF Works
<1>3. ASSUME r.op # "schedule", order'[p].status = order[p].status,
             order'[p].schedule = order[p].schedule
      PROVE  Waits(p) /\ ~Works(r, p)
  BY <1>3 DEF Waits, Works
<1>4. CASE updateOrderStatus(c)
  <2> DEFINE q == r.order
             w == WithStatus(order[q], r.to)
  <2>1. /\ r.op = "status" /\ order[q].status \in Flow
        /\ r.to \in getAllowedNextStatuses(order[q].status)
    BY <1>1, <1>4 DEF updateOrderStatus, At, Knows, Exists, OrderRow
  <2>2. order'[q] = w /\ \A x \in Orders \ {q} : order'[x] = order[x]
    BY <1>1, <1>4 DEF updateOrderStatus, ChangeStatus
  <2>3. w.status = r.to /\ w.schedule = order[q].schedule
    BY <1>1 DEF WithStatus, OrderRow
  <2>4. CASE p # q
    BY <1>3, <2>1, <2>2, <2>4
  <2>5. CASE p = q
    <3>1. r.to = "PendingRM" /\ order[q].status = "Open"
      BY <2>1, <2>2, <2>3, <2>5, NextStatus DEF Waits
    <3>2. Waits(p)
      BY <2>2, <2>3, <2>5, <3>1 DEF Waits
    <3> QED BY <1>2, <2>1, <3>2
  <2> QED BY <2>4, <2>5
<1>5. CASE deleteOrder(c)
  <2>1. /\ r.op = "delete" /\ order'[r.order] = NoOrder
        /\ \A x \in Orders \ {r.order} : order'[x] = order[x]
    BY <1>1, <1>5 DEF deleteOrder, At
  <2>2. ~NoOrder.schedule
    BY DEF NoOrder
  <2> QED BY <1>3, <2>1, <2>2 DEF Waits
<1>6. CASE unscheduleOrder(c)
  <2>1. /\ r.op = "unschedule" /\ ~order'[r.order].schedule
        /\ \A x \in Orders \ {r.order} : order'[x] = order[x]
    BY <1>1, <1>6 DEF unscheduleOrder, At, OrderRow
  <2> QED BY <1>3, <2>1 DEF Waits
<1>7. CASE createScheduleRow(c)
  <2>1. /\ r.op = "schedule" /\ \A x \in Orders \ {o} : order'[x] = order[x]
        /\ req'[c].op = "schedule" /\ req'[c].plan = r.plan
    BY <1>1, <1>7 DEF createScheduleRow, At, TypeInv, RequestRow
  <2>2. p # o
    BY <2>1 DEF Works
  <2> QED BY <1>2, <2>1, <2>2 DEF Waits
<1>8. CASE createScheduleRowFails(c)
  <2>1. r.op = "schedule" /\ r.pc = "create" /\ order' = order
    BY <1>8 DEF createScheduleRowFails, At
  <2>2. ~order[o].schedule
    BY <1>1, <2>1 DEF RunKnows
  <2> QED BY <1>2, <2>1, <2>2 DEF Waits
<1>9. CASE scheduleReadStatus(c) \/ scheduleWriteFails(c)
  <2>1. /\ r.op = "schedule" /\ order' = order
        /\ req'[c].op = "schedule" /\ req'[c].plan = r.plan
    <3>1. CASE scheduleReadStatus(c)
      BY <1>1, <3>1 DEF scheduleReadStatus, At, TypeInv, RequestRow
    <3>2. CASE scheduleWriteFails(c)
      BY <1>1, <3>2 DEF scheduleWriteFails, At, TypeInv, RequestRow
    <3> QED BY <1>9, <3>1, <3>2
  <2> QED BY <1>2, <2>1 DEF Waits, Works
<1>10. CASE scheduleWriteStatus(c)
  <2>1. /\ r.op = "schedule" /\ order'[o].status = "Scheduled"
        /\ \A x \in Orders \ {o} : order'[x] = order[x]
    BY <1>1, <1>10 DEF scheduleWriteStatus, ChangeStatus, WithStatus, At, OrderRow
  <2> QED BY <1>2, <2>1 DEF Waits
<1>11. CASE scheduleCleanup(c)
  <2>1. r.op = "schedule" /\ r.pc = "cleanup" /\ r.created
    BY <1>1, <1>11 DEF scheduleCleanup, At, RunKnows
  <2>2. order'[o].schedule = RowAfterFailure(c, o) /\ \A x \in Orders \ {o} : order'[x] = order[x]
    BY <1>1, <1>11, <2>1 DEF scheduleCleanup, OrderRow
  <2>3. ~RowAfterFailure(c, o)
    BY <2>1 DEF RowAfterFailure
  <2> QED BY <1>2, <2>2, <2>3 DEF Waits
<1>12. CASE reserveSerials(c) \/ moveSequence(c) \/ Rollback(c)
  <2>1. r.op # "schedule" /\ order' = order
    BY <1>12 DEF reserveSerials, moveSequence, Rollback, At
  <2> QED BY <1>3, <2>1
<1>13. CASE createBatchWithSerialRange(c)
  <2>1. /\ r.op = "qc" /\ \A x \in Orders \ {r.order} : order'[x] = order[x]
        /\ order'[r.order].status = order[r.order].status
        /\ order'[r.order].schedule = order[r.order].schedule
    BY <1>1, <1>13 DEF createBatchWithSerialRange, At, OrderRow
  <2> QED BY <1>3, <2>1
<1>14. CASE Crash(c) \/ scheduleCleanupFails(c)
  <2>1. r.op = "schedule" /\ order' = order /\ faults' = faults + 1
    BY <1>14 DEF Crash, scheduleCleanupFails, At
  <2> QED BY <2>1 DEF Waits, Works
<1> QED BY <1>4, <1>5, <1>6, <1>7, <1>8, <1>9, <1>10, <1>11, <1>12, <1>13, <1>14 DEF Advance

\* Faults are only counted up.
LEMMA FaultsKept ==
  ASSUME TypeInv, NEW c \in InFlight, Request(c) \/ Advance(c)
  PROVE  faults \in Nat /\ faults' \in {faults, faults + 1}
<1>1. Request(c) => faults' = faults
  BY DEF Request, createOrder, liveEvaluateOrder, deleteLoad, unscheduleLoad, qcLoad, statusLoad,
     gatherSchedulingInputs
<1>2. Advance(c) => faults' \in {faults, faults + 1}
  BY DEF Advance, updateOrderStatus, deleteOrder, unscheduleOrder, createScheduleRow,
     createScheduleRowFails, scheduleReadStatus, scheduleWriteStatus, scheduleWriteFails,
     scheduleCleanup, scheduleCleanupFails, reserveSerials, moveSequence,
     createBatchWithSerialRange, Rollback, Crash
<1> QED BY <1>1, <1>2 DEF TypeInv

LEMMA OrphanStep ==
  ASSUME TypeInv, TypeInv', RowsInv, AloneKnows, OrphansInv, [Next]_vars
  PROVE  OrphansInv'
<1>1. InFlight' = InFlight /\ (Alone' <=> Alone)
  BY SameClients
<1>2. CASE UNCHANGED vars
  BY <1>1, <1>2 DEF vars, OrphansInv, Orphans, InRun, Runs
<1>3. ASSUME Alone, NEW c \in InFlight, Request(c) \/ Advance(c)
      PROVE  IsFiniteSet(Orphans') /\ Cardinality(Orphans') <= faults'
  <2> DEFINE r == req[c]
             o == Head(r.plan)
             before == Orphans
             after == Orphans'
  <2>1. /\ before = {p \in Orders : Waits(p) /\ ~Works(r, p)}
        /\ after = {p \in Orders : Waits(p)' /\ ~Works(req'[c], p)}
    <3>1. \A d \in InFlight' : d = c
      BY <1>1, <1>3, Lone
    <3>2. Orphans' = {p \in Orders : Waits(p)' /\ ~Works(req'[c], p)}
      BY <1>1, <3>1 DEF Orphans, Waits, Works, InRun, Runs
    <3> QED BY <1>3, <3>2, OrphansAre
  <2>2. /\ IsFiniteSet(before) /\ Cardinality(before) \in Nat /\ Cardinality(before) <= faults
        /\ faults \in Nat /\ faults' \in {faults, faults + 1}
    BY <1>3, FaultsKept, FS_CardinalityType DEF OrphansInv
  <2>3. ASSUME NEW p \in after
        PROVE  p \in before \/ (p = o /\ faults' = faults + 1)
    <3>1. CASE Request(c)
      BY <1>3, <2>1, <2>3, <3>1, RequestOrphans DEF Works
    <3>2. CASE Advance(c)
      BY <1>3, <2>1, <2>3, <3>2, AdvanceOrphans DEF AloneKnows, Works
    <3> QED BY <1>3, <3>1, <3>2
  <2>4. CASE faults' = faults
    <3>1. after \subseteq before
      BY <2>2, <2>3, <2>4
    <3> HIDE DEF before, after
    <3>2. IsFiniteSet(after) /\ Cardinality(after) \in Nat /\ Cardinality(after) <= Cardinality(before)
      BY <2>2, <3>1, FS_Subset, FS_CardinalityType
    <3>3. IsFiniteSet(after) /\ Cardinality(after) <= faults'
      BY <2>2, <2>4, <3>2
    <3> QED BY <3>3 DEF after
  <2>5. CASE faults' = faults + 1
    <3>1. after \subseteq before \cup {o}
      BY <2>3
    <3> HIDE DEF before, after, o
    <3>2. /\ IsFiniteSet(before \cup {o})
          /\ Cardinality(before \cup {o}) \in {Cardinality(before), Cardinality(before) + 1}
      BY <2>2, FS_AddElement
    <3>3. /\ IsFiniteSet(after) /\ Cardinality(after) \in Nat
          /\ Cardinality(after) <= Cardinality(before \cup {o})
      BY <3>1, <3>2, FS_Subset, FS_CardinalityType
    <3>4. IsFiniteSet(after) /\ Cardinality(after) <= faults'
      BY <2>2, <2>5, <3>2, <3>3
    <3> QED BY <3>4 DEF after
  <2> QED BY <2>2, <2>4, <2>5
<1> QED BY <1>1, <1>2, <1>3 DEF Next, OrphansInv

-----------------------------------------------------------------------------
(* Serial numbers *)

\* Batches stay or go, and nobody is between nextval and the row.
LEMMA SerialsKept ==
  ASSUME TypeInv, SerialsInv, Alone, NEW c \in InFlight, InFlight' = InFlight, seq' = seq,
         \A o \in Orders : order'[o].batch \in {order[o].batch, NoBatch},
         req'[c].op = "qc" => req'[c].pc = "loaded"
  PROVE  SerialsInv'
<1>1. \A d \in InFlight : d = c
  BY Lone
<1>2. BatchesNumbered /\ BatchesDisjoint
  BY DEF SerialsInv
<1>3. BatchesNumbered'
  BY <1>2 DEF BatchesNumbered, LastSerial
<1>4. BatchesDisjoint'
  BY <1>2 DEF BatchesDisjoint
<1> QED BY <1>1, <1>3, <1>4 DEF SerialsInv

LEMMA DoneKept ==
  ASSUME TypeInv, NEW c \in InFlight, Done(c) \/ (NextOrder(c) /\ req[c].op = "schedule")
  PROVE  req'[c].op = "qc" => req'[c].pc = "loaded"
BY IdleType DEF Done, NextOrder, TypeInv, RequestRow

LEMMA RequestSerials ==
  ASSUME TypeInv, SerialsInv, Alone, NEW c \in InFlight, InFlight' = InFlight, Request(c)
  PROVE  SerialsInv'
<1>1. seq' = seq
  BY DEF Request, createOrder, liveEvaluateOrder, deleteLoad, unscheduleLoad, qcLoad,
     statusLoad, gatherSchedulingInputs
<1>2. req'[c].op = "qc" => req'[c].pc = "loaded"
  <2>1. ASSUME NEW o \in Orders,
               createOrder(c, o) \/ \E ctb \in {"clear", "short"} : liveEvaluateOrder(c, o, ctb)
        PROVE  req'[c].op # "qc"
    BY <2>1 DEF createOrder, liveEvaluateOrder, TypeInv
  <2>2. ASSUME NEW o \in Orders, deleteLoad(c, o) \/ unscheduleLoad(c, o) \/ qcLoad(c, o)
                                   \/ \E to \in Flow : statusLoad(c, o, to)
        PROVE  req'[c].pc = "loaded"
    BY <2>2, IdleType DEF deleteLoad, unscheduleLoad, qcLoad, statusLoad, Start, TypeInv, RequestRow
  <2>3. ASSUME NEW plan \in Plans, gatherSchedulingInputs(c, plan)
        PROVE  req'[c].op # "qc"
    BY <2>3, IdleType DEF gatherSchedulingInputs, Start, TypeInv, RequestRow
  <2> QED BY <2>1, <2>2, <2>3 DEF Request
<1>3. \A o \in Orders : order'[o].batch \in {order[o].batch, NoBatch}
  <2>1. ASSUME NEW o \in Orders, createOrder(c, o)
        PROVE  order'[o].batch = NoBatch /\ \A p \in Orders \ {o} : order'[p] = order[p]
    BY <2>1 DEF createOrder, NoOrder, TypeInv
  <2>2. ASSUME NEW o \in Orders, NEW ctb \in {"clear", "short"}, liveEvaluateOrder(c, o, ctb)
        PROVE  order'[o].batch = order[o].batch /\ \A p \in Orders \ {o} : order'[p] = order[p]
    BY <2>2 DEF liveEvaluateOrder, TypeInv, OrderRow
  <2>3. \/ \E o \in Orders : createOrder(c, o)
        \/ \E o \in Orders, ctb \in {"clear", "short"} : liveEvaluateOrder(c, o, ctb)
        \/ order' = order
    BY DEF Request, deleteLoad, unscheduleLoad, qcLoad, statusLoad, gatherSchedulingInputs
  <2> QED BY <2>1, <2>2, <2>3
<1> QED BY <1>1, <1>2, <1>3, SerialsKept

LEMMA AdvanceSerials ==
  ASSUME TypeInv, RowsInv, SerialsInv, Alone, NEW c \in InFlight, InFlight' = InFlight, Advance(c)
  PROVE  SerialsInv'
<1> DEFINE r == req[c]
           o == Head(r.plan)
           q == r.order
<1>1. /\ r \in RequestRow /\ q \in Orders /\ order \in [Orders -> OrderRow] /\ r.first \in Nat
      /\ r.op = "schedule" => o \in Orders
      /\ seq \in Nat /\ QtyOf[q] \in Nat \ {0} /\ LastSerial(q, r.first) \in Nat
      /\ LastSerial(q, r.first) >= r.first
      /\ \A p \in Orders : order[p].batch \in Batch
  BY OrderFlowAssumption DEF TypeInv, RequestRow, LastSerial, OrderRow
<1>2. /\ \A d \in InFlight : d = c
      /\ BatchesNumbered /\ BatchesDisjoint
      /\ r.op = "qc" /\ r.pc \in {"reserved", "moved"} => Numbering(r)
  BY Lone DEF SerialsInv
<1>3. CASE updateOrderStatus(c) \/ deleteOrder(c) \/ unscheduleOrder(c) \/ Rollback(c) \/ Crash(c)
  <2>1. Done(c) /\ seq' = seq
    BY <1>3 DEF updateOrderStatus, ChangeStatus, deleteOrder, unscheduleOrder, Rollback, Crash
  <2>2. \A p \in Orders : order'[p].batch \in {order[p].batch, NoBatch}
    <3>1. CASE updateOrderStatus(c)
      <4>1. order'[q] = WithStatus(order[q], r.to) /\ \A p \in Orders \ {q} : order'[p] = order[p]
        BY <1>1, <3>1 DEF updateOrderStatus, ChangeStatus
      <4>2. WithStatus(order[q], r.to).batch = order[q].batch
        BY <1>1 DEF WithStatus, OrderRow
      <4> QED BY <4>1, <4>2
    <3>2. CASE deleteOrder(c)
      BY <1>1, <3>2 DEF deleteOrder, NoOrder
    <3>3. CASE unscheduleOrder(c)
      BY <1>1, <3>3 DEF unscheduleOrder, OrderRow
    <3>4. CASE order' = order
      BY <3>4
    <3> QED BY <1>3, <3>1, <3>2, <3>3, <3>4 DEF Rollback, Crash
  <2> QED BY <2>1, <2>2, DoneKept, SerialsKept
<1>4. CASE createScheduleRow(c) \/ scheduleReadStatus(c) \/ scheduleWriteFails(c)
  <2>1. seq' = seq /\ r.op = "schedule"
    BY <1>4 DEF createScheduleRow, scheduleReadStatus, scheduleWriteFails, At
  <2>2. req'[c].op = "schedule"
    <3>1. CASE createScheduleRow(c)
      BY <1>1, <2>1, <3>1 DEF createScheduleRow, TypeInv, RequestRow
    <3>2. CASE scheduleReadStatus(c)
      BY <1>1, <2>1, <3>2 DEF scheduleReadStatus, TypeInv, RequestRow
    <3>3. CASE scheduleWriteFails(c)
      BY <1>1, <2>1, <3>3 DEF scheduleWriteFails, TypeInv, RequestRow
    <3> QED BY <1>4, <3>1, <3>2, <3>3
  <2>3. \A p \in Orders : order'[p].batch = order[p].batch
    BY <1>1, <1>4, <2>1 DEF createScheduleRow, scheduleReadStatus, scheduleWriteFails, OrderRow
  <2> QED BY <2>1, <2>2, <2>3, SerialsKept
<1>5. CASE createScheduleRowFails(c) \/ scheduleWriteStatus(c) \/ scheduleCleanup(c)
          \/ scheduleCleanupFails(c)
  <2>1. NextOrder(c) /\ seq' = seq /\ r.op = "schedule"
    BY <1>5 DEF createScheduleRowFails, scheduleWriteStatus, ChangeStatus, scheduleCleanup,
       scheduleCleanupFails, At
  <2>2. \A p \in Orders : order'[p].batch = order[p].batch
    <3>1. CASE createScheduleRowFails(c) \/ scheduleCleanupFails(c)
      BY <3>1 DEF createScheduleRowFails, scheduleCleanupFails
    <3>2. CASE scheduleWriteStatus(c)
      <4>1. /\ order'[o] = WithStatus(order[o], "Scheduled")
            /\ \A p \in Orders \ {o} : order'[p] = order[p]
        BY <1>1, <2>1, <3>2 DEF scheduleWriteStatus, ChangeStatus
      <4>2. WithStatus(order[o], "Scheduled").batch = order[o].batch
        BY <1>1, <2>1 DEF WithStatus, OrderRow
      <4> QED BY <4>1, <4>2
    <3>3. CASE scheduleCleanup(c)
      BY <1>1, <2>1, <3>3 DEF scheduleCleanup, OrderRow
    <3> QED BY <1>5, <3>1, <3>2, <3>3
  <2> QED BY <2>1, <2>2, DoneKept, SerialsKept
<1>6. CASE reserveSerials(c)
  <2>1. /\ seq' = seq + 1 /\ order' = order
        /\ req'[c].op = "qc" /\ req'[c].pc = "reserved" /\ req'[c].first = seq + 1
    BY <1>1, <1>6 DEF reserveSerials, At, TypeInv, RequestRow
  <2>2. BatchesNumbered' /\ BatchesDisjoint'
    BY <1>1, <1>2, <2>1 DEF BatchesNumbered, BatchesDisjoint, LastSerial, Batch
  <2>3. Numbering(req[c])'
    BY <1>1, <1>2, <2>1 DEF Numbering, BatchesNumbered, Batch
  <2> QED BY <1>2, <2>2, <2>3 DEF SerialsInv
<1>7. CASE moveSequence(c)
  <2>1. /\ r.op = "qc" /\ r.pc = "reserved" /\ Numbering(r)
        /\ seq' = LastSerial(q, r.first) /\ order' = order
        /\ req'[c].op = "qc" /\ req'[c].pc = "moved" /\ req'[c].first = r.first
        /\ req'[c].order = q
    BY <1>1, <1>2, <1>7 DEF moveSequence, SequenceAfter, At, TypeInv, RequestRow
  <2>2. BatchesNumbered' /\ BatchesDisjoint'
    BY <1>1, <1>2, <2>1 DEF BatchesNumbered, BatchesDisjoint, Numbering, Batch, LastSerial
  <2>3. Numbering(req[c])'
    BY <2>1 DEF Numbering, LastSerial
  <2> QED BY <1>2, <2>2, <2>3 DEF SerialsInv
<1>8. CASE createBatchWithSerialRange(c)
  <2> DEFINE b == [first |-> r.first, last |-> LastSerial(q, r.first)]
  <2>1. /\ r.op = "qc" /\ r.pc = "moved" /\ Numbering(r) /\ seq' = seq
        /\ order'[q].batch = b /\ \A p \in Orders \ {q} : order'[p] = order[p]
    BY <1>1, <1>2, <1>8 DEF createBatchWithSerialRange, At, OrderRow
  <2>2. b.first = r.first /\ b.last = LastSerial(q, r.first)
    OBVIOUS
  <2> HIDE DEF b
  <2>3. BatchesNumbered'
    BY <1>1, <1>2, <2>1, <2>2 DEF BatchesNumbered, Numbering, LastSerial
  <2>4. BatchesDisjoint'
    BY <1>1, <1>2, <2>1, <2>2 DEF BatchesDisjoint, Numbering
  <2>5. req'[c].op # "qc"
    BY <1>8, IdleType DEF createBatchWithSerialRange, Done, TypeInv
  <2> QED BY <1>2, <2>3, <2>4, <2>5 DEF SerialsInv
<1> QED BY <1>3, <1>4, <1>5, <1>6, <1>7, <1>8 DEF Advance

LEMMA SerialsStep ==
  ASSUME TypeInv, RowsInv, SerialsInv, [Next]_vars
  PROVE  SerialsInv'
<1>1. InFlight' = InFlight /\ (Alone' <=> Alone)
  BY SameClients
<1>2. CASE UNCHANGED vars
  BY <1>1, <1>2 DEF vars, SerialsInv, BatchesNumbered, BatchesDisjoint, Numbering
<1>3. ASSUME Alone, NEW c \in InFlight, Request(c) \/ Advance(c)
      PROVE  SerialsInv'
  BY <1>1, <1>3, RequestSerials, AdvanceSerials
<1> QED BY <1>1, <1>2, <1>3 DEF Next, SerialsInv

-----------------------------------------------------------------------------
(* Theorems *)

LEMMA InitInv == Init => Inv /\ OrphansInv
<1> SUFFICES ASSUME Init PROVE Inv /\ OrphansInv
  OBVIOUS
<1>1. TypeInv
  BY InitType
<1>2. /\ \A o \in Orders : order[o] = NoOrder /\ history[o] = << >>
      /\ \A c \in InFlight : req[c] = Idle
  BY DEF Init, InFlight
<1>3. NoOrder.status = "Absent" /\ ~NoOrder.schedule /\ NoOrder.batch = NoBatch
  BY DEF NoOrder
<1>4. RowsInv
  BY <1>2, <1>3 DEF RowsInv, HistoryEndsInStatus, ClosedHasSummary, Exists
<1>5. AloneKnows
  BY <1>2, IdleType DEF AloneKnows, Knows
<1>6. SerialsInv
  BY <1>2, <1>3, IdleType DEF SerialsInv, BatchesNumbered, BatchesDisjoint
<1>7. HistoriesInv
  BY <1>2 DEF HistoriesInv, NoGap
<1>8. OrphansInv
  <2>1. Orphans = {} /\ faults = 0
    BY <1>2, <1>3 DEF Orphans, Init
  <2> QED BY <2>1, FS_EmptySet DEF OrphansInv
<1> QED BY <1>1, <1>4, <1>5, <1>6, <1>7, <1>8 DEF Inv

LEMMA StepInv == Inv /\ [Next]_vars => Inv'
BY TypeStep, RowsStep, KnowsStep, HistoriesStep, SerialsStep DEF Inv

\* A closed order has its summary, whatever requests overlap and wherever the
\* process dies.
THEOREM ClosedIsSummarised == Spec => []ClosedHasSummary
<1>1. Inv => ClosedHasSummary
  BY DEF Inv, RowsInv
<1> QED BY InitInv, StepInv, <1>1, PTL DEF Spec

\* The history of an order leads to its status through every overlap of requests,
\* and from Open without a gap with one request at a time.
THEOREM HistoryTellsStatus == Spec => []HistoryIsGapFree
<1>1. Inv => HistoryIsGapFree
  BY DEF Inv, RowsInv, HistoriesInv, NoGap, HistoryIsGapFree
<1> QED BY InitInv, StepInv, <1>1, PTL DEF Spec

\* With one request at a time, whichever statements of scheduling runs fail,
\* there are never more orders waiting with a row nobody works on than deaths of
\* the process and failed clean-ups.
THEOREM RunsLeaveNoOrphan == Spec => []OrphansWithinFaults
<1>1. Inv => TypeInv /\ RowsInv /\ AloneKnows
  BY DEF Inv
<1>2. Inv /\ OrphansInv /\ [Next]_vars => (Inv /\ OrphansInv)'
  <2> SUFFICES ASSUME Inv, OrphansInv, [Next]_vars PROVE (Inv /\ OrphansInv)'
    OBVIOUS
  <2>1. Inv'
    BY StepInv
  <2>2. TypeInv'
    BY <2>1 DEF Inv
  <2> QED BY <1>1, <2>1, <2>2, OrphanStep
<1>3. OrphansInv => OrphansWithinFaults
  BY DEF OrphansInv, OrphansWithinFaults
<1> QED BY InitInv, <1>2, <1>3, PTL DEF Spec

\* With one request at a time a batch has a serial number for every unit of its
\* order and shares none, however many requests are rolled back after nextval.
THEOREM SerialsAreGivenOnce == Spec => []SerialsAreUnique
<1>1. Inv => SerialsAreUnique
  <2> SUFFICES ASSUME Inv, Alone PROVE SerialsAreUnique
    BY DEF SerialsAreUnique
  <2>1. \A o \in Orders : /\ order[o].batch \in Batch /\ QtyOf[o] \in Nat \ {0}
                          /\ order[o].batch.first \in Int /\ order[o].batch.last \in Int
    BY OrderFlowAssumption DEF Inv, TypeInv, OrderRow, Batch
  <2>2. ASSUME NEW o \in Orders, order[o].batch # NoBatch
        PROVE  Cardinality(Serials(o)) = QtyOf[o]
    <3>1. Serials(o) = order[o].batch.first..order[o].batch.last
      BY <2>2 DEF Serials
    <3>2. order[o].batch.last = order[o].batch.first + QtyOf[o] - 1
      BY <2>2 DEF Inv, SerialsInv, BatchesNumbered, LastSerial
    <3>3. Cardinality(order[o].batch.first..order[o].batch.last) =
            IF order[o].batch.first > order[o].batch.last THEN 0
            ELSE order[o].batch.last - order[o].batch.first + 1
      BY <2>1, FS_Interval
    <3> QED BY <2>1, <3>1, <3>2, <3>3
  <2>3. ASSUME NEW o \in Orders, NEW p \in Orders, o # p
        PROVE  Serials(o) \cap Serials(p) = {}
    <3>1. CASE order[o].batch = NoBatch \/ order[p].batch = NoBatch
      BY <3>1 DEF Serials
    <3>2. CASE order[o].batch # NoBatch /\ order[p].batch # NoBatch
      <4>1. \/ order[o].batch.last < order[p].batch.first
            \/ order[p].batch.last < order[o].batch.first
        BY <2>3, <3>2 DEF Inv, SerialsInv, BatchesDisjoint
      <4>2. /\ Serials(o) = order[o].batch.first..order[o].batch.last
            /\ Serials(p) = order[p].batch.first..order[p].batch.last
        BY <3>2 DEF Serials
      <4> QED BY <2>1, <4>1, <4>2
    <3> QED BY <3>1, <3>2
  <2> QED BY <2>2, <2>3 DEF SerialsAreUnique
<1> QED BY InitInv, StepInv, <1>1, PTL DEF Spec

=============================================================================
