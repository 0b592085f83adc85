----------------------------- MODULE OrderFlow -----------------------------
(***************************************************************************)
(* Production orders: their status machine and its history, the scheduling *)
(* run that puts orders on lines, un-scheduling, QC batches with their     *)
(* serial ranges, and the closure summary (backend modules orders,         *)
(* scheduling, qc and the status ctb leaves on an order).                  *)
(*                                                                         *)
(* A handler is one client's request, split where the code reads rows and  *)
(* writes later.  A scheduling run is not one transaction: each order has  *)
(* its row created, then its status changed, then, if that fails, its row  *)
(* deleted again; that deletion may fail too, and the process may die in   *)
(* between.                                                                *)
(***************************************************************************)
EXTENDS Naturals, Sequences, FiniteSets, SequencesExt

CONSTANTS
  Clients,     \* requests that can be in flight at the same time
  Orders,      \* production orders
  QtyOf,       \* the quantity of each
  Limits       \* bounds of an instance, by its number of requests in flight: the orders it
               \* has, status changes of one order, serial numbers given out, and faults
               \* of scheduling runs: deaths of the process and clean-ups that fail

ASSUME OrderFlowAssumption ==
  /\ IsFiniteSet(Clients) /\ Orders # {}
  /\ QtyOf \in [Orders -> Nat \ {0}]
  /\ Limits \in Seq([orders : SUBSET Orders, history : Nat, serials : Nat, faults : Nat])
  /\ Len(Limits) = Cardinality(Clients)

VARIABLES
  order,    \* orders, with whether a row of production_schedule and of
            \* order_closure_summaries exists for each, and its qc_batches row
  history,  \* order_status_history of each order
  seq,      \* the sequence qc_serial_seq
  faults,   \* faults so far
  req       \* what each client's request has read and not yet written

vars == <<order, history, seq, faults, req>>

-----------------------------------------------------------------------------
(* Rows *)

STATUS_FLOW == <<"Open", "PendingRM", "Scheduled", "Running", "QC", "DispatchReady", "Closed">>
Flow == ToSet(STATUS_FLOW)

IndexOf(s) == CHOOSE k \in DOMAIN STATUS_FLOW : STATUS_FLOW[k] = s

NoBatch == [first |-> 0, last |-> 0]
NoOrder == [status |-> "Absent", ctb |-> "never", schedule |-> FALSE, summary |-> FALSE,
            batch |-> NoBatch]

LinearNext(s) == {STATUS_FLOW[k] : k \in {j \in DOMAIN STATUS_FLOW : j = IndexOf(s) + 1}}

getAllowedNextStatuses(s) == LinearNext(s) \cup IF s = "Open" THEN {"Scheduled"} ELSE {}

-----------------------------------------------------------------------------
(* Requests *)

\* A request that is not running.  plan: the orders a scheduling run still has
\* to persist; created: it has made the row of the first of them.
Idle == [op |-> "none", pc |-> "idle", order |-> CHOOSE o \in Orders : TRUE,
         seen |-> "Open", to |-> "Open", plan |-> << >>, created |-> FALSE, first |-> 0]

InFlight == DOMAIN req
Alone == Cardinality(InFlight) = 1
Limit == Limits[Cardinality(InFlight)]
Idles(c) == req[c].pc = "idle"
At(c, op, pc) == req[c].op = op /\ req[c].pc = pc
Start(c, r) == Idles(c) /\ req' = [req EXCEPT ![c] = r]
Done(c) == req' = [req EXCEPT ![c] = Idle]

Exists(o) == order[o].status # "Absent"

Init ==
  /\ order = [o \in Orders |-> NoOrder]
  /\ history = [o \in Orders |-> << >>]
  /\ seq = 0 /\ faults = 0
  /\ \E inFlight \in {Clients, {CHOOSE c \in Clients : TRUE}} : req = [c \in inFlight |-> Idle]

-----------------------------------------------------------------------------
(* Orders *)

createOrder(c, o) ==
  /\ Idles(c) /\ o \in Limit.orders /\ ~Exists(o)
  /\ order' = [order EXCEPT ![o] = [NoOrder EXCEPT !.status = "Open"]]
  /\ UNCHANGED <<history, seq, faults, req>>

\* What a clear-to-build evaluation leaves on the order; ctb stands for the
\* stock it found.
liveEvaluateOrder(c, o, ctb) ==
  /\ Idles(c) /\ Exists(o) /\ order[o].ctb # ctb
  /\ order' = [order EXCEPT ![o].ctb = ctb]
  /\ UNCHANGED <<history, seq, faults, req>>

statusLoad(c, o, to) ==
  /\ Exists(o) /\ to \in getAllowedNextStatuses(order[o].status)
  /\ Len(history[o]) < Limit.history
  /\ Start(c, [Idle EXCEPT !.op = "status", !.pc = "loaded", !.order = o,
                           !.seen = order[o].status, !.to = to])
  /\ UNCHANGED <<order, history, seq, faults>>

\* Mutant: logs where the order started instead of where it was.
ChangedFromOpen(h, seen, to) == Append(h, [old |-> "Open", new |-> to])

Changed(h, seen, to) == Append(h, [old |-> seen, new |-> to])

\* Mutant: writes no summary.
StatusWithoutSummary(row, to) == [row EXCEPT !.status = to]

\* The order after a change of its status, with the summary of its closure.
WithStatus(row, to) == [row EXCEPT !.status = to, !.summary = @ \/ to = "Closed"]

\* The transaction of updateOrderStatus for o, which its caller read as seen;
\* a second summary would violate its unique order_id.
ChangeStatus(o, seen, to) ==
  /\ Exists(o) /\ ~(to = "Closed" /\ order[o].summary)
  /\ order' = [order EXCEPT ![o] = WithStatus(@, to)]
  /\ history' = [history EXCEPT ![o] = Changed(@, seen, to)]

updateOrderStatus(c) == LET r == req[c] IN
  /\ At(c, "status", "loaded") /\ ChangeStatus(r.order, r.seen, r.to)
  /\ Done(c) /\ UNCHANGED <<seq, faults>>

MayDelete(o) == order[o].status = "Open"

deleteLoad(c, o) ==
  /\ MayDelete(o)
  /\ Start(c, [Idle EXCEPT !.op = "delete", !.pc = "loaded", !.order = o])
  /\ UNCHANGED <<order, history, seq, faults>>

\* Every row that references the order goes with it (an FG batch made from it,
\* which FgStock models, would keep it instead).
deleteOrder(c) == LET o == req[c].order IN
  /\ At(c, "delete", "loaded") /\ Exists(o)
  /\ order' = [order EXCEPT ![o] = NoOrder]
  /\ history' = [history EXCEPT ![o] = << >>]
  /\ Done(c) /\ UNCHANGED <<seq, faults>>

-----------------------------------------------------------------------------
(* Scheduling *)

\* Orders a run may put on a line.
Eligible(o) == order[o].status \in Flow \ {"Closed"} /\ order[o].ctb = "clear" /\ ~order[o].schedule

\* The orders the pass over the eligible ones finds a line for, in its order.
gatherSchedulingInputs(c, plan) ==
  /\ plan # << >> /\ \A k \in DOMAIN plan : Eligible(plan[k])
  /\ \A o \in ToSet(plan) : Len(history[o]) < Limit.history
  /\ Start(c, [Idle EXCEPT !.op = "schedule", !.pc = "create", !.plan = plan])
  /\ UNCHANGED <<order, history, seq, faults>>

\* Mutant: an order that failed is tried again.
RestWithFailed(c) == IF req[c].pc = "cleanup" THEN req[c].plan ELSE Tail(req[c].plan)

Rest(c) == Tail(req[c].plan)

\* The run goes on with the next order, or ends.
NextOrder(c) == LET rest == Rest(c) IN
  req' = [req EXCEPT ![c] = IF rest = << >> THEN Idle
                            ELSE [@ EXCEPT !.pc = "create", !.plan = rest, !.created = FALSE]]

createScheduleRow(c) == LET o == Head(req[c].plan) IN
  /\ At(c, "schedule", "create") /\ Exists(o) /\ ~order[o].schedule
  /\ order' = [order EXCEPT ![o].schedule = TRUE]
  /\ req' = [req EXCEPT ![c].pc = "status", ![c].created = TRUE]
  /\ UNCHANGED <<history, seq, faults>>

\* The order was deleted, or scheduled by someone else, since it was read.
createScheduleRowFails(c) == LET o == Head(req[c].plan) IN
  /\ At(c, "schedule", "create") /\ (~Exists(o) \/ order[o].schedule)
  /\ NextOrder(c) /\ UNCHANGED <<order, history, seq, faults>>

\* updateOrderStatus reads and checks the order again ...
scheduleReadStatus(c) == LET o == Head(req[c].plan) IN
  /\ At(c, "schedule", "status")
  /\ req' = [req EXCEPT ![c] = IF Exists(o) /\ "Scheduled" \in getAllowedNextStatuses(order[o].status)
       THEN [@ EXCEPT !.pc = "write", !.seen = order[o].status] ELSE [@ EXCEPT !.pc = "cleanup"]]
  /\ UNCHANGED <<order, history, seq, faults>>

\* ... and writes.
scheduleWriteStatus(c) ==
  /\ At(c, "schedule", "write")
  /\ ChangeStatus(Head(req[c].plan), req[c].seen, "Scheduled")
  /\ NextOrder(c) /\ UNCHANGED <<seq, faults>>

\* The transaction of updateOrderStatus fails: deleted order, timeout, lost connection.
scheduleWriteFails(c) ==
  /\ At(c, "schedule", "write")
  /\ req' = [req EXCEPT ![c].pc = "cleanup"]
  /\ UNCHANGED <<order, history, seq, faults>>

\* Mutant: the row is not removed.
RowAfterFailureStays(c, o) == order[o].schedule

RowAfterFailure(c, o) == order[o].schedule /\ ~req[c].created

scheduleCleanup(c) == LET o == Head(req[c].plan) IN
  /\ At(c, "schedule", "cleanup")
  /\ order' = [order EXCEPT ![o].schedule = RowAfterFailure(c, o)]
  /\ NextOrder(c) /\ UNCHANGED <<history, seq, faults>>

\* The clean-up is best effort: when the delete fails as well, the row stays
\* and the run goes on.
scheduleCleanupFails(c) ==
  /\ At(c, "schedule", "cleanup") /\ faults < Limit.faults
  /\ faults' = faults + 1
  /\ NextOrder(c) /\ UNCHANGED <<order, history, seq>>

MayUnschedule(o) == order[o].schedule /\ order[o].status = "Scheduled"

unscheduleLoad(c, o) ==
  /\ MayUnschedule(o) /\ Len(history[o]) < Limit.history
  /\ Start(c, [Idle EXCEPT !.op = "unschedule", !.pc = "loaded", !.order = o])
  /\ UNCHANGED <<order, history, seq, faults>>

\* The row must still be there; the status is not checked again.
unscheduleOrder(c) == LET o == req[c].order IN
  /\ At(c, "unschedule", "loaded") /\ order[o].schedule
  /\ order' = [order EXCEPT ![o].schedule = FALSE, ![o].status = "Open"]
  /\ history' = [history EXCEPT ![o] = Changed(@, "Scheduled", "Open")]
  /\ Done(c) /\ UNCHANGED <<seq, faults>>

-----------------------------------------------------------------------------
(* QC batches *)

\* The orders read as Scheduled without a batch are treated one by one; one of
\* them is a request here.
qcLoad(c, o) ==
  /\ order[o].status = "Scheduled" /\ order[o].batch = NoBatch
  /\ seq + QtyOf[o] <= Limit.serials
  /\ Start(c, [Idle EXCEPT !.op = "qc", !.pc = "loaded", !.order = o])
  /\ UNCHANGED <<order, history, seq, faults>>

\* nextval, which no rollback takes back.
reserveSerials(c) ==
  /\ At(c, "qc", "loaded") /\ order[req[c].order].batch = NoBatch
  /\ seq' = seq + 1
  /\ req' = [req EXCEPT ![c].pc = "reserved", ![c].first = seq + 1]
  /\ UNCHANGED <<order, history, faults>>

LastSerial(o, first) == first + QtyOf[o] - 1

\* Mutant: the sequence stays where nextval left it.
SequenceKept(o, first) == seq

SequenceAfter(o, first) == LastSerial(o, first)

\* setval, which no rollback takes back either ...
moveSequence(c) == LET r == req[c] IN
  /\ At(c, "qc", "reserved")
  /\ seq' = SequenceAfter(r.order, r.first)
  /\ req' = [req EXCEPT ![c].pc = "moved"]
  /\ UNCHANGED <<order, history, faults>>

\* ... and the row, whose order_id is unique.
createBatchWithSerialRange(c) == LET o == req[c].order  first == req[c].first IN
  /\ At(c, "qc", "moved") /\ Exists(o) /\ order[o].batch = NoBatch
  /\ order' = [order EXCEPT ![o].batch = [first |-> first, last |-> LastSerial(o, first)]]
  /\ Done(c) /\ UNCHANGED <<history, seq, faults>>

-----------------------------------------------------------------------------
\* A request of one transaction ends without a write.
Rollback(c) ==
  /\ req[c].op \in {"status", "delete", "unschedule", "qc"} /\ Done(c)
  /\ UNCHANGED <<order, history, seq, faults>>

\* The process dies in a scheduling run; nobody goes on with the run.
Crash(c) ==
  /\ req[c].op = "schedule" /\ faults < Limit.faults
  /\ faults' = faults + 1 /\ Done(c)
  /\ UNCHANGED <<order, history, seq>>

Plans == {p \in UNION {[1..n -> Orders] : n \in 1..Cardinality(Orders)} :
            \A j, k \in DOMAIN p : p[j] = p[k] => j = k}

Request(c) ==
  \/ \E o \in Orders :
       \/ createOrder(c, o) \/ deleteLoad(c, o) \/ unscheduleLoad(c, o) \/ qcLoad(c, o)
       \/ \E ctb \in {"clear", "short"} : liveEvaluateOrder(c, o, ctb)
       \/ \E to \in Flow : statusLoad(c, o, to)
  \/ \E plan \in Plans : gatherSchedulingInputs(c, plan)

Advance(c) ==
  \/ updateOrderStatus(c) \/ deleteOrder(c) \/ unscheduleOrder(c)
  \/ createScheduleRow(c) \/ createScheduleRowFails(c) \/ scheduleReadStatus(c)
  \/ scheduleWriteStatus(c) \/ scheduleWriteFails(c) \/ scheduleCleanup(c)
  \/ scheduleCleanupFails(c)
  \/ reserveSerials(c) \/ moveSequence(c) \/ createBatchWithSerialRange(c)
  \/ Rollback(c) \/ Crash(c)

Next == \E c \in InFlight : Request(c) \/ Advance(c)

Spec == Init /\ [][Next]_vars

\* A request that has begun goes on: the event loop resumes it after every
\* await, and a statement that cannot finish times out.
FairSpec == Spec /\ \A c \in Clients : WF_vars(c \in InFlight /\ Advance(c))

-----------------------------------------------------------------------------
(* Properties *)

\* The newest row of its history names the status of an order: whatever runs
\* beside each other, both are written in one transaction.
HistoryEndsInStatus == \A o \in Orders : Exists(o) =>
  order[o].status = IF history[o] = << >> THEN "Open" ELSE Last(history[o]).new

\* The history of an order leads to its status, and with one request at a time
\* from Open and without a gap.
HistoryIsGapFree == HistoryEndsInStatus /\ \A o \in Orders : Alone =>
  LET h == history[o] IN
    /\ h # << >> => h[1].old = "Open"
    /\ \A k \in 1..Len(h) - 1 : h[k + 1].old = h[k].new

Runs(c) == c \in InFlight /\ req[c].op = "schedule"
InRun(o) == \E c \in InFlight : Runs(c) /\ Head(req[c].plan) = o

\* Orders that still wait for their schedule, have a row of one and no run that
\* works on them: the row keeps them out of every later run.
Orphans == {o \in Orders :
  order[o].status \in {"Open", "PendingRM"} /\ order[o].schedule /\ ~InRun(o)}

\* With one request at a time a failed run leaves no such row behind, whichever
\* of its writes fail, except one for each death of the process and for each
\* clean-up that fails as well.
OrphansWithinFaults == Alone => Cardinality(Orphans) <= faults

\* No order is closed without its summary, not even when requests overlap.
ClosedHasSummary == \A o \in Orders : order[o].status = "Closed" => order[o].summary

Serials(o) == IF order[o].batch = NoBatch THEN {} ELSE order[o].batch.first..order[o].batch.last

\* With one request at a time the serial numbers of a batch are as many as its
\* order has units, and no two batches share one.
SerialsAreUnique ==
  /\ \A o \in Orders : Alone /\ order[o].batch # NoBatch => Cardinality(Serials(o)) = QtyOf[o]
  /\ \A o, p \in Orders : Alone /\ o # p => Serials(o) \cap Serials(p) = {}

\* Every scheduling run ends, whichever of its orders fail.
RunEnds == \A c \in Clients : Runs(c) ~> ~Runs(c)

=============================================================================
