------------------------------- MODULE Planning -------------------------------
(***************************************************************************)
(* From clear-to-build orders to a daily plan: the greedy scheduling pass  *)
(* (schedulingEngine.ts) and the run that persists it (scheduling.service) *)
(* one order at a time, un-scheduling, and the distribution of an order's  *)
(* quantity over the days of its schedule (productionPlan.service and      *)
(* planDistributor.ts).  Dates are day numbers; quantities of pieces are   *)
(* counted in hundredths, as far as round2 and Decimal(12,2) keep them.    *)
(*                                                                         *)
(* A handler is split where it awaits what it decides on later.  One run,  *)
(* one un-scheduling and one plan are in flight at a time, interleaved     *)
(* with each other, with the orders moving on and the days passing, each   *)
(* with the workers it brings.                                             *)
(***************************************************************************)
EXTENDS Integers, Sequences, FiniteSetsExt

CONSTANTS
  Orders,       \* production orders, clear to build
  OrderOf,      \* each order's qty, weight (of its priority), dueDate and product type,
                \* with the taktTimeSec and manpowerRequired of its product
  Lines,        \* production lines, by the order of their ids
  LineOf,       \* each line's efficiencyPct and compatibleProductTypes
  Attendances,  \* workers present, by line, as hr_team says at one time or another
  DaySeconds,   \* AVAILABLE_MINUTES_PER_DAY * 60, 28800 in the code
  LastDay,      \* bound: how far the calendar runs
  Horizon,      \* bound: a run comes only while every schedule ends by this day
  MaxPlans      \* bound: orders with a plan

ASSUME PlanningAssumption ==
  /\ IsFiniteSet(Orders) /\ IsFiniteSet(Lines) /\ Lines \subseteq Nat
  /\ DaySeconds \in Nat /\ LastDay \in Nat /\ Horizon \in Nat
  /\ \A o \in Orders : /\ OrderOf[o].qty \in Nat \ {0} /\ OrderOf[o].taktTimeSec \in Nat \ {0}
                       /\ OrderOf[o].manpowerRequired \in Int
  /\ \A l \in Lines : LineOf[l].efficiencyPct \in Nat
  /\ Attendances \subseteq [Lines -> Nat]

VARIABLES
  today,   \* the date
  workers, \* the workers present on each line
  status,  \* orders.status: Open, Scheduled or, what comes after it in one, Closed
  row,     \* production_schedule: the row of each order that has one
  plan,    \* daily_production_plan: the first day and the quantities, of each that has one
  run,     \* the scheduling run in flight: eligible orders, then what is left to persist
  undo,    \* the un-scheduling in flight: the order it has read as Scheduled
  draft    \* the plan in flight: the order and the schedule it has read

vars == <<today, workers, status, row, plan, run, undo, draft>>

-----------------------------------------------------------------------------
(* The capacity of a line *)

\* The output of a day, in pieces, as a fraction.
computeDailyOutput(o, l, present) == LET need == OrderOf[o].manpowerRequired IN
  [num |-> IF need > 0 THEN DaySeconds * LineOf[l].efficiencyPct * Min({need, present}) ELSE 0,
   den |-> OrderOf[o].taktTimeSec * 100 * Max({need, 1})]

CeilDiv(a, b) == (a + b - 1) \div b

\* To the nearest hundredth.
round2(f) == (200 * f.num + f.den) \div (2 * f.den)

\* Mutant: counts the full days only.
DaysOfFullOutput(qty, out) == Max({1, (qty * out.den) \div out.num})

daysNeeded(qty, out) == CeilDiv(qty * out.den, out.num)

\* An order on a line from a day on; with no output, no candidate.
Candidate(o, l, present, from) == LET out == computeDailyOutput(o, l, present) IN
  IF out.num = 0 THEN {}
  ELSE {[order |-> o, line |-> l, start |-> from, dailyOutput |-> round2(out),
         end |-> from + daysNeeded(OrderOf[o].qty, out) - 1]}

\* The earliest end; then the higher output, then the lower id.
Better(a, b) ==
  \/ a.end < b.end
  \/ a.end = b.end /\ a.dailyOutput > b.dailyOutput
  \/ a.end = b.end /\ a.dailyOutput = b.dailyOutput /\ a.line < b.line

pickBestCandidate(cs) == CHOOSE a \in cs : \A b \in cs \ {a} : Better(a, b)

-----------------------------------------------------------------------------
(* A pass *)

Before(a, b) ==
  \/ OrderOf[a].weight > OrderOf[b].weight
  \/ OrderOf[a].weight = OrderOf[b].weight /\ OrderOf[a].dueDate < OrderOf[b].dueDate

\* The orders in one of the ways sortOrders may leave them: orders it has no
\* preference between stay as the query returned them.
sortOrders(S) == {s \in [1..Cardinality(S) -> S] :
  \A i, j \in DOMAIN s : i < j => s[i] # s[j] /\ ~Before(s[j], s[i])}

\* The chosen line is free again the day after.
AvailableAfter(avail, a) == [avail EXCEPT ![a.line] = a.end + 1]

\* One order more, on the best line it fits on.
Assigned(acc, o, present) ==
  LET cs == UNION {Candidate(o, l, present[l], acc.avail[l]) :
                   l \in {x \in Lines : OrderOf[o].type \in LineOf[x].compatibleProductTypes}}
      chosen == pickBestCandidate(cs)
  IN IF cs = {} THEN acc
     ELSE [avail |-> AvailableAfter(acc.avail, chosen), out |-> Append(acc.out, chosen)]

\* What is assigned, and when the lines are free then, after the first i orders.
PassAfter(sorted, present, avail) ==
  LET acc[i \in 0..Len(sorted)] ==
        IF i = 0 THEN [avail |-> avail, out |-> << >>] ELSE Assigned(acc[i - 1], sorted[i], present)
  IN  acc

runSchedulingPass(sorted, present, avail) ==
  PassAfter(sorted, present, avail)[Len(sorted)].out

-----------------------------------------------------------------------------
(* The tables *)

Scheduled == DOMAIN row
Without(f, o) == [x \in DOMAIN f \ {o} |-> f[x]]
With(f, o, v) == [x \in DOMAIN f \cup {o} |-> IF x = o THEN v ELSE f[x]]

\* Mutant: the line is free when the first of its schedules ends.
AvailableFromFirst(rows, l) == LET ends == {rows[o].end : o \in {x \in DOMAIN rows : rows[x].line = l}} IN
  IF ends = {} THEN today ELSE Min(ends) + 1

\* The day after the last schedule on the line, be it past; today if there is none.
computeLineAvailableFrom(rows, l) == LET ends == {rows[o].end : o \in {x \in DOMAIN rows : rows[x].line = l}} IN
  IF ends = {} THEN today ELSE Max(ends) + 1

NoRun == [pc |-> "idle", eligible |-> {}, left |-> << >>]

Init ==
  /\ today = 0 /\ workers \in Attendances
  /\ status = [o \in Orders |-> "Open"]
  /\ row = << >> /\ plan = << >>
  /\ run = NoRun /\ undo = {} /\ draft = {}

-----------------------------------------------------------------------------
(* runScheduling *)

\* The orders to schedule; the order matters only for those without a row.
gatherOrders ==
  /\ run.pc = "idle" /\ \A o \in Scheduled : row[o].end <= Horizon
  /\ LET eligible == {o \in Orders \ Scheduled : status[o] # "Closed"} IN
     eligible # {} /\ run' = [NoRun EXCEPT !.pc = "gathered", !.eligible = eligible]
  /\ UNCHANGED <<today, workers, status, row, plan, undo, draft>>

\* The workers and the lines' schedules, and the pass over what was read.
pass ==
  /\ run.pc = "gathered"
  /\ \E sorted \in sortOrders(run.eligible) :
       run' = [NoRun EXCEPT !.pc = "create", !.left = runSchedulingPass(sorted, workers,
                 [l \in Lines |-> computeLineAvailableFrom(row, l)])]
  /\ UNCHANGED <<today, workers, status, row, plan, undo, draft>>

Persisted == [run EXCEPT !.pc = "create", !.left = Tail(@)]

\* The row of the next order; its order_id is unique.
createRow ==
  /\ run.pc = "create" /\ run.left # << >>
  /\ LET a == Head(run.left) IN
     IF a.order \in Scheduled THEN run' = Persisted /\ UNCHANGED row
     ELSE /\ row' = With(row, a.order, [line |-> a.line, start |-> a.start, end |-> a.end,
                                        dailyOutput |-> a.dailyOutput])
          /\ run' = [run EXCEPT !.pc = "status"]
  /\ UNCHANGED <<today, workers, status, plan, undo, draft>>

\* updateOrderStatus to Scheduled, which only an Open order can take.
toScheduled ==
  /\ run.pc = "status"
  /\ LET o == Head(run.left).order IN
     IF status[o] = "Open"
     THEN status' = [status EXCEPT ![o] = "Scheduled"] /\ run' = Persisted
     ELSE run' = [run EXCEPT !.pc = "cleanup"] /\ UNCHANGED status
  /\ UNCHANGED <<today, workers, row, plan, undo, draft>>

\* The row of an order whose status did not change goes again.
cleanup ==
  /\ run.pc = "cleanup"
  /\ row' = Without(row, Head(run.left).order)
  /\ run' = Persisted
  /\ UNCHANGED <<today, workers, status, plan, undo, draft>>

endRun ==
  /\ run.pc = "create" /\ run.left = << >>
  /\ run' = NoRun
  /\ UNCHANGED <<today, workers, status, row, plan, undo, draft>>

-----------------------------------------------------------------------------
(* unscheduleOrder *)

unscheduleLoad(o) ==
  /\ undo = {} /\ o \in Scheduled /\ status[o] = "Scheduled"
  /\ undo' = {o}
  /\ UNCHANGED <<today, workers, status, row, plan, run, draft>>

\* The transaction deletes a row that must be there.  The plan stays.
unscheduleOrder(o) ==
  /\ o \in undo /\ undo' = {}
  /\ IF o \in Scheduled
     THEN row' = Without(row, o) /\ status' = [status EXCEPT ![o] = "Open"]
     ELSE UNCHANGED <<row, status>>
  /\ UNCHANGED <<today, workers, plan, run, draft>>

-----------------------------------------------------------------------------
(* generateProductionPlan *)

\* Every day its output while there is something left; the last day takes the rest.
distributeDailyPlanQty(total, daily, numDays) ==
  [d \in 1..numDays |-> LET left == Max({0, total - (d - 1) * daily}) IN
     IF d = numDays THEN left ELSE Min({daily, left})]

planLoad(o) ==
  /\ draft = {} /\ o \in Scheduled /\ Cardinality(DOMAIN plan \cup {o}) <= MaxPlans
  /\ draft' = {[order |-> o, schedule |-> row[o]]}
  /\ UNCHANGED <<today, workers, status, row, plan, run, undo>>

\* In one transaction: the old plan out, the new one in.  It does not keep the
\* output it was made from: perDay is a memory of the model.
generateProductionPlan(d) ==
  /\ d \in draft /\ draft' = {}
  /\ LET s == d.schedule IN
     plan' = With(plan, d.order,
       [start |-> s.start, perDay |-> s.dailyOutput,
        days |-> distributeDailyPlanQty(100 * OrderOf[d.order].qty, s.dailyOutput, s.end - s.start + 1)])
  /\ UNCHANGED <<today, workers, status, row, run, undo>>

-----------------------------------------------------------------------------
(* What goes on besides *)

\* An order on its way: a user may schedule it by hand, without a row.
moveOn(o) ==
  /\ \/ status[o] = "Open" /\ status' = [status EXCEPT ![o] = "Scheduled"]
     \/ status[o] = "Scheduled" /\ status' = [status EXCEPT ![o] = "Closed"]
  /\ UNCHANGED <<today, workers, row, plan, run, undo, draft>>

\* Another day, with the workers it brings.
dayPasses ==
  /\ today < LastDay /\ today' = today + 1
  /\ workers' \in Attendances
  /\ UNCHANGED <<status, row, plan, run, undo, draft>>

Run == gatherOrders \/ pass \/ createRow \/ toScheduled \/ cleanup \/ endRun
Next ==
  \/ Run
  \/ \E o \in Orders : unscheduleLoad(o) \/ unscheduleOrder(o) \/ planLoad(o) \/ moveOn(o)
  \/ \E d \in draft : generateProductionPlan(d)
  \/ dayPasses

Spec == Init /\ [][Next]_vars

-----------------------------------------------------------------------------
\* No two schedules keep one line busy on one day, over any number of runs,
\* un-schedulings and failed assignments in between, as long as one run comes
\* at a time: what a pass promises for the orders it assigns, and the reading
\* of the committed rows for those before it.
NoDoubleBooking == \A o, p \in Scheduled :
  o # p /\ row[o].line = row[p].line => row[o].end < row[p].start \/ row[p].end < row[o].start

\* The sum of f over ids, as the number of the units it counts.
Total(f, ids) == Cardinality(UNION {{i} \X (1..f[i]) : i \in ids})

\* A plan plans the order, no more and no less, and asks nothing of the line it
\* cannot make: no day is negative, and the last one, which takes what is left,
\* exceeds the day's output by no more than its rounding, half a hundredth for
\* each day.  The days are counted from the exact output, the plan is
\* made from the rounded one.
PlanCoversOrder == \A o \in DOMAIN plan : LET days == plan[o].days IN
  /\ Total(days, DOMAIN days) = 100 * OrderOf[o].qty
  /\ \A d \in DOMAIN days : days[d] >= 0
  /\ 2 * days[Len(days)] <= 2 * plan[o].perDay + Len(days)

=============================================================================
