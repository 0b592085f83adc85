----------------------------- MODULE Footprints -----------------------------
(***************************************************************************)
(* What the services of the backend depend on and change, as far as the    *)
(* browser can tell.  A service function that answers a GET is the set of  *)
(* facts its answer is computed from; one that answers a write is a record *)
(* of the roles its route admits and the facts it changes.  A fact is a    *)
(* table, or a group of columns of one where the screens tell them apart   *)
(* ("order.status", "stock").  Left out of a read: the look-up that only   *)
(* decides between an answer and a 404.                                    *)
(***************************************************************************)

\* The roles of the schema; authorize() always admits Admin and adds the roles it is given.
Roles == {"Admin", "StoreManager", "ProductionManager"}
authorize(roles) == {"Admin"} \cup roles

STORE_ONLY == {"StoreManager"}
PRODUCTION_ONLY == {"ProductionManager"}
ADMIN_ONLY == {}

\* The roles whose writes each module accepts (the modules the browser writes to).
PERMISSIONS ==
  [rmInventory |-> STORE_ONLY, bom |-> STORE_ONLY, ctb |-> STORE_ONLY,
   materials |-> STORE_ONLY, purchaseRequisitions |-> STORE_ONLY,
   orders |-> PRODUCTION_ONLY, dailyLogs |-> PRODUCTION_ONLY,
   scheduling |-> PRODUCTION_ONLY, productionPlan |-> PRODUCTION_ONLY,
   qcBatches |-> PRODUCTION_ONLY, qcInspections |-> PRODUCTION_ONLY,
   qcTestingPlans |-> ADMIN_ONLY, hrTeams |-> PRODUCTION_ONLY,
   products |-> ADMIN_ONLY, lines |-> ADMIN_ONLY, machines |-> ADMIN_ONLY,
   warehouses |-> ADMIN_ONLY, fgBatch |-> PRODUCTION_ONLY,
   fgStockMovements |-> STORE_ONLY, salesOrders |-> STORE_ONLY,
   fgReservations |-> STORE_ONLY, fgDispatches |-> STORE_ONLY,
   users |-> ADMIN_ONLY]

Writes(module, facts) == [by |-> authorize(PERMISSIONS[module]), changes |-> facts]

-----------------------------------------------------------------------------
(* Orders, and what depends on them.  A deleted order takes its history,   *)
(* schedule, plan, batches, inspections and snapshots with it (ON DELETE   *)
(* CASCADE).                                                               *)

OrderRow == {"order", "order.notes", "order.status", "order.ctb"}

listOrders == OrderRow
getOrderById == OrderRow
getOrderHistory == {"history"}
getOrderClosureSummary == {"closure"}
createOrder == Writes("orders", OrderRow)
updateOrder == Writes("orders", {"order", "order.notes"})
updateOrderStatus(newStatus) ==
  Writes("orders", {"order.status", "history"}
                     \cup (IF newStatus = "Closed" THEN {"closure"} ELSE {}))
deleteOrder ==
  Writes("orders", OrderRow \cup {"history", "schedule", "plan", "qcBatch", "inspection",
                                  "requirement", "shortage"})

-----------------------------------------------------------------------------
(* Material: bills of material, stock, clear-to-build, requisitions.       *)

getBomByModelRef == {"bom"}
createBomComponent == Writes("bom", {"bom"})
updateBomComponent == Writes("bom", {"bom"})
deleteBomComponent == Writes("bom", {"bom"})
bulkImportBom == Writes("bom", {"bom"})

fetchBomTree == {"bom", "product"}
explodeSku == fetchBomTree
getOrComputeOrderBomSnapshot == {"requirement", "order"} \cup fetchBomTree

listRmInventory == {"part", "stock", "threshold"}
createRmInventory == Writes("rmInventory", {"part"})
deleteRmInventory == Writes("rmInventory", {"part", "stock", "threshold", "rmTx"})
performStockAdjustment == {"stock", "rmTx"}
adjustStock == Writes("rmInventory", performStockAdjustment)

\* Evaluating an order reads the stock and its snapshot, and stores the verdict: a GET writes.
fetchStockMap == {"stock", "part"}
liveEvaluateOrder == [reads |-> fetchStockMap \cup getOrComputeOrderBomSnapshot,
                      changes |-> {"order.ctb", "shortage", "requirement"}]
cachedResultFor == {"order.ctb", "shortage"}
getCtbForOrder == [reads |-> cachedResultFor \cup liveEvaluateOrder.reads,
                   changes |-> liveEvaluateOrder.changes]
getCtbDashboard == {"order", "order.status", "order.ctb", "shortage"}
getCtbBreakdown == {"order.status", "order.ctb"}
recheckAllCtb == Writes("ctb", {"order.ctb", "shortage", "requirement"})

fetchShortageJoinRows == {"shortage", "order", "order.status", "order.ctb"}
getShortagesByPart == fetchShortageJoinRows
resolvePartNames == {"bom"}
getCriticalParts == {"stock", "threshold"} \cup resolvePartNames
setCriticalThreshold == Writes("materials", {"threshold"})
getMaterialsSummary == fetchShortageJoinRows \cup getCriticalParts
getMaterialDetail == {"part", "stock", "threshold", "rmTx"} \cup fetchShortageJoinRows
                       \cup resolvePartNames

generatePurchaseRequisition == Writes("purchaseRequisitions", {"pr", "pr.status", "requirement"})
updatePrStatus(newStatus) ==
  Writes("purchaseRequisitions",
         {"pr.status"} \cup (IF newStatus = "Fulfilled" THEN performStockAdjustment ELSE {}))
listPurchaseRequisitions == {"pr", "pr.status"}
getPrStatusBreakdown == {"pr.status"}
getPurchaseRequisitionById == {"pr", "pr.status"}

-----------------------------------------------------------------------------
(* The floor: schedules, plans, daily logs, OEE, quality.                  *)

runScheduling == Writes("scheduling", {"schedule", "order.status", "history"})
unscheduleOrder == Writes("scheduling", {"schedule", "order.status", "history"})
listSchedule == {"schedule"}
getScheduleForOrder == {"schedule"}

listAtRiskOrders == {"schedule", "order"}
computeLineAvailableFrom == {"schedule"}
getRiskRecommendationsForOrder ==
  {"order", "schedule", "product", "line", "hrTeam"} \cup computeLineAvailableFrom
getRiskSummary == {"schedule", "order"}

generateProductionPlan == Writes("productionPlan", {"plan"})
getProductionPlan == {"plan"}
getPlanVsActual == getProductionPlan \cup {"log", "downtime"}
getCumulativePlannedQtyToDate == {"plan"}

listDailyLogs == {"log", "downtime"}
getDailyLogById == {"log", "downtime"}
createDailyLog == Writes("dailyLogs", {"log", "downtime"})
updateDailyLog == Writes("dailyLogs", {"log"})
addDowntimeEntry == Writes("dailyLogs", {"downtime"})
removeDowntimeEntry == Writes("dailyLogs", {"downtime"})
downtimeByReason == {"downtime", "log"}

buildOeeRow == {"log", "downtime", "product"}
listOee == buildOeeRow
getOeeSummary == buildOeeRow
getOeeByLine == buildOeeRow

listQcBatches == {"qcBatch", "testingPlan"}
getQcBatchByNumber == {"qcBatch", "testingPlan", "order", "order.status"}
generateQcBatches == Writes("qcBatches", {"qcBatch"})
listTestingPlans == {"testingPlan"}
createTestingPlan == Writes("qcTestingPlans", {"testingPlan"})
updateTestingPlan == Writes("qcTestingPlans", {"testingPlan"})
deleteTestingPlan == Writes("qcTestingPlans", {"testingPlan"})

createQcInspection == Writes("qcInspections", {"inspection"})
listQcInspections == {"inspection"}
getQcInspectionById == {"inspection"}
getQcInspectionSummary == {"inspection", "order"}
getCompletionForecast == {"order"} \cup getQcInspectionSummary

-----------------------------------------------------------------------------
(* Finished goods.                                                         *)

logFgMovement == {"movement"}
recomputeSalesOrderStatus == {"salesOrder"}
FgBatchRow == {"fgBatch"}

generateFgBatch == Writes("fgBatch", FgBatchRow \cup logFgMovement)
listFgBatches == FgBatchRow
listDispatchEligibleFgBatches == FgBatchRow \cup {"reservation"}
getFgBatchByNo == FgBatchRow \cup {"order", "order.status", "inspection"}
transferFgBatch == Writes("fgStockMovements", FgBatchRow \cup logFgMovement)
holdFgBatch == Writes("fgStockMovements", FgBatchRow \cup logFgMovement)
releaseHoldFgBatch == Writes("fgStockMovements", FgBatchRow \cup logFgMovement)
reserveFgBatch ==
  Writes("fgReservations", FgBatchRow \cup {"reservation"} \cup logFgMovement
                             \cup recomputeSalesOrderStatus)
cancelReservation ==
  Writes("fgReservations", FgBatchRow \cup {"reservation"} \cup logFgMovement
                             \cup recomputeSalesOrderStatus)
listReservationsForSalesOrder == {"reservation"}
listFgMovements == {"movement"}
getFgDashboardSummary == FgBatchRow \cup {"dispatch"}
getFgBatchTrace ==
  getFgBatchByNo \cup {"schedule", "product", "reservation", "salesOrder", "dispatch"}

listSalesOrders == {"salesOrder"}
getSalesOrderByNo == {"salesOrder"}
createSalesOrder == Writes("salesOrders", {"salesOrder"})
updateSalesOrder == Writes("salesOrders", {"salesOrder"})
deleteSalesOrder == Writes("salesOrders", {"salesOrder"})

processDispatchLineItem == FgBatchRow \cup {"reservation", "dispatch"} \cup logFgMovement
createDispatch(forSalesOrder) ==
  Writes("fgDispatches", processDispatchLineItem
                           \cup (IF forSalesOrder THEN recomputeSalesOrderStatus ELSE {}))
listDispatches == {"dispatch"}
getDispatchByNo == {"dispatch"}

-----------------------------------------------------------------------------
(* Master data and users.                                                  *)

listProducts == {"product"}
createProduct == Writes("products", {"product"})
updateProduct == Writes("products", {"product"})
deleteProduct == Writes("products", {"product"})
listLines == {"line"}
createLine == Writes("lines", {"line"})
updateLine == Writes("lines", {"line"})
deleteLine == Writes("lines", {"line"})
listMachines == {"machine", "line"}
createMachine == Writes("machines", {"machine"})
updateMachine == Writes("machines", {"machine"})
deleteMachine == Writes("machines", {"machine"})
listHrTeams == {"hrTeam"}
createHrTeam == Writes("hrTeams", {"hrTeam"})
updateHrTeam == Writes("hrTeams", {"hrTeam"})
deleteHrTeam == Writes("hrTeams", {"hrTeam"})
listWarehouses == {"warehouse"}
createWarehouse == Writes("warehouses", {"warehouse"})
updateWarehouse == Writes("warehouses", {"warehouse"})
deleteWarehouse == Writes("warehouses", {"warehouse"})
listUsers == {"user"}
createUser == Writes("users", {"user"})
updateUser == Writes("users", {"user"})

-----------------------------------------------------------------------------
(* What spans the modules: search and the dashboards.                      *)

search == OrderRow \cup {"schedule", "product", "line"}

getProductionOverTime == {"log"}
getPlanningHealth == {"order", "order.status", "schedule"} \cup getRiskSummary
getMaterialsHealth == getCtbBreakdown \cup getMaterialsSummary \cup getPrStatusBreakdown
getManagementMetrics == getOeeSummary \cup {"line", "history", "order"}
getDashboardOverview == getProductionOverTime \cup getPlanningHealth
                          \cup getMaterialsHealth \cup getManagementMetrics

buildDashboardRow == {"schedule", "log"} \cup getQcInspectionSummary
                       \cup getCompletionForecast \cup getCumulativePlannedQtyToDate
listOrderStatusDashboard == {"order", "order.status"} \cup buildDashboardRow
=============================================================================
