----------------------------- MODULE QueryHooks -----------------------------
(***************************************************************************)
(* The data hooks of the browser.  A query is the key its cache entry has  *)
(* and the facts its answer depends on; a mutation is the roles its        *)
(* endpoint admits, the facts that endpoint changes, and the key prefixes  *)
(* its onSuccess invalidates or removes.  Keys are the tuples of the       *)
(* query-keys files; "filters" stands for any filter object and "id" for   *)
(* the record the screen is about, which is the record that was written.   *)
(***************************************************************************)
EXTENDS Footprints, Sequences, SequencesExt

Query(hook, key, reads) == [hook |-> hook, key |-> key, reads |-> reads]
Mutation(hook, endpoint, invalidates, removes) ==
  [hook |-> hook, by |-> endpoint.by, changes |-> endpoint.changes,
   invalidates |-> invalidates, removes |-> removes]

\* A prefix covers every key that starts with it.
Covers(prefixes, q) == \E p \in prefixes : IsPrefix(p, q.key)

-----------------------------------------------------------------------------
(* The key factories.                                                      *)

ordersKeys == [lists |-> <<"orders", "list">>, detail |-> <<"orders", "detail", "id">>,
               history |-> <<"orders", "history", "id">>,
               closureSummary |-> <<"orders", "closure-summary", "id">>]
ctbKeys == [order |-> <<"ctb", "order", "id">>, dashboardLists |-> <<"ctb", "dashboard">>]
scheduleKeys == [order |-> <<"scheduling", "order", "id">>]
riskKeys == [recommendations |-> <<"risk", "recommendations", "id">>,
             atRiskLists |-> <<"risk", "at-risk-orders">>, summary |-> <<"risk", "summary">>]
productionPlanKeys == [plan |-> <<"productionPlan", "plan", "id">>,
                       planVsActual |-> <<"productionPlan", "plan-vs-actual", "id">>,
                       completionForecast |-> <<"productionPlan", "completion-forecast", "id">>]
productsKeys == [lists |-> <<"products", "list">>]
schedulingKeys == [lists |-> <<"scheduling", "list">>]
linesKeys == [lists |-> <<"lines", "list">>]
rmInventoryKeys == [lists |-> <<"rm-inventory", "list">>]
materialsKeys == [critical |-> <<"materials", "critical">>,
                  detail |-> <<"materials", "detail", "id">>,
                  shortagesLists |-> <<"materials", "shortages">>,
                  summary |-> <<"materials", "summary">>]
bomKeys == [bySku |-> <<"bom", "sku", "id">>]
bomExplosionKeys == [sku |-> <<"bom-explosion", "sku", "id", "qty">>]
prKeys == [lists |-> <<"purchase-requisitions", "list">>,
           detail |-> <<"purchase-requisitions", "detail", "id">>]
dailyLogsKeys == [lists |-> <<"daily-logs", "list">>, detail |-> <<"daily-logs", "detail", "id">>,
                  downtimeSummaries |-> <<"daily-logs", "downtime-summary">>]
oeeKeys == [lists |-> <<"oee", "list">>, summaries |-> <<"oee", "summary">>,
            byLines |-> <<"oee", "by-line">>]
qcKeys == [batchLists |-> <<"qc", "batches", "list">>,
           batchDetails |-> <<"qc", "batches", "detail">>]
testingPlansKeys == [lists |-> <<"testing-plans", "list">>]
qcInspectionsKeys == [lists |-> <<"qcInspections", "list">>,
                      detail |-> <<"qcInspections", "detail", "id">>,
                      summary |-> <<"qcInspections", "summary", "id">>]
hrTeamsKeys == [lists |-> <<"hr-teams", "list">>]
usersKeys == [lists |-> <<"users", "list">>]
machinesKeys == [lists |-> <<"machines", "list">>]
warehousesKeys == [lists |-> <<"warehouses", "list">>]
fgBatchesKeys == [all |-> <<"fg-batches">>, lists |-> <<"fg-batches", "list">>,
                  dispatchEligibleLists |-> <<"fg-batches", "dispatch-eligible">>,
                  detail |-> <<"fg-batches", "detail", "id">>,
                  movements |-> <<"fg-batches", "movements", "id">>,
                  trace |-> <<"fg-batches", "trace", "id">>,
                  forInspection |-> <<"fg-batches", "for-inspection", "id", "inspection">>]
salesOrdersKeys == [all |-> <<"sales-orders">>, lists |-> <<"sales-orders", "list">>,
                    detail |-> <<"sales-orders", "detail", "id">>,
                    reservations |-> <<"sales-orders", "reservations", "id">>]
fgDispatchesKeys == [lists |-> <<"fg-dispatches", "list">>,
                     detail |-> <<"fg-dispatches", "detail", "id">>]
fgDashboardKeys == [all |-> <<"fg-dashboard">>]
searchKeys == [query |-> <<"search", "q">>]
orderStatusDashboardKeys == [list |-> <<"orderStatusDashboard", "list">>]

Filtered(key) == Append(key, "filters")

-----------------------------------------------------------------------------
(* features/orders                                                         *)

useOrdersList == Query("useOrdersList", Filtered(ordersKeys.lists), listOrders)
useOrder == Query("useOrder", ordersKeys.detail, getOrderById)
useOrderHistory == Query("useOrderHistory", ordersKeys.history, getOrderHistory)
useOrderClosureSummary ==
  Query("useOrderClosureSummary", ordersKeys.closureSummary, getOrderClosureSummary)
useCtbForOrder == Query("useCtbForOrder", ctbKeys.order, getCtbForOrder.reads)
useScheduleForOrder == Query("useScheduleForOrder", scheduleKeys.order, getScheduleForOrder)
useRiskRecommendations ==
  Query("useRiskRecommendations", riskKeys.recommendations, getRiskRecommendationsForOrder)
useProductionPlan == Query("useProductionPlan", productionPlanKeys.plan, getProductionPlan)
usePlanVsActual == Query("usePlanVsActual", productionPlanKeys.planVsActual, getPlanVsActual)
useCompletionForecast ==
  Query("useCompletionForecast", productionPlanKeys.completionForecast, getCompletionForecast)
useProductsForPicker ==
  Query("useProductsForPicker", Filtered(productsKeys.lists), listProducts)

useCreateOrder == Mutation("useCreateOrder", createOrder, {ordersKeys.lists}, {})
\* Only ever called with the special requirements.
useUpdateOrder ==
  Mutation("useUpdateOrder", [updateOrder EXCEPT !.changes = {"order.notes"}],
           {ordersKeys.detail, ordersKeys.lists}, {})
\* Mutant: the history is left as it was.
UpdateStatusKeepsHistory(newStatus) ==
  Mutation("useUpdateOrderStatus", updateOrderStatus(newStatus),
           {ordersKeys.detail, ordersKeys.lists, ordersKeys.closureSummary}, {})
useUpdateOrderStatus(newStatus) ==
  Mutation("useUpdateOrderStatus", updateOrderStatus(newStatus),
           {ordersKeys.detail, ordersKeys.history, ordersKeys.lists}
             \cup (IF newStatus = "Closed" THEN {ordersKeys.closureSummary} ELSE {}), {})
useDeleteOrder ==
  Mutation("useDeleteOrder", deleteOrder, {ordersKeys.lists}, {ordersKeys.detail})
useGenerateProductionPlan ==
  Mutation("useGenerateProductionPlan", generateProductionPlan,
           {productionPlanKeys.plan, productionPlanKeys.planVsActual}, {})

(* features/scheduling, features/ctb, features/risk                        *)

useScheduleList == Query("useScheduleList", Filtered(schedulingKeys.lists), listSchedule)
useLinesForFilter == Query("useLinesForFilter", linesKeys.lists, listLines)
useRunScheduling ==
  Mutation("useRunScheduling", runScheduling,
           {schedulingKeys.lists, ordersKeys.lists, ordersKeys.detail, ordersKeys.history}, {})
useUnscheduleOrder ==
  Mutation("useUnscheduleOrder", unscheduleOrder,
           {schedulingKeys.lists, ordersKeys.lists, ordersKeys.detail, ordersKeys.history}, {})

useCtbDashboard == Query("useCtbDashboard", Filtered(ctbKeys.dashboardLists), getCtbDashboard)
useCtbCounts == [useCtbDashboard EXCEPT !.hook = "useCtbCounts"]
useRecheckAllCtb ==
  Mutation("useRecheckAllCtb", recheckAllCtb, {ctbKeys.dashboardLists, ordersKeys.lists}, {})

useAtRiskOrders == Query("useAtRiskOrders", Filtered(riskKeys.atRiskLists), listAtRiskOrders)
useRiskSummary == Query("useRiskSummary", riskKeys.summary, getRiskSummary)

-----------------------------------------------------------------------------
(* features/bom, features/rm-inventory, features/materials and              *)
(* features/purchase-requisitions                                          *)

useBomBySku == Query("useBomBySku", bomKeys.bySku, getBomByModelRef)
useSkuExplosion == Query("useSkuExplosion", bomExplosionKeys.sku, explodeSku)
useCreateBomComponent ==
  Mutation("useCreateBomComponent", createBomComponent, {bomKeys.bySku}, {})
useUpdateBomComponent ==
  Mutation("useUpdateBomComponent", updateBomComponent, {bomKeys.bySku}, {})
useDeleteBomComponent ==
  Mutation("useDeleteBomComponent", deleteBomComponent, {bomKeys.bySku}, {})
useBulkImportBom == Mutation("useBulkImportBom", bulkImportBom, {bomKeys.bySku}, {})

useRmInventoryList == Query("useRmInventoryList", Filtered(rmInventoryKeys.lists), listRmInventory)
useCriticalParts == Query("useCriticalParts", materialsKeys.critical, getCriticalParts)
useMaterialDetail == Query("useMaterialDetail", materialsKeys.detail, getMaterialDetail)
invalidatePartWrites == {materialsKeys.detail, rmInventoryKeys.lists, materialsKeys.critical}
useCreateRmInventory ==
  Mutation("useCreateRmInventory", createRmInventory, {rmInventoryKeys.lists}, {})
useDeleteRmInventory ==
  Mutation("useDeleteRmInventory", deleteRmInventory,
           {rmInventoryKeys.lists, materialsKeys.critical}, {materialsKeys.detail})
useAdjustStock == Mutation("useAdjustStock", adjustStock, invalidatePartWrites, {})
useSetCriticalThreshold ==
  Mutation("useSetCriticalThreshold", setCriticalThreshold, invalidatePartWrites, {})

useMaterialShortages ==
  Query("useMaterialShortages", Filtered(materialsKeys.shortagesLists), getShortagesByPart)
useMaterialsSummary == Query("useMaterialsSummary", materialsKeys.summary, getMaterialsSummary)

usePrList == Query("usePrList", Filtered(prKeys.lists), listPurchaseRequisitions)
usePurchaseRequisition ==
  Query("usePurchaseRequisition", prKeys.detail, getPurchaseRequisitionById)
useGeneratePr == Mutation("useGeneratePr", generatePurchaseRequisition, {prKeys.lists}, {})
useUpdatePrStatus(newStatus) ==
  Mutation("useUpdatePrStatus", updatePrStatus(newStatus),
           {prKeys.detail, prKeys.lists}
             \cup (IF newStatus = "Fulfilled"
                   THEN {rmInventoryKeys.lists, materialsKeys.critical, materialsKeys.detail}
                   ELSE {}), {})

-----------------------------------------------------------------------------
(* features/daily-logs, features/oee, features/qc                          *)

useDailyLogsList == Query("useDailyLogsList", Filtered(dailyLogsKeys.lists), listDailyLogs)
useDailyLog == Query("useDailyLog", dailyLogsKeys.detail, getDailyLogById)
useDowntimeByReason ==
  Query("useDowntimeByReason", Filtered(dailyLogsKeys.downtimeSummaries), downtimeByReason)
useCreateDailyLog ==
  Mutation("useCreateDailyLog", createDailyLog,
           {dailyLogsKeys.lists, dailyLogsKeys.downtimeSummaries}, {})
useUpdateDailyLog ==
  Mutation("useUpdateDailyLog", updateDailyLog, {dailyLogsKeys.detail, dailyLogsKeys.lists}, {})
invalidateDowntimeWrites ==
  {dailyLogsKeys.detail, dailyLogsKeys.lists, dailyLogsKeys.downtimeSummaries}
useAddDowntimeEntry ==
  Mutation("useAddDowntimeEntry", addDowntimeEntry, invalidateDowntimeWrites, {})
useRemoveDowntimeEntry ==
  Mutation("useRemoveDowntimeEntry", removeDowntimeEntry, invalidateDowntimeWrites, {})

useOeeList == Query("useOeeList", Filtered(oeeKeys.lists), listOee)
useOeeSummary == Query("useOeeSummary", Filtered(oeeKeys.summaries), getOeeSummary)
useOeeByLine == Query("useOeeByLine", Filtered(oeeKeys.byLines), getOeeByLine)

useQcBatchesList == Query("useQcBatchesList", Filtered(qcKeys.batchLists), listQcBatches)
useQcBatch == Query("useQcBatch", Append(qcKeys.batchDetails, "id"), getQcBatchByNumber)
useGenerateQcBatches ==
  Mutation("useGenerateQcBatches", generateQcBatches, {qcKeys.batchLists}, {})
useTestingPlansList ==
  Query("useTestingPlansList", Filtered(testingPlansKeys.lists), listTestingPlans)
invalidateTestingPlanWrites ==
  {testingPlansKeys.lists, qcKeys.batchLists, qcKeys.batchDetails}
useCreateTestingPlan ==
  Mutation("useCreateTestingPlan", createTestingPlan, invalidateTestingPlanWrites, {})
useUpdateTestingPlan ==
  Mutation("useUpdateTestingPlan", updateTestingPlan, invalidateTestingPlanWrites, {})
useDeleteTestingPlan ==
  Mutation("useDeleteTestingPlan", deleteTestingPlan, invalidateTestingPlanWrites, {})
useQcInspectionsList ==
  Query("useQcInspectionsList", Filtered(qcInspectionsKeys.lists), listQcInspections)
useQcInspection == Query("useQcInspection", qcInspectionsKeys.detail, getQcInspectionById)
useQcInspectionSummary ==
  Query("useQcInspectionSummary", qcInspectionsKeys.summary, getQcInspectionSummary)
useCreateQcInspection ==
  Mutation("useCreateQcInspection", createQcInspection,
           {qcInspectionsKeys.lists, qcInspectionsKeys.summary, ordersKeys.detail}, {})

-----------------------------------------------------------------------------
(* Finished goods: features/fg-batches, fg-dispatch, sales-orders,          *)
(* fg-dashboard, warehouses                                                *)

useFgBatchesList == Query("useFgBatchesList", Filtered(fgBatchesKeys.lists), listFgBatches)
useFgBatch == Query("useFgBatch", fgBatchesKeys.detail, getFgBatchByNo)
useDispatchEligibleFgBatches ==
  Query("useDispatchEligibleFgBatches", Filtered(fgBatchesKeys.dispatchEligibleLists),
        listDispatchEligibleFgBatches)
useFgMovements == Query("useFgMovements", fgBatchesKeys.movements, listFgMovements)
useFgBatchTrace == Query("useFgBatchTrace", fgBatchesKeys.trace, getFgBatchTrace)
useFgBatchForInspection ==
  Query("useFgBatchForInspection", fgBatchesKeys.forInspection, listFgBatches)
invalidateBatchWrite(forSalesOrder) ==
  {fgBatchesKeys.detail, fgBatchesKeys.movements, fgBatchesKeys.trace, fgBatchesKeys.lists,
   fgBatchesKeys.dispatchEligibleLists, fgDashboardKeys.all}
    \cup (IF forSalesOrder
          THEN {salesOrdersKeys.detail, salesOrdersKeys.reservations, salesOrdersKeys.lists}
          ELSE {})
useGenerateFgBatch ==
  Mutation("useGenerateFgBatch", generateFgBatch,
           {fgBatchesKeys.lists, fgBatchesKeys.dispatchEligibleLists, fgDashboardKeys.all,
            fgBatchesKeys.forInspection}, {})
useTransferFgBatch ==
  Mutation("useTransferFgBatch", transferFgBatch, invalidateBatchWrite(FALSE), {})
useHoldFgBatch == Mutation("useHoldFgBatch", holdFgBatch, invalidateBatchWrite(FALSE), {})
useReleaseHoldFgBatch ==
  Mutation("useReleaseHoldFgBatch", releaseHoldFgBatch, invalidateBatchWrite(FALSE), {})
useReserveFgBatch ==
  Mutation("useReserveFgBatch", reserveFgBatch, invalidateBatchWrite(TRUE), {})
useCancelReservation(knowsBatch) ==
  Mutation("useCancelReservation", cancelReservation,
           IF knowsBatch THEN invalidateBatchWrite(TRUE)
           ELSE {fgBatchesKeys.all, fgDashboardKeys.all, salesOrdersKeys.detail,
                 salesOrdersKeys.reservations, salesOrdersKeys.lists}, {})

useFgDispatchesList ==
  Query("useFgDispatchesList", Filtered(fgDispatchesKeys.lists), listDispatches)
useDispatchesForSalesOrder ==
  Query("useDispatchesForSalesOrder", Filtered(fgDispatchesKeys.lists), listDispatches)
useFgDispatch == Query("useFgDispatch", fgDispatchesKeys.detail, getDispatchByNo)
useCreateDispatch(forSalesOrder) ==
  Mutation("useCreateDispatch", createDispatch(forSalesOrder),
           {fgDispatchesKeys.lists, fgBatchesKeys.lists, fgBatchesKeys.dispatchEligibleLists,
            fgDashboardKeys.all, fgBatchesKeys.detail, fgBatchesKeys.movements,
            fgBatchesKeys.trace}
             \cup (IF forSalesOrder THEN {salesOrdersKeys.lists, salesOrdersKeys.all} ELSE {}), {})

useSalesOrdersList == Query("useSalesOrdersList", Filtered(salesOrdersKeys.lists), listSalesOrders)
useSalesOrdersForPicker ==
  Query("useSalesOrdersForPicker", Filtered(salesOrdersKeys.lists), listSalesOrders)
useSalesOrder == Query("useSalesOrder", salesOrdersKeys.detail, getSalesOrderByNo)
useSalesOrderReservations ==
  Query("useSalesOrderReservations", salesOrdersKeys.reservations, listReservationsForSalesOrder)
useCreateSalesOrder ==
  Mutation("useCreateSalesOrder", createSalesOrder, {salesOrdersKeys.lists}, {})
useUpdateSalesOrder ==
  Mutation("useUpdateSalesOrder", updateSalesOrder,
           {salesOrdersKeys.detail, salesOrdersKeys.lists}, {})
useDeleteSalesOrder ==
  Mutation("useDeleteSalesOrder", deleteSalesOrder,
           {salesOrdersKeys.lists, fgDashboardKeys.all}, {salesOrdersKeys.detail})

useFgDashboardSummary ==
  Query("useFgDashboardSummary", fgDashboardKeys.all \o <<"summary", "filters">>,
        getFgDashboardSummary)

useWarehousesList == Query("useWarehousesList", Filtered(warehousesKeys.lists), listWarehouses)
useWarehousesForPicker ==
  Query("useWarehousesForPicker", Filtered(warehousesKeys.lists), listWarehouses)
useCreateWarehouse == Mutation("useCreateWarehouse", createWarehouse, {warehousesKeys.lists}, {})
useUpdateWarehouse == Mutation("useUpdateWarehouse", updateWarehouse, {warehousesKeys.lists}, {})
useDeleteWarehouse == Mutation("useDeleteWarehouse", deleteWarehouse, {warehousesKeys.lists}, {})

-----------------------------------------------------------------------------
(* features/admin, and the dashboards that span the modules                *)

useProductsList == Query("useProductsList", Filtered(productsKeys.lists), listProducts)
useCreateProduct == Mutation("useCreateProduct", createProduct, {productsKeys.lists}, {})
useUpdateProduct == Mutation("useUpdateProduct", updateProduct, {productsKeys.lists}, {})
useDeleteProduct == Mutation("useDeleteProduct", deleteProduct, {productsKeys.lists}, {})
useLinesList == Query("useLinesList", Filtered(linesKeys.lists), listLines)
useCreateLine == Mutation("useCreateLine", createLine, {linesKeys.lists}, {})
useUpdateLine == Mutation("useUpdateLine", updateLine, {linesKeys.lists}, {})
useDeleteLine == Mutation("useDeleteLine", deleteLine, {linesKeys.lists}, {})
useMachinesList == Query("useMachinesList", Filtered(machinesKeys.lists), listMachines)
useCreateMachine == Mutation("useCreateMachine", createMachine, {machinesKeys.lists}, {})
useUpdateMachine == Mutation("useUpdateMachine", updateMachine, {machinesKeys.lists}, {})
useDeleteMachine == Mutation("useDeleteMachine", deleteMachine, {machinesKeys.lists}, {})
useHrTeamsList == Query("useHrTeamsList", Filtered(hrTeamsKeys.lists), listHrTeams)
useCreateHrTeam == Mutation("useCreateHrTeam", createHrTeam, {hrTeamsKeys.lists}, {})
useUpdateHrTeam == Mutation("useUpdateHrTeam", updateHrTeam, {hrTeamsKeys.lists}, {})
useDeleteHrTeam == Mutation("useDeleteHrTeam", deleteHrTeam, {hrTeamsKeys.lists}, {})
useUsersList == Query("useUsersList", Filtered(usersKeys.lists), listUsers)
useCreateUser == Mutation("useCreateUser", createUser, {usersKeys.lists}, {})
useUpdateUser == Mutation("useUpdateUser", updateUser, {usersKeys.lists}, {})

useSpotlightSearch == Query("useSpotlightSearch", searchKeys.query, search)
useDashboardOverview ==
  Query("useDashboardOverview", <<"dashboard", "overview", "days">>, getDashboardOverview)
useOrderStatusDashboard ==
  Query("useOrderStatusDashboard", orderStatusDashboardKeys.list, listOrderStatusDashboard)
=============================================================================
