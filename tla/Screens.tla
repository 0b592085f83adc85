------------------------------ MODULE Screens ------------------------------
(***************************************************************************)
(* The pages of the browser and the components they are put together from. *)
(* A screen is what matters of a component to the rest: the queries it     *)
(* reads, the writes it offers and where each one leads, and the pages it  *)
(* links to.  Parts that appear only in some states of the record shown    *)
(* (a closed order, a log still editable) count as shown; parts that       *)
(* depend on the user's role are kept apart.                               *)
(***************************************************************************)
EXTENDS QueryHooks, TLC

Screen(shows, offers, leads) == [shows |-> shows, offers |-> offers, leads |-> leads]
Nothing == Screen({}, {}, {})
Together(parts) == Screen(UNION {p.shows : p \in parts}, UNION {p.offers : p \in parts},
                          UNION {p.leads : p \in parts})
Only(visible, part) == IF visible THEN part ELSE Nothing

\* What a write leads to: Stay, a page whether or not the user is still there (navigate
\* after mutateAsync), or a page only if the user is (the onSuccess given to mutate).
Stay(m) == [do |-> m, then |-> "", always |-> FALSE]
Then(m, to) == [do |-> m, then |-> to, always |-> TRUE]
ThenIfHere(m, to) == [do |-> m, then |-> to, always |-> FALSE]
Shows(queries) == Screen(queries, {}, {})
Offers(writes) == Screen({}, writes, {})
Leads(pages) == Screen({}, {}, pages)

\* The sets the pages test the user's role with.
StoreRoles == {"Admin", "StoreManager"}
ProductionRoles == {"Admin", "ProductionManager"}
AdminRoles == {"Admin"}

-----------------------------------------------------------------------------
(* features/orders                                                         *)

\* The next status of each flow, and the shortcuts beside it.
Following(flow, status) ==
  {flow[i + 1] : i \in {j \in 1..(Len(flow) - 1) : flow[j] = status}}
ORDER_STATUS_FLOW ==
  <<"Open", "PendingRM", "Scheduled", "Running", "QC", "DispatchReady", "Closed">>
getAllowedNextStatuses(current) ==
  Following(ORDER_STATUS_FLOW, current) \cup (IF current = "Open" THEN {"Scheduled"} ELSE {})
ChangeStatusActions ==
  Offers({Stay(useUpdateOrderStatus(next)) :
            next \in UNION {getAllowedNextStatuses(s) : s \in ToSet(ORDER_STATUS_FLOW)}})
DeleteOrderDialog == Offers({ThenIfHere(useDeleteOrder, "/orders")})
EditSpecialRequirementsDialog == Offers({Stay(useUpdateOrder)})
ClosureSummaryPanel == Shows({useOrderClosureSummary})
CompletionForecastPanel == Shows({useCompletionForecast})
CtbPanel == Shows({useCtbForOrder})
ProductionPlanPanel(canAct) ==
  Together({Shows({useScheduleForOrder, useProductionPlan, usePlanVsActual}),
            Only(canAct, Offers({Stay(useGenerateProductionPlan)}))})
QcInspectionsPanel(canAct) ==
  Together({Shows({useQcInspectionSummary}), Leads({"/qc-inspections"}),
            Only(canAct, Leads({"/qc-inspections/new"}))})
RiskPanel == Shows({useRiskRecommendations})
SchedulePanel == Shows({useScheduleForOrder})
StatusHistoryPanel == Shows({useOrderHistory})

OrderDetailPage(role) ==
  LET canAct == role \in ProductionRoles
  IN  Together({Shows({useOrder, useScheduleForOrder}), Leads({"/orders"}),
                Only(canAct, Together({DeleteOrderDialog, EditSpecialRequirementsDialog,
                                       ChangeStatusActions})),
                CtbPanel, SchedulePanel, RiskPanel, CompletionForecastPanel,
                ClosureSummaryPanel, ProductionPlanPanel(canAct), QcInspectionsPanel(canAct),
                StatusHistoryPanel})
SkuCombobox == Shows({useProductsForPicker})
CreateOrderPage ==
  Together({SkuCombobox, Offers({Then(useCreateOrder, "/orders/:orderId")}), Leads({"/orders"})})
OrdersListPage(role) ==
  Together({Shows({useOrdersList}), Leads({"/orders/:orderId"}),
            Only(role \in ProductionRoles, Leads({"/orders/new"}))})

OrderStatusDashboardPage ==
  Together({Shows({useOrderStatusDashboard, useLinesForFilter}), Leads({"/orders/:orderId"})})

-----------------------------------------------------------------------------
(* features/scheduling, features/risk, features/ctb                        *)

RunSchedulingDialog == Offers({Stay(useRunScheduling)})
UnscheduleDialog == Offers({Stay(useUnscheduleOrder)})
SchedulingPage(role) ==
  Together({Shows({useScheduleList, useLinesForFilter}), Leads({"/orders/:orderId"}),
            Only(role \in ProductionRoles, Together({RunSchedulingDialog, UnscheduleDialog}))})
RiskPage ==
  Together({Shows({useLinesForFilter, useRiskSummary, useAtRiskOrders}),
            Leads({"/orders/:orderId"})})
\* Rechecking asks for no role.
CtbDashboardPage ==
  Together({Shows({useCtbDashboard, useCtbCounts}), Offers({Stay(useRecheckAllCtb)}),
            Leads({"/orders/:orderId"})})

-----------------------------------------------------------------------------
(* features/bom, features/rm-inventory, features/materials and              *)
(* features/purchase-requisitions                                          *)

BulkImportDialog == Offers({Stay(useBulkImportBom)})
ComponentFormDialog == Offers({Stay(useCreateBomComponent), Stay(useUpdateBomComponent)})
DeleteComponentDialog == Offers({Stay(useDeleteBomComponent)})
BomComponentsPanel(canWrite) ==
  Together({Shows({useBomBySku}),
            Only(canWrite, Together({BulkImportDialog, ComponentFormDialog,
                                     DeleteComponentDialog}))})
\* Mutant: the link of the cell misses the route of the part.
RmStockCellMistyped ==
  Together({Shows({[useMaterialDetail EXCEPT !.reads = {"part", "stock"}]}),
            Leads({"/rm-inventory/part/:partId"})})
\* Of the part's detail the cell shows the stock.
RmStockCell ==
  Together({Shows({[useMaterialDetail EXCEPT !.reads = {"part", "stock"}]}),
            Leads({"/rm-inventory/:partId"})})
BomPage(role) ==
  Together({Shows({useProductsForPicker}), SkuCombobox, Leads({"/bom/explosion"}), RmStockCell,
            BomComponentsPanel(role \in StoreRoles)})
BomExplosionPage ==
  Together({SkuCombobox, Shows({useSkuExplosion}), Leads({"/bom", "/rm-inventory/:partId"})})

\* The threshold a new part may be given is sent by a second request, by hand: it
\* invalidates the critical parts only.
SetThresholdOfNewPart ==
  Mutation("CreateRmInventoryPage", setCriticalThreshold, {materialsKeys.critical}, {})
CreateRmInventoryPage ==
  Together({Offers({Then(useCreateRmInventory, "/rm-inventory/:partId"),
                    Then(SetThresholdOfNewPart, "/rm-inventory/:partId")}),
            Leads({"/rm-inventory"})})
DeletePartDialog == Offers({ThenIfHere(useDeleteRmInventory, "/rm-inventory")})
CriticalThresholdPanel == Offers({Stay(useSetCriticalThreshold)})
StockAdjustmentPanel == Offers({Stay(useAdjustStock)})
RmInventoryDetailPage(role) ==
  Together({Shows({useMaterialDetail, useCriticalParts}),
            Leads({"/rm-inventory", "/orders/:orderId"}),
            Only(role \in StoreRoles, Together({DeletePartDialog, StockAdjustmentPanel,
                                                CriticalThresholdPanel}))})
RmInventoryListPage(role) ==
  Together({Shows({useCriticalParts, useRmInventoryList}), Leads({"/rm-inventory/:partId"}),
            Only(role \in StoreRoles, Leads({"/rm-inventory/new"}))})
MaterialDashboardPage ==
  Together({Shows({useMaterialsSummary, useMaterialShortages, useCriticalParts}),
            Leads({"/orders/:orderId", "/rm-inventory/:partId"})})

PR_STATUS_FLOW == <<"Draft", "Sent", "Approved", "Fulfilled">>
getAllowedNextPrStatuses(current) ==
  Following(PR_STATUS_FLOW, current)
    \cup (IF current \in {"Draft", "Sent"} THEN {"Cancelled"} ELSE {})
PrStatusActions ==
  Offers({Stay(useUpdatePrStatus(next)) :
            next \in UNION {getAllowedNextPrStatuses(s) : s \in ToSet(PR_STATUS_FLOW)}})
PrDetailPage(role) ==
  Together({Shows({usePurchaseRequisition}), Leads({"/purchase-requisitions"}),
            Only(role \in StoreRoles, PrStatusActions)})
PrListPage(role) ==
  Together({Shows({usePrList}), Leads({"/purchase-requisitions/:prId"}),
            Only(role \in StoreRoles,
                 Offers({Then(useGeneratePr, "/purchase-requisitions/:prId")}))})

-----------------------------------------------------------------------------
(* features/daily-logs, features/oee, features/qc                          *)

AddDowntimeDialog == Offers({Stay(useAddDowntimeEntry)})
RemoveDowntimeDialog == Offers({Stay(useRemoveDowntimeEntry)})
DailyLogDetailPage(role) ==
  Together({Shows({useDailyLog}), Leads({"/daily-logs", "/orders/:orderId"}),
            Only(role \in ProductionRoles,
                 Together({AddDowntimeDialog, RemoveDowntimeDialog,
                           Leads({"/daily-logs/:logId/edit"})}))})
\* One component for both routes: with a log's id it edits, without one it creates.
DailyLogFormPage(isEdit) ==
  Together({Shows({useLinesForFilter, useProductsForPicker, useOrder}),
            IF isEdit
            THEN Screen({useDailyLog}, {Then(useUpdateDailyLog, "/daily-logs/:logId")},
                        {"/daily-logs", "/daily-logs/:logId"})
            ELSE Screen({}, {Then(useCreateDailyLog, "/daily-logs/:logId")}, {"/daily-logs"})})
DailyLogsListPage(role) ==
  Together({Shows({useLinesForFilter, useProductsForPicker, useDailyLogsList,
                   useDowntimeByReason}),
            Leads({"/daily-logs/:logId", "/orders/:orderId"}),
            Only(role \in ProductionRoles, Leads({"/daily-logs/new"}))})
OeePage ==
  Together({Shows({useLinesForFilter, useProductsForPicker, useOeeSummary, useOeeByLine,
                   useOeeList}),
            Leads({"/daily-logs/:logId"})})

GenerateResultPanel == Leads({"/testing-plans"})
QcBatchesListPage(role) ==
  Together({Shows({useQcBatchesList}), Leads({"/qc-batches/:batchNumber", "/orders/:orderId"}),
            Only(role \in ProductionRoles,
                 Together({Offers({Stay(useGenerateQcBatches)}), GenerateResultPanel}))})
QcBatchDetailPage ==
  Together({Shows({useQcBatch}), Leads({"/qc-batches", "/orders/:orderId", "/testing-plans"})})
TestingPlanFormDialog == Offers({Stay(useCreateTestingPlan), Stay(useUpdateTestingPlan)})
DeleteTestingPlanDialog == Offers({Stay(useDeleteTestingPlan)})
TestingPlansPage(role) ==
  Together({Shows({useTestingPlansList}),
            Only(role \in AdminRoles, Together({TestingPlanFormDialog,
                                                DeleteTestingPlanDialog}))})
GenerateFgBatchDialog ==
  Together({Shows({useWarehousesForPicker}),
            Offers({Then(useGenerateFgBatch, "/fg-batches/:fgBatchNo")})})
FgBatchPanel(canGenerate) ==
  Together({Shows({useOrder, useProductsForPicker, useFgBatchForInspection}),
            Leads({"/fg-batches/:fgBatchNo"}), Only(canGenerate, GenerateFgBatchDialog)})
LinkedOrderCard == Together({Shows({useOrder}), Leads({"/orders/:orderId"})})
LinkedDailyLogCard == Together({Shows({useDailyLog}), Leads({"/daily-logs/:logId"})})
QcInspectionDetailPage(role) ==
  Together({Shows({useQcInspection}), Leads({"/qc-inspections", "/orders/:orderId"}),
            FgBatchPanel(role \in ProductionRoles), LinkedOrderCard, LinkedDailyLogCard})
\* The form itself asks for no role; only links that do lead here.
QcInspectionFormPage ==
  Together({Shows({useOrder}), Leads({"/qc-inspections"}),
            Offers({Then(useCreateQcInspection, "/qc-inspections/:id")})})
QcInspectionsListPage(role) ==
  Together({Shows({useQcInspectionsList}), Leads({"/qc-inspections/:id", "/orders/:orderId"}),
            Only(role \in ProductionRoles, Leads({"/qc-inspections/new"}))})

-----------------------------------------------------------------------------
(* Finished goods                                                          *)

TransferFgBatchDialog ==
  Together({Shows({useWarehousesForPicker}), Offers({Stay(useTransferFgBatch)})})
HoldFgBatchDialog == Offers({Stay(useHoldFgBatch), Stay(useReleaseHoldFgBatch)})
ReserveFgBatchDialog ==
  Together({Shows({useSalesOrdersForPicker}), Offers({Stay(useReserveFgBatch)})})
CancelReservationDialog(knowsBatch) == Offers({Stay(useCancelReservation(knowsBatch))})
MovementLedgerPanel == Shows({useFgMovements})
ReservationsPanel(role) ==
  Together({Shows({useFgBatchTrace}), Leads({"/sales-orders/:salesOrderNo"}),
            Only(role \in StoreRoles, CancelReservationDialog(TRUE))})
TracePanel ==
  Together({Shows({useFgBatchTrace}),
            Leads({"/orders/:orderId", "/sales-orders/:salesOrderNo",
                   "/fg-dispatches/:dispatchNo"})})
FgBatchDetailPage(role) ==
  Together({Shows({useFgBatch}), Leads({"/fg-batches", "/orders/:orderId"}),
            Only(role \in StoreRoles, Together({TransferFgBatchDialog, HoldFgBatchDialog,
                                                ReserveFgBatchDialog})),
            MovementLedgerPanel, ReservationsPanel(role), TracePanel})
FgBatchesListPage ==
  Together({Shows({useWarehousesForPicker, useFgBatchesList}),
            Leads({"/fg-batches/:fgBatchNo", "/orders/:orderId"})})
FgDashboardPage == Shows({useFgDashboardSummary})

CreateDispatchPage ==
  Together({Shows({useSalesOrdersForPicker, useDispatchEligibleFgBatches}),
            Offers({Then(useCreateDispatch(forSalesOrder), "/fg-dispatches/:dispatchNo") :
                      forSalesOrder \in BOOLEAN}),
            Leads({"/fg-dispatches"})})
FgDispatchDetailPage ==
  Together({Shows({useFgDispatch, useSalesOrdersForPicker}),
            Leads({"/fg-dispatches", "/sales-orders/:salesOrderNo", "/fg-batches/:fgBatchNo"})})
FgDispatchesListPage(role) ==
  Together({Shows({useFgDispatchesList, useSalesOrdersForPicker}),
            Leads({"/fg-dispatches/:dispatchNo", "/sales-orders/:salesOrderNo"}),
            Only(role \in StoreRoles, Leads({"/fg-dispatches/new"}))})

CreateSalesOrderPage ==
  Together({SkuCombobox, Offers({Then(useCreateSalesOrder, "/sales-orders/:salesOrderNo")}),
            Leads({"/sales-orders"})})
ReservationRow(canAct) == Only(canAct, CancelReservationDialog(FALSE))
SalesOrderDetailPage(role) ==
  Together({Shows({useSalesOrder, useSalesOrderReservations, useDispatchesForSalesOrder}),
            Leads({"/sales-orders"}), ReservationRow(role \in StoreRoles)})
SalesOrdersListPage(role) ==
  Together({Shows({useSalesOrdersList}), Leads({"/sales-orders/:salesOrderNo"}),
            Only(role \in StoreRoles, Leads({"/sales-orders/new"}))})

WarehouseFormDialog == Offers({Stay(useCreateWarehouse), Stay(useUpdateWarehouse)})
DeleteWarehouseDialog == Offers({Stay(useDeleteWarehouse)})
WarehousesPage(role) ==
  Together({Shows({useWarehousesList}),
            Only(role \in AdminRoles, Together({WarehouseFormDialog, DeleteWarehouseDialog}))})

-----------------------------------------------------------------------------
(* features/admin and features/dashboard                                   *)

ProductFormDialog == Offers({Stay(useCreateProduct), Stay(useUpdateProduct)})
DeleteProductDialog == Offers({Stay(useDeleteProduct)})
ProductsPage(role) ==
  Together({Shows({useProductsList}),
            Only(role \in AdminRoles, Together({ProductFormDialog, DeleteProductDialog}))})
LineFormDialog == Offers({Stay(useCreateLine), Stay(useUpdateLine)})
DeleteLineDialog == Offers({Stay(useDeleteLine)})
LinesPage(role) ==
  Together({Shows({useLinesList}),
            Only(role \in AdminRoles, Together({LineFormDialog, DeleteLineDialog}))})
MachineFormDialog ==
  Together({Shows({useLinesForFilter}), Offers({Stay(useCreateMachine), Stay(useUpdateMachine)})})
DeleteMachineDialog == Offers({Stay(useDeleteMachine)})
MachinesPage(role) ==
  Together({Shows({useLinesForFilter, useMachinesList}),
            Only(role \in AdminRoles, Together({MachineFormDialog, DeleteMachineDialog}))})
HrTeamFormDialog ==
  Together({Shows({useLinesForFilter}), Offers({Stay(useCreateHrTeam), Stay(useUpdateHrTeam)})})
DeleteHrTeamDialog == Offers({Stay(useDeleteHrTeam)})
HrTeamsPage(role) ==
  Together({Shows({useLinesForFilter, useHrTeamsList}),
            Only(role \in ProductionRoles, Together({HrTeamFormDialog, DeleteHrTeamDialog}))})
CreateUserDialog == Offers({Stay(useCreateUser)})
EditUserDialog == Offers({Stay(useUpdateUser)})
UsersPage == Together({Shows({useUsersList}), CreateUserDialog, EditUserDialog})

DashboardPage == Shows({useDashboardOverview})

-----------------------------------------------------------------------------
(* The shell around every page, and the routes.                            *)

NavItem(to, roles) == [to |-> to, roles |-> roles]
NAV_GROUPS ==
  {NavItem(to, Roles) :
     to \in {"/", "/order-status-dashboard", "/orders", "/daily-logs", "/oee", "/scheduling",
             "/risk", "/rm-inventory", "/bom", "/ctb", "/materials", "/purchase-requisitions",
             "/qc-batches", "/qc-inspections", "/testing-plans", "/fg-dashboard", "/fg-batches",
             "/sales-orders", "/fg-dispatches", "/products", "/lines", "/machines",
             "/warehouses", "/hr-teams"}}
    \cup {NavItem("/users", {"Admin"})}
\* Mutant: the page of the users is anyone's to reach.
NavShowsUsersToAll(item, role) == TRUE
isNavItemVisible(item, role) == role \in item.roles
InstrumentRailContent(role) ==
  Leads({item.to : item \in {i \in NAV_GROUPS : isNavItemVisible(i, role)}})
SpotlightSearch ==
  Together({Shows({useSpotlightSearch}), Leads({"/orders/:orderId", "/products", "/lines"})})
AppShell(role) == Together({InstrumentRailContent(role), SpotlightSearch})

App(role) ==
  ("/" :> DashboardPage) @@
  ("/order-status-dashboard" :> OrderStatusDashboardPage) @@
  ("/orders" :> OrdersListPage(role)) @@
  ("/orders/new" :> CreateOrderPage) @@
  ("/orders/:orderId" :> OrderDetailPage(role)) @@
  ("/daily-logs" :> DailyLogsListPage(role)) @@
  ("/daily-logs/new" :> DailyLogFormPage(FALSE)) @@
  ("/daily-logs/:logId/edit" :> DailyLogFormPage(TRUE)) @@
  ("/daily-logs/:logId" :> DailyLogDetailPage(role)) @@
  ("/oee" :> OeePage) @@
  ("/scheduling" :> SchedulingPage(role)) @@
  ("/risk" :> RiskPage) @@
  ("/rm-inventory" :> RmInventoryListPage(role)) @@
  ("/rm-inventory/new" :> CreateRmInventoryPage) @@
  ("/rm-inventory/:partId" :> RmInventoryDetailPage(role)) @@
  ("/bom" :> BomPage(role)) @@
  ("/bom/explosion" :> BomExplosionPage) @@
  ("/ctb" :> CtbDashboardPage) @@
  ("/materials" :> MaterialDashboardPage) @@
  ("/purchase-requisitions" :> PrListPage(role)) @@
  ("/purchase-requisitions/:prId" :> PrDetailPage(role)) @@
  ("/qc-batches" :> QcBatchesListPage(role)) @@
  ("/qc-batches/:batchNumber" :> QcBatchDetailPage) @@
  ("/qc-inspections" :> QcInspectionsListPage(role)) @@
  ("/qc-inspections/new" :> QcInspectionFormPage) @@
  ("/qc-inspections/:id" :> QcInspectionDetailPage(role)) @@
  ("/testing-plans" :> TestingPlansPage(role)) @@
  ("/products" :> ProductsPage(role)) @@
  ("/lines" :> LinesPage(role)) @@
  ("/machines" :> MachinesPage(role)) @@
  ("/hr-teams" :> HrTeamsPage(role)) @@
  ("/users" :> UsersPage) @@
  ("/warehouses" :> WarehousesPage(role)) @@
  ("/fg-batches" :> FgBatchesListPage) @@
  ("/fg-batches/:fgBatchNo" :> FgBatchDetailPage(role)) @@
  ("/sales-orders" :> SalesOrdersListPage(role)) @@
  ("/sales-orders/new" :> CreateSalesOrderPage) @@
  ("/sales-orders/:salesOrderNo" :> SalesOrderDetailPage(role)) @@
  ("/fg-dispatches" :> FgDispatchesListPage(role)) @@
  ("/fg-dispatches/new" :> CreateDispatchPage) @@
  ("/fg-dispatches/:dispatchNo" :> FgDispatchDetailPage) @@
  ("/fg-dashboard" :> FgDashboardPage)
=============================================================================
