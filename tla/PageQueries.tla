---------------------------- MODULE PageQueries -----------------------------
(***************************************************************************)
(* What every routed page of the frontend reads through React Query and    *)
(* what its mutations invalidate: the useQuery and useMutation calls of    *)
(* src/frontend/src, one definition per page or modal.  A page's reads are *)
(* those of its useQuery calls whatever tab it shows; a query enabled by a *)
(* modal belongs to the modal.                                             *)
(***************************************************************************)
EXTENDS Sequences

(***************************************************************************)
(* A read has a key, the table its endpoint lists, the shape in which its  *)
(* queryFn stores the answer, the shapes its page can show, and when the   *)
(* mounting page fetches.  Shapes: "bare" is response.data.data (an array  *)
(* or one record), "wrapped" the whole response.data, "page" the first     *)
(* page of a list.  A key is a tuple; "url" is an id as the router gives   *)
(* it, a string, and "row" one as the server gives it, a number.           *)
(***************************************************************************)
Read(key, table, fills, shows) ==
    [key |-> key, table |-> table, fills |-> fills, shows |-> shows,
     mount |-> "if stale"]

Bare(key, table)  == Read(key, table, "bare", {"bare"})
Tidy(key, table)  == Read(key, table, "bare", {"bare", "wrapped"})
Body(key, table)  == Read(key, table, "wrapped", {"wrapped"})
Loose(key, table) == Read(key, table, "wrapped", {"wrapped", "bare"})
OnMount(read, when) == [read EXCEPT !.mount = when]

(* A mutation writes a table and then marks the keys that extend one of    *)
(* its prefixes.  invalidateQueries([...]) with an array instead of        *)
(* {queryKey: [...]} carries no filter: it marks every key.  "refetch" is  *)
(* refetchQueries, which fetches without marking.                          *)
Write(table, marks)   == [table |-> table, marks |-> marks, how |-> "mark"]
Refetch(table, marks) == [table |-> table, marks |-> marks, how |-> "refetch"]
Everything == {<<>>}

Uses(reads, writes) == [reads |-> reads, writes |-> writes]

-----------------------------------------------------------------------------
(* Record pages.                                                           *)

VendorsPage == Uses({Bare(<<"vendors">>, "vendors")},
                    {Write("vendors", {<<"vendors">>})})

StatusPage == Uses({Bare(<<"statuses">>, "statuses")},
                   {Write("statuses", {<<"statuses">>})})

PositionPage == Uses({Bare(<<"positions">>, "positions")},
                     {Write("positions", {<<"positions">>})})

SectionPage == Uses({Bare(<<"sections">>, "sections")},
                    {Write("sections", {<<"sections">>})})

BranchPage == Uses({Bare(<<"branches">>, "branches")},
                   {Write("branches", {<<"branches">>})})

EmployeePage ==
    Uses({Bare(<<"employees", "all">>, "employees"), Bare(<<"branches">>, "branches"),
          Bare(<<"sections">>, "sections"), Bare(<<"positions">>, "positions")},
         {Write("employees", {<<"employees">>})})

AssetCategoryPage == Uses({Bare(<<"asset-categories">>, "categories")},
                          {Write("categories", {<<"asset-categories">>})})

SubcategoryPage ==
    Uses({Bare(<<"asset-categories">>, "categories"),
          Bare(<<"asset-subcategories-list", "filter">>, "subcategories")},
         {Write("subcategories", {<<"asset-subcategories-list">>})})

\* A record saved with a new brand or model adds the brand or model too.
EquipmentReads ==
    {Bare(<<"equipment">>, "equipment"), Bare(<<"brands">>, "brands"),
     Bare(<<"brand-models", "b">>, "models"), Bare(<<"asset-categories">>, "categories"),
     Bare(<<"asset-subcategories", "c">>, "subcategories")}

EquipmentWrites ==
    {Write("brands", {<<"brands">>}), Write("models", {<<"brand-models", "b">>}),
     Write("equipment", {<<"equipment">>, <<"brands">>, <<"brand-models">>}),
     Write("equipment", {<<"equipment">>})}

SoftwareLicensePage ==
    Uses({Bare(<<"software-licenses">>, "licenses"), Bare(<<"employees">>, "employees"),
          Bare(<<"positions">>, "positions"), Bare(<<"sections">>, "sections"),
          Bare(<<"branches">>, "branches"), Bare(<<"asset-categories">>, "categories"),
          Read(<<"office-tools">>, "tools", "page", {"page", "bare"})},
         {Write("licenses", {<<"software-licenses">>})})

OfficeToolsTab == Uses({Bare(<<"office-tools">>, "tools")},
                       {Write("tools", {<<"office-tools">>})})

UserManagement == Uses({Bare(<<"admin-users">>, "users")},
                       {Write("users", {<<"admin-users">>})})

\* The users of the other systems: their tabs lie in the same page.
AmlaUsers == Uses({Bare(<<"amla-users">>, "amla")}, {Write("amla", {<<"amla-users">>})})

RiskProfilingUsers == Uses({Bare(<<"rp-users", "filters">>, "rp")},
                           {Write("rp", {<<"rp-users">>})})

-----------------------------------------------------------------------------
(* Repairs, workstations, replenishments.                                  *)

RepairsPage ==
    Uses({Body(<<"repairs", "filters">>, "repairs"), Bare(<<"repair-statistics">>, "repairs"),
          Loose(<<"assets", "repairs">>, "assets"), Loose(<<"vendors">>, "vendors")},
         {Write("repairs", Everything)})

RemarksModal == Uses({Body(<<"repair-remarks", "r">>, "remarks")},
                     {Write("remarks", Everything)})

WorkstationListPage ==
    Uses({OnMount(Bare(<<"workstations", "branch">>, "workstations"), "always"),
          Bare(<<"branches">>, "branches"), Bare(<<"positions">>, "positions"),
          Bare(<<"employees-all">>, "employees")},
         {Refetch("workstations", Everything)})

\* refetchOnMount: false, for the list only.
ReplenishmentPage ==
    Uses({OnMount(Body(<<"replenishments", "filters">>, "replenishments"), "never")},
         {Write("replenishments", {<<"replenishments">>}),
          Write("replenishments", {<<"replenishments">>, <<"assets">>, <<"workstations">>})})

\* Queries enabled by the filters or the form; the categories are used as they come.
ReplenishmentForm ==
    Uses({Bare(<<"asset-categories">>, "categories"),
          Bare(<<"asset-subcategories", "c">>, "subcategories"),
          Tidy(<<"statuses">>, "statuses"), Tidy(<<"vendors">>, "vendors"),
          Tidy(<<"branches">>, "branches"), Tidy(<<"workstations">>, "workstations"),
          Tidy(<<"equipment">>, "equipment")},
         {Write("vendors", {<<"vendors">>})})

-----------------------------------------------------------------------------
(* Assets.                                                                 *)

AssetsPageReads ==
    {Body(<<"assets", "list">>, "assets"), Body(<<"assets", "totals">>, "assets"),
     Bare(<<"branches">>, "branches"), Bare(<<"asset-categories">>, "categories"),
     Bare(<<"asset-subcategories", "c">>, "subcategories"),
     Bare(<<"filter-subcategories", "c">>, "subcategories"),
     Bare(<<"statuses">>, "statuses"), Bare(<<"vendors">>, "vendors"),
     Bare(<<"employees">>, "employees"), Bare(<<"equipment">>, "equipment"),
     Bare(<<"positions">>, "positions"), Bare(<<"workstations">>, "workstations")}

AssetsPageWrites ==
    {Write("assets", {<<"assets">>}), Write("vendors", {<<"vendors">>}),
     Write("assets", {<<"assets">>, <<"employeeAssets", "row">>, <<"employee", "row">>})}

AdvancedAssetTracker ==
    Uses({Bare(<<"filter-subcategories", "c">>, "subcategories"),
          OnMount(Body(<<"tracked-assets", "filters">>, "assets"), "always")}, {})

AssetComponentsPage ==
    Uses({Bare(<<"asset", "url">>, "assets"), Bare(<<"asset-components", "url">>, "components"),
          Tidy(<<"statuses">>, "statuses"), Loose(<<"employees">>, "employees"),
          Loose(<<"asset-categories">>, "categories"), Loose(<<"equipment">>, "equipment")},
         {Write("components", Everything)})

\* Queries enabled by its add and edit forms.
ComponentForms ==
    Uses({Loose(<<"subcategories", "c">>, "subcategories"),
          Loose(<<"component-subcategories", "c">>, "subcategories"),
          Loose(<<"vendors">>, "vendors")}, {})

\* useAssetDropdownData.
DropdownReads ==
    {Bare(<<"categories">>, "categories"), Bare(<<"statuses">>, "statuses"),
     Bare(<<"vendors">>, "vendors"), Bare(<<"equipment">>, "equipment")}

\* The queries of useAssetViewController that each of its three views makes.
SubcategoryReads == {Bare(<<"asset-subcategories", "c">>, "subcategories")}
PickerReads ==
    {Loose(<<"employees">>, "employees"), Loose(<<"workstations">>, "workstations"),
     Bare(<<"branches">>, "branches"), Bare(<<"positions">>, "positions")}
ControllerReads == DropdownReads \cup SubcategoryReads \cup PickerReads

\* Its queries of one asset, one employee's assets, one workstation's assets.
IndividualReads ==
    {Body(<<"asset", "url">>, "assets"), Body(<<"employee", "row">>, "employees"),
     Body(<<"employeeAssets", "row">>, "assets")}
EmployeeReads ==
    {Body(<<"employee", "url">>, "employees"), Body(<<"employeeAssets", "url">>, "assets"),
     Body(<<"employee-asset-history", "url">>, "assets")}
WorkstationReads ==
    {Body(<<"workstation", "url">>, "workstations"), Body(<<"employee", "row">>, "employees"),
     Body(<<"workstationAssets", "url">>, "assets")}
MovementReads ==
    {Body(<<k, "url">>, "assets"): k \in {"asset-movements", "asset-assignments",
                                          "asset-statistics"}}

\* invalidateAssetRelatedQueries of useAssetQueryInvalidation, for the asset and
\* the employee of the view, "none" where the view has no such id.
RelatedMarks(asset, employee) ==
    {<<"asset", asset>>, <<"assets">>, <<"employee", employee>>,
     <<"employeeAssets", employee>>, <<"asset-movements", asset>>,
     <<"asset-assignments", asset>>, <<"asset-statistics", asset>>,
     <<"dashboard-statistics">>, <<"assets-needing-attention">>}

\* invalidateAssetQueries, to which the three modals give the id of the row.
AssetMarks(asset) ==
    {<<"asset", asset>>, <<"assets">>, <<"asset-movements", asset>>,
     <<"asset-assignments", asset>>, <<"asset-statistics", asset>>}

\* The controller's mutations: update and delete, add, vendor, bulk transfer, status.
SaveWrites(asset, employee) == {Write("assets", RelatedMarks(asset, employee))}

AddWrites(asset, employee, workstation) ==
    {Write("assets", RelatedMarks(asset, employee) \cup
                     {<<"workstation", workstation>>, <<"workstationAssets", workstation>>}),
     Write("vendors", Everything)}

MoveWrites(asset, employee) ==
    {Write("assets", RelatedMarks(asset, employee) \cup {<<"workstations">>})}

StatusWrites(asset, employee) ==
    {Write("assets", {<<"asset", asset>>, <<"employeeAssets", employee>>, <<"assets">>})}

ControllerWrites(asset, employee, workstation) ==
    SaveWrites(asset, employee) \cup AddWrites(asset, employee, workstation)
    \cup MoveWrites(asset, employee) \cup StatusWrites(asset, employee)

IndividualAsset ==
    Uses(ControllerReads \cup IndividualReads \cup MovementReads,
         SaveWrites("url", "row") \cup StatusWrites("url", "row"))
EmployeeAssets ==
    Uses(ControllerReads \cup EmployeeReads, ControllerWrites("none", "url", "none"))
WorkstationAssets ==
    Uses(ControllerReads \cup WorkstationReads, ControllerWrites("none", "row", "url"))

TransferAssetModal == Uses({Loose(<<"workstations", "all">>, "workstations")},
                           {Write("assets", AssetMarks("row"))})
ReturnAssetModal   == Uses({}, {Write("assets", AssetMarks("row"))})
StatusUpdateModal  == Uses({Loose(<<"statuses">>, "statuses")},
                           {Write("assets", AssetMarks("row"))})

\* The repair opened for an asset changes its status; the views of many assets
\* fetch the asset when the form opens.
RepairFormModal ==
    Uses({Body(<<"asset", "row">>, "assets"), Loose(<<"vendors">>, "vendors")},
         {Write("assets", Everything)})

\* The cards of the employee view, and the models of a brand in its asset forms.
AssetCardsView == Uses({Body(<<"asset-components", "row">>, "components")}, {})
BrandModelSelect ==
    Uses({Bare(<<"brands">>, "brands"), Bare(<<"brand-models", "b">>, "models")},
         {Write("brands", {<<"brands">>}), Write("models", {<<"brand-models", "b">>})})

\* QR codes made again in the detail view and in the table.
AssetCodes == Uses({}, {Write("assets", Everything)})
RowCodes   == Uses({}, {Write("assets", Everything)})

-----------------------------------------------------------------------------
(* Transitions, reports, dashboard.                                        *)

EmployeeTransitionsPage ==
    Uses({Bare(<<"employees", "with-assets">>, "employees"), Bare(<<"branches">>, "branches"),
          Bare(<<"positions">>, "positions"), Bare(<<"workstations">>, "workstations")},
         {Write("employees", {<<"employees">>, <<"assets">>, <<"workstations">>})})

CreateWorkstationModal == Uses({}, {Write("workstations", Everything)})

ReportsPage ==
    Uses({Bare(<<"report-signatories">>, "signatories"), Bare(<<"branches">>, "branches"),
          Bare(<<"statuses">>, "statuses"), Bare(<<"employees", "all">>, "employees"),
          Body(<<"asset-report", "filters">>, "assets"),
          OnMount(Body(<<"replenishments-report", "filters">>, "replenishments"), "always")},
         {})

SoftwareLicenseReportPage == Uses({Bare(<<"branches">>, "branches")}, {})

\* dashboardService answers with the whole body and the page unwraps it.
MonthlyExpensesPage ==
    Uses({Loose(<<"yearly-expenses">>, "assets"), Loose(<<"expense-trends", "month">>, "assets"),
          Loose(<<"expense-breakdown", "month">>, "assets"),
          Loose(<<"branch-statistics", "12">>, "assets"), Loose(<<"monthly-expenses">>, "assets")},
         {})

\* useAllDashboardData.
Home == Uses({Bare(<<"dashboard-initial", "month">>, "assets"), Bare(<<"branches">>, "branches"),
              Bare(<<"branch-statistics", "12">>, "assets")}, {})

AuditLogsPage == Uses({Body(<<"audit-logs", "table">>, "log"),
                       Body(<<"audit-logs-timeline", "filters">>, "log"),
                       Bare(<<"audit-stats", "filters">>, "log")}, {})

AdminDashboard == Uses({Bare(<<"admin-stats">>, "users")}, {})
AdminAuditLogs == Uses({Bare(<<"audit-logs", "dates">>, "log")}, {})

\* The page of the systems to choose from has no queries.
Portal == Uses({}, {})

-----------------------------------------------------------------------------
\* The routes, and the modals and tabs that open over a page.
Screens ==
    [VendorsPage |-> VendorsPage, StatusPage |-> StatusPage, PositionPage |-> PositionPage,
     SectionPage |-> SectionPage, BranchPage |-> BranchPage, EmployeePage |-> EmployeePage,
     AssetCategoryPage |-> AssetCategoryPage, SubcategoryPage |-> SubcategoryPage,
     EquipmentPage |-> Uses(EquipmentReads, EquipmentWrites),
     SoftwareLicensePage |-> SoftwareLicensePage, OfficeToolsTab |-> OfficeToolsTab,
     UserManagement |-> UserManagement, AmlaUsers |-> AmlaUsers,
     RiskProfilingUsers |-> RiskProfilingUsers,
     RepairsPage |-> RepairsPage, RemarksModal |-> RemarksModal,
     WorkstationListPage |-> WorkstationListPage, ReplenishmentPage |-> ReplenishmentPage,
     ReplenishmentForm |-> ReplenishmentForm,
     AssetsPage |-> Uses(AssetsPageReads, AssetsPageWrites),
     AdvancedAssetTracker |-> AdvancedAssetTracker,
     AssetComponentsPage |-> AssetComponentsPage, ComponentForms |-> ComponentForms,
     IndividualAsset |-> IndividualAsset, EmployeeAssets |-> EmployeeAssets,
     WorkstationAssets |-> WorkstationAssets, TransferAssetModal |-> TransferAssetModal,
     ReturnAssetModal |-> ReturnAssetModal, StatusUpdateModal |-> StatusUpdateModal,
     RepairFormModal |-> RepairFormModal, AssetCardsView |-> AssetCardsView,
     BrandModelSelect |-> BrandModelSelect, AssetCodes |-> AssetCodes, RowCodes |-> RowCodes,
     EmployeeTransitionsPage |-> EmployeeTransitionsPage,
     CreateWorkstationModal |-> CreateWorkstationModal, ReportsPage |-> ReportsPage,
     SoftwareLicenseReportPage |-> SoftwareLicenseReportPage,
     MonthlyExpensesPage |-> MonthlyExpensesPage, Home |-> Home,
     AuditLogsPage |-> AuditLogsPage, AdminDashboard |-> AdminDashboard,
     AdminAuditLogs |-> AdminAuditLogs, Portal |-> Portal]

Opens(page) ==
    CASE page = "SoftwareLicensePage" -> {"OfficeToolsTab"}
      [] page = "UserManagement" -> {"AmlaUsers", "RiskProfilingUsers"}
      [] page = "RepairsPage" -> {"RemarksModal"}
      [] page = "ReplenishmentPage" -> {"ReplenishmentForm", "BrandModelSelect"}
      [] page = "AssetsPage" -> {"AdvancedAssetTracker", "BrandModelSelect"}
      [] page = "AssetComponentsPage" -> {"ComponentForms"}
      [] page = "IndividualAsset" ->
            {"TransferAssetModal", "ReturnAssetModal", "StatusUpdateModal",
             "RepairFormModal", "AssetCodes"}
      [] page \in {"EmployeeAssets", "WorkstationAssets"} ->
            {"RepairFormModal", "AssetCardsView", "BrandModelSelect", "RowCodes"}
      [] page = "EmployeeTransitionsPage" -> {"CreateWorkstationModal"}
      [] OTHER -> {}

Parts == UNION {Opens(p): p \in DOMAIN Screens}
Pages == DOMAIN Screens \ Parts
=============================================================================
