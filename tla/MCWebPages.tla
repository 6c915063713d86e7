----------------------------- MODULE MCWebPages -----------------------------
(***************************************************************************)
(* The pages of the web client, one area at a time: they share no state    *)
(* but what the server keeps, so that a user is in one of them and the     *)
(* others are at rest.                                                     *)
(***************************************************************************)
EXTENDS WebNavigation, CollectorVisits, CollectorRound, Settlement, BillingDesk, BillingViews, ClientForm,
        ClientDesk, AccessDesk, ServiceSetup, RouterSetup, RouterDesk, WADesk, WAPanels, AdminDesk, PlanForm,
        TechnicianTasks, TechnicianOwn

VARIABLE area

Areas == {"navigation", "visits", "round", "settlement", "billing", "views", "clientForm", "clients", "access",
          "services", "setup", "firewall", "routers", "whatsapp", "panels", "admin", "plan", "tasks", "own"}

webVars == <<area, nav, visits, round, settle, deskVars, views, clientForm, clientDesk, access, setup, setupVars,
             routersVars, waDeskVars, panelVars, adminVars, planVars, taskVars, ownVars>>

MCPlanFeatures == [t \in Tenants |-> IF t = "full" THEN {"*"} ELSE {"maps", "rbac"}]
MCFeatureMap == [t \in Tenants |-> IF t = "full" THEN {"mikrotik"} ELSE {"maps"}]
MCCategoryOf == [p \in Packages |-> IF p = "p1" THEN "regular" ELSE "lite"]
MCDayOf == [t \in Tempos |-> 5]
MCPhoneOf == [c \in Contacts |-> IF c = "a" THEN 1 ELSE 0]

\* An area at rest is in one of its initial states.
WebInit ==
    /\ area \in Areas
    /\ NavInit /\ VisitsInit /\ RoundInit /\ ViewsInit /\ SetupInit
    /\ IF area = "settlement" THEN SettlementInit ELSE settlementRole = "finance" /\ SettlementInit
    /\ IF area = "billing" THEN DeskInit ELSE desk = "billing" /\ DeskInit
    /\ IF area = "clientForm" THEN ClientFormInit ELSE stored = Nothing /\ tempo = [option |-> "default", template |-> "none", manual |-> 5] /\ ClientFormInit
    /\ IF area = "clients" THEN ClientDeskInit ELSE technician = FALSE /\ ClientDeskInit
    /\ IF area = "access" THEN AccessInit ELSE accessPage = "secrets" /\ AccessInit
    /\ IF area = "firewall" THEN SetupPageInit ELSE firewall = 0 /\ SetupPageInit
    /\ IF area = "routers" THEN RoutersInit
       ELSE network = [i \in Devices \cup Profiles |-> IF i \in Existing /\ i \in Profiles THEN "offline" ELSE IF i \in Existing THEN "online" ELSE "none"] /\ RoutersInit
    /\ IF area = "whatsapp" THEN WADeskInit ELSE waTab = "single" /\ campaignsOn = [k \in Campaigns |-> "none"] /\ WADeskInit
    /\ IF area = "panels" THEN WAPanelsInit ELSE panel = "logs" /\ WAPanelsInit
    /\ IF area = "admin" THEN AdminInit ELSE saKept = [k \in AdminKinds |-> {}] /\ AdminInit
    /\ IF area = "plan" THEN PlanFormInit ELSE planEdited = FALSE /\ PlanFormInit
    /\ IF area = "tasks" THEN TasksInit ELSE tkTechnician = FALSE /\ tkOpened = TaskPage("tasks", 0) /\ tkKept = [i \in TaskIds |-> "none"] /\ TasksInit
    /\ IF area = "own" THEN OwnInit ELSE ownOpened = "requests" /\ ownKept = [i \in OwnItems |-> "none"] /\ ownDay = "none" /\ OwnInit

\* What the areas at rest keep.
OnlyIn(here) ==
    /\ area = here /\ UNCHANGED area
    /\ IF here = "navigation" THEN TRUE ELSE UNCHANGED nav
    /\ IF here = "visits" THEN TRUE ELSE UNCHANGED visits
    /\ IF here = "round" THEN TRUE ELSE UNCHANGED round
    /\ IF here = "settlement" THEN TRUE ELSE UNCHANGED settle
    /\ IF here = "billing" THEN TRUE ELSE UNCHANGED deskVars
    /\ IF here = "views" THEN TRUE ELSE UNCHANGED views
    /\ IF here = "clientForm" THEN TRUE ELSE UNCHANGED clientForm
    /\ IF here = "clients" THEN TRUE ELSE UNCHANGED clientDesk
    /\ IF here = "access" THEN TRUE ELSE UNCHANGED access
    /\ IF here = "services" THEN TRUE ELSE UNCHANGED setup
    /\ IF here \in {"setup", "firewall"} THEN TRUE ELSE UNCHANGED setupVars
    /\ IF here = "routers" THEN TRUE ELSE UNCHANGED routersVars
    /\ IF here = "whatsapp" THEN TRUE ELSE UNCHANGED waDeskVars
    /\ IF here = "panels" THEN TRUE ELSE UNCHANGED panelVars
    /\ IF here = "admin" THEN TRUE ELSE UNCHANGED adminVars
    /\ IF here = "plan" THEN TRUE ELSE UNCHANGED planVars
    /\ IF here = "tasks" THEN TRUE ELSE UNCHANGED taskVars
    /\ IF here = "own" THEN TRUE ELSE UNCHANGED ownVars

WebNext ==
    \/ OnlyIn("navigation") /\ NavNext
    \/ OnlyIn("visits") /\ VisitsNext
    \/ OnlyIn("round") /\ RoundNext
    \/ OnlyIn("settlement") /\ SettlementNext
    \/ OnlyIn("billing") /\ DeskNext
    \/ OnlyIn("views") /\ ViewsNext
    \/ OnlyIn("clientForm") /\ ClientFormNext
    \/ OnlyIn("clients") /\ ClientDeskNext
    \/ OnlyIn("access") /\ AccessNext
    \/ OnlyIn("services") /\ SetupNext
    \/ OnlyIn("setup") /\ FormSteps
    \/ OnlyIn("firewall") /\ CardSteps
    \/ OnlyIn("routers") /\ RoutersNext
    \/ OnlyIn("whatsapp") /\ WADeskNext
    \/ OnlyIn("panels") /\ WAPanelsNext
    \/ OnlyIn("admin") /\ AdminNext
    \/ OnlyIn("plan") /\ PlanFormNext
    \/ OnlyIn("tasks") /\ TasksNext
    \/ OnlyIn("own") /\ OwnNext

WebSpec == WebInit /\ [][WebNext]_webVars

\* The requests that a page holds back by a flag while one of their kind is under way do not
\* overlap, although answers of other requests lower and raise the flags as well.  Deletions,
\* check-ins and files, among others, are held back by nothing.
OneRequestAtATime ==
    /\ OnePaymentAtATime /\ OneHandlerAtATime /\ OneSavePerKind /\ OneInstallAtATime /\ OneListAtATime
    /\ OneSendAtATime /\ OneCampaignAtATime /\ OneConnectAtATime /\ OneTemplateOpAtATime
    /\ OneSubmissionPerVisit

\* No page spins for ever: the flag that replaces a page by a spinner, which all requests of a
\* store raise and lower, is up only while one that will lower it is under way.
SpinnersEnd == FlagHasARequest /\ SpinnerHasARequest
=============================================================================
