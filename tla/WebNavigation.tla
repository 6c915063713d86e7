---------------------------- MODULE WebNavigation ----------------------------
(***************************************************************************)
(* Who sees which page of the web client: login, the sidebar, the guards    *)
(* of the layouts and pages, the role an admin may switch to, and the       *)
(* stores they read (authStore.user, dashboardStore, tenantStore and the    *)
(* role context in localStorage).                                           *)
(*                                                                          *)
(* A feature stands for the list of codes a menu item or a gate asks for.   *)
(* A reload of the browser empties the stores, a click on a link does not.  *)
(***************************************************************************)
EXTENDS Naturals, FiniteSets

CONSTANTS
    Tenants,        \* tenants whose users use this browser
    PlanFeatures,   \* [Tenants -> SUBSET (Features \cup {"*"})]: data.plan.features
    FeatureMap      \* [Tenants -> SUBSET Features]: data.features

Features == {"mikrotik", "maps", "rbac", "service", "reports"}
Admins == {"owner", "admin"}
Staff == {"hr", "finance", "technician", "collector"}
\* The roles the form for an employee offers besides an administrator's.
Employees == Staff \cup {"client"}
Roles == Admins \cup Employees
NoUser == [role |-> "none", tenant |-> "none"]
Users == [role : Roles, tenant : Tenants] \cup {[role |-> "super_admin", tenant |-> "none"]}

ASSUME NavigationAssumption ==
    /\ PlanFeatures \in [Tenants -> SUBSET (Features \cup {"*"})]
    /\ FeatureMap \in [Tenants -> SUBSET Features]
    /\ "none" \notin Tenants

VARIABLES
    user,       \* authStore.user
    page,       \* the path shown
    context,    \* role context in localStorage: the role it was made for and the active one
    summary,    \* dashboardStore.data: the tenant it is about, or "none"
    fetching,   \* dashboardStore.loading: the tenant the request in flight is about
    shown,      \* tenantStore.tenant
    resolving   \* tenantStore.loading: the tenant the request in flight is about

nav == <<user, page, context, summary, fetching, shown, resolving>>

-----------------------------------------------------------------------------
(* The menu: an item has a path, a feature or none, and role lists, of which
   an empty one means that the item does not say. *)

Item(h, f, a, r) == [href |-> h, feature |-> f, allowed |-> a, restricted |-> r]

OfficeItems ==
    { Item("/dashboard",  "none", {}, {"hr", "finance"}),
      Item("/clients",    "none", {}, {"client", "hr", "finance"}),
      Item("/billing",    "none", {}, {"technician", "client", "hr", "finance"}),
      Item("/settlement", "none", Admins \cup {"finance"}, {"technician", "hr"}),
      Item("/network",  "mikrotik", Admins, {"hr", "finance"}),
      Item("/vouchers", "mikrotik", Admins, {"hr", "finance"}),
      Item("/pppoe",    "mikrotik", Admins, {"hr", "finance"}),
      Item("/maps", "maps", Admins \cup {"technician"}, {"hr", "finance"}) }

HRItems ==
    { Item(h, "rbac", {"hr"}, {}) :
        h \in {"/hr/dashboard", "/hr/employees", "/hr/attendance", "/hr/leave-requests",
               "/hr/payroll", "/hr/reports"} }

FinanceItems ==
    { Item(h, "none", {"finance"}, {}) :
        h \in {"/finance/dashboard", "/finance/invoices", "/finance/payments",
               "/finance/reports", "/finance/deposits"} }

\* "Reports" is not implemented and is never shown.
OtherItems ==
    { Item("/employees", "rbac", Admins, {"hr"}),
      Item("/service-setup", "service", Admins, {"hr", "finance"}),
      Item("/technician/tasks", "maps", Admins \cup {"technician"}, {"hr", "finance"}),
      Item("/collector", "none", {"technician"}, {"hr", "finance"}),
      Item("/whatsapp", "none", Admins, {"hr", "finance"}),
      Item("/settings", "none", {"owner"}, {"hr", "finance"}) }

NavItems == OfficeItems \cup HRItems \cup FinanceItems \cup OtherItems

\* allowedRoles of the RoleGuard around the page; the pages that have none let
\* every role in.
GuardedBy ==
    [p \in {"/attendance", "/reimbursement", "/time-off", "/payslip", "/settlement", "/network", "/maps", "/employees", "/technician/tasks", "/collector",
            "/settings", "/billing"} \cup {i.href : i \in HRItems \cup FinanceItems} |->
        CASE p \in {i.href : i \in HRItems} \cup {"/employees"} -> Admins \cup {"hr"}
          [] p \in {i.href : i \in FinanceItems} -> Admins \cup {"finance"}
          [] p \in {"/settlement", "/billing"} -> Admins \cup {"finance", "collector"}
          [] p \in {"/network", "/maps", "/technician/tasks"} -> Admins \cup {"technician"}
          [] p \in {"/attendance", "/reimbursement", "/time-off", "/payslip"} ->
               {"admin", "technician", "hr", "finance"}
          [] p = "/collector" -> {"technician"}
          [] p = "/settings" -> {"owner"}]

Pages == {i.href : i \in NavItems} \cup DOMAIN GuardedBy \cup {"/login", "/superadmin", "/reports", "/technician/clients"}

-----------------------------------------------------------------------------
(* Roles *)

NoContext == [original |-> "none", active |-> "none"]

\* getEffectiveRole: the switched role, when the context was made by this role.
EffectiveRole(role, ctx) ==
    IF role \in Admins /\ ctx.original = role THEN ctx.active ELSE role
Switched(role, ctx) == EffectiveRole(role, ctx) # role

\* A technician may do what a collector may.
Includes(allowed, role) ==
    role \in allowed \/ (role = "technician" /\ "collector" \in allowed)

\* RoleGuard, strict mode: an admin who has switched is one of the role.
GuardAllows(p, role, ctx) ==
    \/ p \notin DOMAIN GuardedBy
    \/ Includes(GuardedBy[p], EffectiveRole(role, ctx))
    \/ ~Switched(role, ctx) /\ role \in Admins

\* Sidebar.hasRoleAccess.  Mutant: restrictedRoles is ignored.
HasRoleAccessUnrestricted(item, role, ctx) ==
    item.allowed = {} \/ Includes(item.allowed, EffectiveRole(role, ctx))
HasRoleAccess(item, role, ctx) ==
    LET r == EffectiveRole(role, ctx) IN
    /\ item.allowed = {} \/ Includes(item.allowed, r)
    /\ ~(Switched(role, ctx) /\ item.allowed # {} /\ item.allowed \subseteq Admins /\ r \notin Admins)
    /\ r \notin item.restricted

-----------------------------------------------------------------------------
(* Features *)

\* Sidebar.hasAnyFeature: the feature map, or the plan's wildcard.
MenuHasFeature(f, data) ==
    \/ f = "none"
    \/ data # "none" /\ ("*" \in PlanFeatures[data] \/ f \in FeatureMap[data])

\* The layout's hasAnyFeature looks at the plan's features as well.
GateHasFeature(f, data) ==
    f = "none" \/ "*" \in PlanFeatures[data] \/ f \in PlanFeatures[data] \cup FeatureMap[data]

\* What the layout asks of a path; "/technician/tasks" and its like are basic.
GateOf(p) ==
    CASE p \in {"/maps", "/technician/clients"} -> "maps"
      [] p = "/network" -> "mikrotik"
      [] p = "/employees" -> "rbac"
      [] p = "/service-setup" -> "service"
      [] OTHER -> "none"

VisibleItems(role, ctx, data) ==
    {i \in NavItems : MenuHasFeature(i.feature, data) /\ HasRoleAccess(i, role, ctx)}

\* The dashboard a role gets, and the paths it links to.
AdminLinks == {"/attendance", "/reimbursement", "/time-off", "/payslip"}
TechnicianLinks == AdminLinks \cup {"/technician/tasks"}
OfficeLinks == AdminLinks
DashboardLinks(role, ctx) ==
    LET r == EffectiveRole(role, ctx) IN
    CASE r \in Admins -> AdminLinks
      [] r = "technician" -> TechnicianLinks
      [] r \in {"hr", "finance"} -> OfficeLinks
      [] OTHER -> {}

-----------------------------------------------------------------------------
(* Actions *)

NavInit ==
    /\ user = NoUser /\ page = "/login" /\ context = NoContext
    /\ summary = "none" /\ fetching = "none"
    /\ shown = "none" /\ resolving = "none"

Login(u) ==
    /\ page = "/login" /\ user = NoUser
    /\ user' = u
    /\ shown' = u.tenant        \* setTenant, or clear for a super admin
    /\ page' = IF u.role = "super_admin" THEN "/superadmin" ELSE "/dashboard"
    /\ UNCHANGED <<context, summary, fetching, resolving>>

\* The header's Sign Out: authStore.logout clears the user and the role context;
\* the other stores keep what they have.
Logout ==
    /\ user # NoUser
    /\ user' = NoUser /\ context' = NoContext /\ page' = "/login"
    /\ UNCHANGED <<summary, fetching, shown, resolving>>

\* A failed refresh clears the session, and the role context stays.
SessionDies ==
    /\ user # NoUser
    /\ user' = NoUser
    /\ UNCHANGED <<page, context, summary, fetching, shown, resolving>>

\* AuthGuard
RequireLogin ==
    /\ user = NoUser /\ page # "/login"
    /\ page' = "/login"
    /\ UNCHANGED <<user, context, summary, fetching, shown, resolving>>

InTenantApp == user # NoUser /\ user.role # "super_admin" /\ page \notin {"/login", "/superadmin"}

FollowMenu ==
    /\ InTenantApp
    /\ \E i \in VisibleItems(user.role, context, summary) : page' = i.href
    /\ UNCHANGED <<user, context, summary, fetching, shown, resolving>>

FollowLink ==
    /\ InTenantApp /\ page = "/dashboard"
    /\ page' \in DashboardLinks(user.role, context)
    /\ UNCHANGED <<user, context, summary, fetching, shown, resolving>>

\* An address typed in, or a reload: the stores are empty, authStore hydrated.
OpenAddress(p) ==
    /\ user # NoUser
    /\ page' = p
    /\ summary' = "none" /\ fetching' = "none"
    /\ shown' = "none" /\ resolving' = "none"
    /\ UNCHANGED <<user, context>>

RoleBounce ==
    /\ InTenantApp
    /\ ~GuardAllows(page, user.role, context)
    /\ page' = "/dashboard"
    /\ UNCHANGED <<user, context, summary, fetching, shown, resolving>>

\* The layout's gate, once the features are there.
FeatureBounce ==
    /\ InTenantApp
    /\ summary # "none" /\ fetching = "none"
    /\ page = "/reports" \/ ~GateHasFeature(GateOf(page), summary)
    /\ page' = "/dashboard"
    /\ UNCHANGED <<user, context, summary, fetching, shown, resolving>>

\* The layout and the dashboard ask for the summary when there is none; the
\* dashboard's Refresh button asks anyway.
FetchSummary ==
    /\ InTenantApp /\ fetching = "none"
    /\ summary = "none" \/ page = "/dashboard"
    /\ fetching' = user.tenant
    /\ UNCHANGED <<user, page, context, summary, shown, resolving>>

\* The answer, whoever is logged in by now; an error keeps the data there is.
SummaryArrives ==
    /\ fetching # "none"
    /\ summary' \in {fetching, summary}
    /\ fetching' = "none"
    /\ UNCHANGED <<user, page, context, shown, resolving>>

\* TenantGuard: take the tenant of authStore.
SyncTenant ==
    /\ InTenantApp /\ shown = "none"
    /\ shown' = user.tenant
    /\ UNCHANGED <<user, page, context, summary, fetching, resolving>>

\* useTenant's own effect asks the server, by the slug of the last tenant.
ResolveTenant ==
    /\ InTenantApp /\ shown = "none" /\ resolving = "none"
    /\ resolving' = user.tenant
    /\ UNCHANGED <<user, page, context, summary, fetching, shown>>

TenantArrives ==
    /\ resolving # "none"
    /\ shown' \in {resolving, "none"}
    /\ resolving' = "none"
    /\ UNCHANGED <<user, page, context, summary, fetching>>

\* The employees page lets an admin work as one of the employees' roles.
SwitchRole(r) ==
    /\ InTenantApp /\ page = "/employees" /\ user.role \in Admins
    /\ GuardAllows(page, user.role, context)
    /\ context' = [original |-> user.role, active |-> r]
    /\ page' = "/dashboard"
    /\ UNCHANGED <<user, summary, fetching, shown, resolving>>

ReturnToOwnRole ==
    /\ InTenantApp /\ Switched(user.role, context)
    /\ context' = NoContext
    /\ page' = "/dashboard"
    /\ UNCHANGED <<user, summary, fetching, shown, resolving>>

NavNext ==
    \/ \E u \in Users : Login(u)
    \/ Logout \/ SessionDies \/ RequireLogin
    \/ FollowMenu \/ FollowLink \/ RoleBounce \/ FeatureBounce
    \/ \E p \in Pages \ {"/login"} : OpenAddress(p)
    \/ FetchSummary \/ SummaryArrives
    \/ SyncTenant \/ ResolveTenant \/ TenantArrives
    \/ \E r \in Employees : SwitchRole(r)
    \/ ReturnToOwnRole

NavSpec == NavInit /\ [][NavNext]_nav

-----------------------------------------------------------------------------
(* Properties *)

NavTypeOK ==
    /\ user \in Users \cup {NoUser}
    /\ page \in Pages
    /\ context \in [original : Admins \cup {"none"}, active : Employees \cup {"none"}]
    /\ {summary, fetching, shown, resolving} \subseteq Tenants \cup {"none"}

\* The menu keeps its word: the page behind every item of the sidebar and every
\* link of the dashboard, for this user, role and features, is one that neither
\* the page's RoleGuard nor the layout's feature gate bounces.
MenuKeepsItsWord ==
    InTenantApp =>
      \A p \in {i.href : i \in VisibleItems(user.role, context, summary)}
               \cup DashboardLinks(user.role, context) :
        /\ GuardAllows(p, user.role, context)
        /\ summary # "none" => GateHasFeature(GateOf(p), summary)

\* "Admin can access any page even when switched" (RoleGuard's doc comment).  The
\* guard's strict mode does the opposite for an admin who has switched.
AdminsEnterAnyPage ==
    InTenantApp /\ user.role \in Admins
      => \A p \in Pages : GuardAllows(p, user.role, context)

\* "Ensure we have plan/features/limits available for sidebar gating and route
\* guards" (the layout): those of the tenant that is logged in.
FeaturesAreTheTenants ==
    InTenantApp /\ summary # "none" => summary = user.tenant

\* The header names the tenant of the session.
TenantShownIsMine ==
    InTenantApp /\ shown # "none" => shown = user.tenant

\* A login starts in the user's own role.
LoginStartsInOwnRole ==
    [][user = NoUser /\ user' # NoUser => ~Switched(user'.role, context')]_nav
=============================================================================
