---------------------------- MODULE WebPagesProofs ----------------------------
(*****************************************************************************)
(* Theorems about the web client's pages, for any number of routers,         *)
(* clients, packages, campaigns and requests. Each area is proved by itself, *)
(* from an invariant of what it keeps: a request under way keeps its flag    *)
(* up, there is one at most, and a request of a page that was left is told   *)
(* from those of the present one. The areas share no variable, so that every *)
(* step of the whole is a step of one area and leaves the others as they are *)
(* (OneAreaMoves).                                                           *)
(*****************************************************************************)
EXTENDS MCWebPages, FiniteSetTheorems, TLAPS

\* A set in which any two members are the same has at most one.
LEMMA AtMostOne ==
    ASSUME NEW S, \A x, y \in S : x = y
    PROVE  Cardinality(S) <= 1
<1>1. CASE S = {}
  BY <1>1, FS_EmptySet
<1>2. CASE S # {}
  <2>1. PICK x : S = {x}
    BY <1>2
  <2> QED BY <2>1, FS_Singleton
<1> QED BY <1>1, <1>2

-----------------------------------------------------------------------------
(* Navigation: the menu and the guard *)

\* The paths of the menu items of the human-resources and the finance sections.
HRPaths == {"/hr/dashboard", "/hr/employees", "/hr/attendance", "/hr/leave-requests", "/hr/payroll", "/hr/reports"}
FinancePaths == {"/finance/dashboard", "/finance/invoices", "/finance/payments", "/finance/reports", "/finance/deposits"}

\* They are the paths of HRItems and FinanceItems.
LEMMA PathsOK == {i.href : i \in HRItems} = HRPaths /\ {i.href : i \in FinanceItems} = FinancePaths
<1>1. \A h, f, a, r : Item(h, f, a, r).href = h
  BY DEF Item
<1>2. HRItems = {Item(h, "rbac", {"hr"}, {}) : h \in HRPaths}
  BY DEF HRItems, HRPaths
<1>3. FinanceItems = {Item(h, "none", {"finance"}, {}) : h \in FinancePaths}
  BY DEF FinanceItems, FinancePaths
<1> QED BY <1>1, <1>2, <1>3

\* The paths the role guard has an entry for.
Guarded == {"/attendance", "/reimbursement", "/time-off", "/payslip", "/settlement", "/network", "/maps", "/employees",
            "/technician/tasks", "/collector", "/settings", "/billing"} \cup HRPaths \cup FinancePaths

\* The entries of the guard, path by path.
LEMMA GuardTable ==
    /\ DOMAIN GuardedBy = Guarded
    /\ \A p \in HRPaths \cup {"/employees"} : GuardedBy[p] = Admins \cup {"hr"}
    /\ \A p \in FinancePaths : GuardedBy[p] = Admins \cup {"finance"}
    /\ \A p \in {"/settlement", "/billing"} : GuardedBy[p] = Admins \cup {"finance", "collector"}
    /\ \A p \in {"/network", "/maps", "/technician/tasks"} : GuardedBy[p] = Admins \cup {"technician"}
    /\ \A p \in {"/attendance", "/reimbursement", "/time-off", "/payslip"} :
         GuardedBy[p] = {"admin", "technician", "hr", "finance"}
    /\ GuardedBy["/collector"] = {"technician"}
    /\ GuardedBy["/settings"] = {"owner"}
<1>1. GuardedBy = [p \in Guarded |->
        CASE p \in HRPaths \cup {"/employees"} -> Admins \cup {"hr"}
          [] p \in FinancePaths -> Admins \cup {"finance"}
          [] p \in {"/settlement", "/billing"} -> Admins \cup {"finance", "collector"}
          [] p \in {"/network", "/maps", "/technician/tasks"} -> Admins \cup {"technician"}
          [] p \in {"/attendance", "/reimbursement", "/time-off", "/payslip"} ->
               {"admin", "technician", "hr", "finance"}
          [] p = "/collector" -> {"technician"}
          [] p = "/settings" -> {"owner"}]
  <2>1. {i.href : i \in HRItems \cup FinanceItems} = HRPaths \cup FinancePaths
    BY PathsOK
  <2> QED BY <2>1, PathsOK DEF GuardedBy, Guarded
<1>2. DOMAIN GuardedBy = Guarded
  BY <1>1
<1>3. ASSUME NEW p \in HRPaths \cup {"/employees"} PROVE GuardedBy[p] = Admins \cup {"hr"}
  BY <1>1, <1>3 DEF Guarded, HRPaths, FinancePaths
<1>4. ASSUME NEW p \in FinancePaths PROVE GuardedBy[p] = Admins \cup {"finance"}
  BY <1>1, <1>4 DEF Guarded, HRPaths, FinancePaths
<1>5. ASSUME NEW p \in {"/settlement", "/billing"} PROVE GuardedBy[p] = Admins \cup {"finance", "collector"}
  BY <1>1, <1>5 DEF Guarded, HRPaths, FinancePaths
<1>6. ASSUME NEW p \in {"/network", "/maps", "/technician/tasks"} PROVE GuardedBy[p] = Admins \cup {"technician"}
  BY <1>1, <1>6 DEF Guarded, HRPaths, FinancePaths
<1>7. ASSUME NEW p \in {"/attendance", "/reimbursement", "/time-off", "/payslip"}
      PROVE  GuardedBy[p] = {"admin", "technician", "hr", "finance"}
  BY <1>1, <1>7 DEF Guarded, HRPaths, FinancePaths
<1>8. GuardedBy["/collector"] = {"technician"} /\ GuardedBy["/settings"] = {"owner"}
  BY <1>1 DEF Guarded, HRPaths, FinancePaths
<1> QED BY <1>2, <1>3, <1>4, <1>5, <1>6, <1>7, <1>8

\* A role context that can be stored: an administrator's, switched to an employee's role.
ContextOK(ctx) == ctx = NoContext \/ (ctx.original \in Admins /\ ctx.active \in Employees)

\* What effectiveRole returns: a role, an employee's once switched, and an administrator only of
\* one who is not switched.
LEMMA RoleOK ==
    ASSUME NEW role \in Roles, NEW ctx, ContextOK(ctx)
    PROVE  /\ EffectiveRole(role, ctx) \in Roles
           /\ Switched(role, ctx) => EffectiveRole(role, ctx) \in Employees
           /\ EffectiveRole(role, ctx) \in Admins => ~Switched(role, ctx) /\ role \in Admins
<1>1. CASE role \in Admins /\ ctx.original = role
  <2>1. ctx # NoContext
    BY <1>1 DEF NoContext, Admins
  <2>2. ctx.active \in Employees /\ EffectiveRole(role, ctx) = ctx.active
    BY <1>1, <2>1 DEF ContextOK, EffectiveRole
  <2> QED BY <2>2 DEF Roles, Admins, Employees, Staff
<1>2. CASE ~(role \in Admins /\ ctx.original = role)
  BY <1>2 DEF EffectiveRole, Switched
<1> QED BY <1>1, <1>2

\* What the menu and the page ask for the same path.
KeepsWord(i) ==
    /\ \A r \in Roles : (i.allowed = {} \/ Includes(i.allowed, r)) /\ r \notin i.restricted
                          => i.href \notin Guarded \/ Includes(GuardedBy[i.href], r)
    /\ GateOf(i.href) \in {"none", i.feature}

\* The items of the office section lead where the guard lets their readers in.
LEMMA OfficeKeepsWord == \A i \in OfficeItems : KeepsWord(i)
<1>1. ASSUME NEW h \in {"/dashboard", "/clients", "/vouchers", "/pppoe"}, NEW f, NEW a, NEW x PROVE KeepsWord(Item(h, f, a, x))
  <2>1. h \notin Guarded /\ GateOf(h) = "none"
    BY <1>1 DEF Guarded, HRPaths, FinancePaths, GateOf
  <2> QED BY <2>1 DEF KeepsWord, Item
<1>2. KeepsWord(Item("/billing", "none", {}, {"technician", "client", "hr", "finance"}))
  <2>1. GuardedBy["/billing"] = Admins \cup {"finance", "collector"} /\ GateOf("/billing") = "none"
    BY GuardTable DEF GateOf
  <2> QED BY <2>1 DEF KeepsWord, Item, Includes, Roles, Admins, Employees, Staff
<1>3. KeepsWord(Item("/settlement", "none", Admins \cup {"finance"}, {"technician", "hr"}))
  <2>1. GuardedBy["/settlement"] = Admins \cup {"finance", "collector"} /\ GateOf("/settlement") = "none"
    BY GuardTable DEF GateOf
  <2> QED BY <2>1 DEF KeepsWord, Item, Includes, Roles, Admins, Employees, Staff
<1>4. KeepsWord(Item("/network", "mikrotik", Admins, {"hr", "finance"}))
  <2>1. GuardedBy["/network"] = Admins \cup {"technician"} /\ GateOf("/network") = "mikrotik"
    BY GuardTable DEF GateOf
  <2> QED BY <2>1 DEF KeepsWord, Item, Includes, Roles, Admins, Employees, Staff
<1>5. KeepsWord(Item("/maps", "maps", Admins \cup {"technician"}, {"hr", "finance"}))
  <2>1. GuardedBy["/maps"] = Admins \cup {"technician"} /\ GateOf("/maps") = "maps"
    BY GuardTable DEF GateOf
  <2> QED BY <2>1 DEF KeepsWord, Item, Includes, Roles, Admins, Employees, Staff
<1> QED BY <1>1, <1>2, <1>3, <1>4, <1>5 DEF OfficeItems

\* So do the items of human resources and finance.
LEMMA StaffKeepsWord == \A i \in HRItems \cup FinanceItems : KeepsWord(i)
<1>1. ASSUME NEW h \in HRPaths PROVE KeepsWord(Item(h, "rbac", {"hr"}, {}))
  <2>1. GuardedBy[h] = Admins \cup {"hr"}
    BY GuardTable
  <2>2. GateOf(h) = "none"
    BY DEF GateOf, HRPaths
  <2> QED BY <2>1, <2>2 DEF KeepsWord, Item, Includes
<1>2. ASSUME NEW h \in FinancePaths PROVE KeepsWord(Item(h, "none", {"finance"}, {}))
  <2>1. GuardedBy[h] = Admins \cup {"finance"}
    BY GuardTable
  <2>2. GateOf(h) = "none"
    BY DEF GateOf, FinancePaths
  <2> QED BY <2>1, <2>2 DEF KeepsWord, Item, Includes
<1>3. HRItems = {Item(h, "rbac", {"hr"}, {}) : h \in HRPaths}
  BY DEF HRItems, HRPaths
<1>4. FinanceItems = {Item(h, "none", {"finance"}, {}) : h \in FinancePaths}
  BY DEF FinanceItems, FinancePaths
<1> QED BY <1>1, <1>2, <1>3, <1>4

\* So do the remaining items.
LEMMA OthersKeepWord == \A i \in OtherItems : KeepsWord(i)
<1>1. KeepsWord(Item("/employees", "rbac", Admins, {"hr"}))
  <2>1. GuardedBy["/employees"] = Admins \cup {"hr"} /\ GateOf("/employees") = "rbac"
    BY GuardTable DEF GateOf
  <2> QED BY <2>1 DEF KeepsWord, Item, Includes, Roles, Admins, Employees, Staff
<1>2. KeepsWord(Item("/service-setup", "service", Admins, {"hr", "finance"}))
  <2>1. "/service-setup" \notin Guarded /\ GateOf("/service-setup") = "service"
    BY DEF Guarded, HRPaths, FinancePaths, GateOf
  <2> QED BY <2>1 DEF KeepsWord, Item
<1>3. KeepsWord(Item("/technician/tasks", "maps", Admins \cup {"technician"}, {"hr", "finance"}))
  <2>1. GuardedBy["/technician/tasks"] = Admins \cup {"technician"} /\ GateOf("/technician/tasks") = "none"
    BY GuardTable DEF GateOf
  <2> QED BY <2>1 DEF KeepsWord, Item, Includes, Roles, Admins, Employees, Staff
<1>4. KeepsWord(Item("/collector", "none", {"technician"}, {"hr", "finance"}))
  <2>1. GuardedBy["/collector"] = {"technician"} /\ GateOf("/collector") = "none"
    BY GuardTable DEF GateOf
  <2> QED BY <2>1 DEF KeepsWord, Item, Includes, Roles, Admins, Employees, Staff
<1>5. KeepsWord(Item("/whatsapp", "none", Admins, {"hr", "finance"}))
  <2>1. "/whatsapp" \notin Guarded /\ GateOf("/whatsapp") = "none"
    BY DEF Guarded, HRPaths, FinancePaths, GateOf
  <2> QED BY <2>1 DEF KeepsWord, Item
<1>6. KeepsWord(Item("/settings", "none", {"owner"}, {"hr", "finance"}))
  <2>1. GuardedBy["/settings"] = {"owner"} /\ GateOf("/settings") = "none"
    BY GuardTable DEF GateOf
  <2> QED BY <2>1 DEF KeepsWord, Item, Includes, Roles, Admins, Employees, Staff
<1> QED BY <1>1, <1>2, <1>3, <1>4, <1>5, <1>6 DEF OtherItems

\* The feature the gate of a path asks for, when the menu has shown its item.
LEMMA FeatureOK ==
    ASSUME NEW f, NEW g, NEW data, data # "none", g \in {"none", f}, MenuHasFeature(f, data)
    PROVE  GateHasFeature(g, data)
BY DEF MenuHasFeature, GateHasFeature

\* The dashboard's links are paths the guard allows and no feature gates.
LEMMA LinksOK ==
    ASSUME NEW role \in Roles, NEW ctx, ContextOK(ctx), NEW p \in DashboardLinks(role, ctx)
    PROVE  GuardAllows(p, role, ctx) /\ GateOf(p) = "none"
<1> DEFINE r == EffectiveRole(role, ctx)
<1>1. r \in Roles /\ (r \in Admins => ~Switched(role, ctx) /\ role \in Admins)
  BY RoleOK
<1>2. /\ r \in Admins => p \in AdminLinks
      /\ r = "technician" => p \in TechnicianLinks
      /\ r \in {"hr", "finance"} => p \in OfficeLinks
      /\ r \in Admins \cup {"technician", "hr", "finance"}
  <2>1. CASE r \in Admins
    BY <2>1 DEF DashboardLinks, Admins
  <2>2. CASE r = "technician"
    BY <2>2 DEF DashboardLinks, Admins
  <2>3. CASE r \in {"hr", "finance"}
    BY <2>3 DEF DashboardLinks, Admins
  <2>4. CASE r \notin Admins \cup {"technician", "hr", "finance"}
    BY <2>4 DEF DashboardLinks, Admins
  <2> QED BY <2>1, <2>2, <2>3, <2>4
<1>3. p \in TechnicianLinks /\ GateOf(p) = "none"
  BY <1>2 DEF AdminLinks, TechnicianLinks, OfficeLinks, GateOf
<1>4. CASE r \in Admins
  BY <1>1, <1>3, <1>4 DEF GuardAllows
<1>5. CASE r = "technician"
  <2>1. "technician" \in GuardedBy[p]
    BY <1>3, GuardTable DEF TechnicianLinks, AdminLinks
  <2> QED BY <1>3, <1>5, <2>1 DEF GuardAllows, Includes
<1>6. CASE r \in {"hr", "finance"}
  <2>1. r \in GuardedBy[p]
    BY <1>2, <1>6, GuardTable DEF OfficeLinks, AdminLinks
  <2> QED BY <1>3, <1>6, <2>1 DEF GuardAllows, Includes
<1> QED BY <1>2, <1>4, <1>5, <1>6

\* The stored user, role context and summary are ones the program can have stored.
NavInv ==
    /\ user \in Users \cup {NoUser} /\ ContextOK(context)
    /\ fetching \in Tenants \cup {"none"} /\ summary \in Tenants \cup {"none"}

\* Who is in the tenant application has a role and a tenant.
LEMMA UserOK == ASSUME NavInv, InTenantApp PROVE user.role \in Roles /\ user.tenant \in Tenants
BY DEF NavInv, InTenantApp, Users, NoUser

\* NavInv is inductive.
LEMMA NavStep == ASSUME NavInv, NavNext PROVE NavInv'
<1>1. CASE UNCHANGED <<user, context, summary, fetching>>
  BY <1>1 DEF NavInv
<1>2. ASSUME NEW u \in Users, Login(u) PROVE NavInv'
  BY <1>2 DEF Login, NavInv
<1>3. CASE Logout \/ SessionDies
  BY <1>3 DEF Logout, SessionDies, NavInv, ContextOK
<1>4. CASE RequireLogin \/ FollowMenu \/ FollowLink \/ RoleBounce \/ FeatureBounce \/ SyncTenant \/ ResolveTenant \/ TenantArrives
  BY <1>1, <1>4 DEF RequireLogin, FollowMenu, FollowLink, RoleBounce, FeatureBounce, SyncTenant, ResolveTenant, TenantArrives
<1>5. ASSUME NEW p, OpenAddress(p) PROVE NavInv'
  BY <1>5 DEF OpenAddress, NavInv
<1>6. CASE FetchSummary
  BY <1>6, UserOK DEF FetchSummary, NavInv
<1>7. CASE SummaryArrives
  BY <1>7 DEF SummaryArrives, NavInv
<1>8. ASSUME NEW r \in Employees, SwitchRole(r) PROVE NavInv'
  <2>1. context' = [original |-> user.role, active |-> r] /\ user.role \in Admins
    BY <1>8 DEF SwitchRole
  <2>2. ContextOK(context')
    BY <1>8, <2>1 DEF ContextOK
  <2> QED BY <1>8, <2>2 DEF SwitchRole, NavInv
<1>9. CASE ReturnToOwnRole
  BY <1>9 DEF ReturnToOwnRole, NavInv, ContextOK
<1> QED BY <1>2, <1>3, <1>4, <1>5, <1>6, <1>7, <1>8, <1>9 DEF NavNext

\* Under NavInv the visible items and links lead where the guards let the user in.
LEMMA WordKept == NavInv => MenuKeepsItsWord
<1> SUFFICES ASSUME NavInv, InTenantApp,
                    NEW p \in {i.href : i \in VisibleItems(user.role, context, summary)} \cup DashboardLinks(user.role, context)
             PROVE  GuardAllows(p, user.role, context) /\ (summary # "none" => GateHasFeature(GateOf(p), summary))
  BY DEF MenuKeepsItsWord
<1>1. user.role \in Roles /\ ContextOK(context)
  BY UserOK DEF NavInv
<1>2. CASE p \in DashboardLinks(user.role, context)
  BY <1>1, <1>2, LinksOK DEF GateHasFeature
<1>3. CASE p \in {i.href : i \in VisibleItems(user.role, context, summary)}
  <2>1. PICK i \in VisibleItems(user.role, context, summary) : p = i.href
    BY <1>3
  <2>2. i \in NavItems /\ MenuHasFeature(i.feature, summary) /\ HasRoleAccess(i, user.role, context)
    BY DEF VisibleItems
  <2>3. KeepsWord(i)
    BY <2>2, OfficeKeepsWord, StaffKeepsWord, OthersKeepWord DEF NavItems
  <2>4. p \notin Guarded \/ Includes(GuardedBy[p], EffectiveRole(user.role, context))
    BY <1>1, <2>1, <2>2, <2>3, RoleOK DEF HasRoleAccess, KeepsWord
  <2>5. summary # "none" => GateHasFeature(GateOf(p), summary)
    BY <2>1, <2>2, <2>3, FeatureOK DEF KeepsWord
  <2> QED BY <2>4, <2>5, GuardTable DEF GuardAllows
<1> QED BY <1>2, <1>3

\* The navigation by itself keeps its word.
LEMMA NavigationHolds == NavSpec => []MenuKeepsItsWord
<1>1. NavInit => NavInv
  BY DEF NavInit, NavInv, ContextOK
<1>2. NavInv /\ UNCHANGED nav => NavInv'
  BY DEF nav, NavInv
<1> QED BY <1>1, <1>2, NavStep, WordKept, PTL DEF NavSpec

-----------------------------------------------------------------------------
(* The collector's round *)

\* A partial payment under way: less than what is owed, since the form refuses the total.
Recordings == [client : Customers, amount : 1..(Owed - 1), waiting : BOOLEAN]

\* What is marked is a partial amount that the server has received, and the requests are well
\* formed.
RoundInv ==
    /\ partialPayments \in [Customers -> Nat]
    /\ partialModal \in Customers \cup {"nobody"}
    /\ packagesLoaded \in BOOLEAN
    /\ recording \subseteq Recordings
    /\ PartialIsBacked

\* A mark that is removed leaves the others backed.
LEMMA UnmarkOK ==
    ASSUME RoundInv, NEW c \in Customers,
           partialPayments' \in {partialPayments, [partialPayments EXCEPT ![c] = 0]},
           UNCHANGED <<partialModal, packagesLoaded, recording, received>>
    PROVE  RoundInv'
BY DEF RoundInv, PartialIsBacked

\* A partial payment that is answered is marked only when the server received it.
LEMMA RecordedOK ==
    ASSUME RoundInv, NEW r \in recording, NEW kept \in BOOLEAN, NEW ok \in BOOLEAN, AddPartialPayment(r, kept, ok)
    PROVE  RoundInv'
<1>1. r.client \in Customers /\ r.amount \in Nat /\ r.amount < Owed
  BY RoundAssumption DEF RoundInv, Recordings
<1>2. received \subseteq received' /\ (ok => <<r.client, r.amount>> \in received')
  BY DEF AddPartialPayment
<1>3. partialPayments' = IF ok THEN [partialPayments EXCEPT ![r.client] = r.amount] ELSE partialPayments
  BY DEF AddPartialPayment, PartialAfter
<1>4. partialPayments' \in [Customers -> Nat]
  BY <1>1, <1>3 DEF RoundInv
<1>5. PartialIsBacked'
  <2>1. ASSUME NEW c \in Customers, partialPayments'[c] > 0
        PROVE  partialPayments'[c] < Owed /\ <<c, partialPayments'[c]>> \in received'
    <3>1. CASE ok /\ c = r.client
      BY <1>1, <1>2, <1>3, <3>1 DEF RoundInv
    <3>2. CASE ~(ok /\ c = r.client)
      BY <1>1, <1>2, <1>3, <2>1, <3>2 DEF RoundInv, PartialIsBacked
    <3> QED BY <3>1, <3>2
  <2> QED BY <2>1 DEF PartialIsBacked
<1> QED BY <1>4, <1>5 DEF AddPartialPayment, RoundInv

\* RoundInv is inductive.
LEMMA RoundStep == ASSUME RoundInv, RoundNext PROVE RoundInv'
<1>1. ASSUME NEW c \in Customers, MarkClientPaidFull(c) \/ MarkClientNotHome(c) \/ RemovePartialPayment(c) PROVE RoundInv'
  BY <1>1, UnmarkOK DEF MarkClientPaidFull, MarkClientNotHome, RemovePartialPayment
<1>2. ASSUME NEW c \in Customers, OpenPartialPayment(c) PROVE RoundInv'
  BY <1>2 DEF OpenPartialPayment, marks, RoundInv, PartialIsBacked
<1>3. CASE ClosePartialPayment
  BY <1>3 DEF ClosePartialPayment, marks, RoundInv, PartialIsBacked
<1>4. ASSUME NEW a \in 1..Owed, SubmitPartialPayment(a) PROVE RoundInv'
  <2>1. a \in 1..(Owed - 1) /\ partialModal \in Customers
    BY <1>4, RoundAssumption DEF SubmitPartialPayment, DialogInFront, MayRecord, CalculateTotal, RoundInv
  <2>2. [client |-> partialModal, amount |-> a, waiting |-> TRUE] \in Recordings
    BY <2>1 DEF Recordings
  <2> QED BY <1>4, <2>2 DEF SubmitPartialPayment, marks, RoundInv, PartialIsBacked
<1>5. ASSUME NEW r \in recording, NEW kept \in BOOLEAN, NEW ok \in BOOLEAN, AddPartialPayment(r, kept, ok) PROVE RoundInv'
  BY <1>5, RecordedOK
<1>6. ASSUME NEW p \in {"clients", "collector"}, GoTo(p) PROVE RoundInv'
  <2>1. \A r \in recording : [r EXCEPT !.waiting = FALSE] \in Recordings
    BY DEF RoundInv, Recordings
  <2> QED BY <1>6, <2>1 DEF GoTo, marks, RoundInv, PartialIsBacked
<1>7. CASE OwedArrive \/ OpenDeposit \/ SubmitDeposit \/ CloseDeposit
  BY <1>7 DEF OwedArrive, OpenDeposit, SubmitDeposit, CloseDeposit, marks, RoundInv, PartialIsBacked
<1>8. ASSUME NEW m \in Months, SetSelectedDate(m) \/ FetchPaymentsForDate(m) PROVE RoundInv'
  BY <1>8 DEF SetSelectedDate, FetchPaymentsForDate, marks, RoundInv, PartialIsBacked
<1> QED BY <1>1, <1>2, <1>3, <1>4, <1>5, <1>6, <1>7, <1>8 DEF RoundNext

\* The round by itself keeps its marks backed.
LEMMA PartialsHold == RoundSpec => []PartialIsBacked
<1>1. RoundInit => RoundInv
  <2> SUFFICES ASSUME RoundInit PROVE RoundInv
    OBVIOUS
  <2>1. partialPayments \in [Customers -> Nat] /\ \A c \in Customers : partialPayments[c] = 0
    BY DEF RoundInit
  <2>2. partialModal = "nobody" /\ packagesLoaded = FALSE /\ recording = {}
    BY DEF RoundInit
  <2>3. PartialIsBacked
    BY <2>1 DEF PartialIsBacked
  <2> QED BY <2>1, <2>2, <2>3 DEF RoundInv
<1>2. RoundInv /\ UNCHANGED round => RoundInv'
  BY DEF round, RoundInv, PartialIsBacked
<1>3. RoundInv => PartialIsBacked
  BY DEF RoundInv
<1> QED BY <1>1, <1>2, <1>3, RoundStep, PTL DEF RoundSpec

-----------------------------------------------------------------------------
(* Settlements and deposits *)

\* At most one decision and one confirmation are under way, a decision only of a settlement that
\* is pending, and a confirmation started from a list that lacks nothing of the present one.
SettleInv ==
    /\ \A d, e \in deciding : d = e
    /\ deciding # {} => verifying /\ settlementStatus = "pending"
    /\ verdictPanel # "none" => settlementStatus = "pending"
    /\ \A h, k \in confirming : h = k
    /\ \A h \in confirming : depositHistory \subseteq h.history

\* What a step of DecisionsAreFinal keeps.
DecisionStands ==
    settlementTab' = settlementTab =>
       /\ settlementStatus # "pending" => settlementStatus' = settlementStatus
       /\ depositHistory \subseteq depositHistory'

\* SettleInv is inductive, and every step from it lets decisions stand.
LEMMA SettleStep == ASSUME SettleInv, SettlementNext PROVE SettleInv' /\ DecisionStands
<1>1. ASSUME NEW s \in Settlements, OpenSettlement(s) \/ QuickApprove(s) \/ QuickApproved(s)
      PROVE  SettleInv' /\ DecisionStands
  BY <1>1 DEF OpenSettlement, QuickApprove, QuickApproved, SettleInv, DecisionStands, office, dialog, quick, submit, finance
<1>2. CASE UNCHANGED <<dialog, finance>>
  BY <1>2 DEF SettleInv, DecisionStands, dialog, finance
<1>3. CASE \/ \E to \in {Today - 1, Today, Today + 1}, st \in {"", "rejected"} : FilterHistory(to, st)
           \/ \E s \in MockHistory : ViewHistory(s)
           \/ CloseHistory \/ FileUpload \/ FileRead \/ SubmitSettlement \/ Submitted \/ RetryScan
  BY <1>2, <1>3 DEF FilterHistory, ViewHistory, CloseHistory, FileUpload, FileRead, SubmitSettlement, Submitted, RetryScan
<1>4. ASSUME NEW t, ChangeTab(t) PROVE SettleInv' /\ DecisionStands
  BY <1>4 DEF ChangeTab, SettleInv, DecisionStands
<1>5. ASSUME NEW a \in Actions, ChooseAction(a) PROVE SettleInv' /\ DecisionStands
  BY <1>5 DEF ChooseAction, MayDecide, SettleInv, DecisionStands, finance
<1>6. ASSUME NEW d \in deciding, Decided(d) PROVE SettleInv' /\ DecisionStands
  BY <1>6 DEF Decided, SettleInv, DecisionStands, finance
<1>7. CASE DialogLoaded \/ FillIn \/ CancelPanel \/ CloseVerification \/ TimedClose
  BY <1>7 DEF DialogLoaded, FillIn, CancelPanel, CloseVerification, TimedClose, SettleInv, DecisionStands, finance
<1>8. CASE ConfirmVerdict
  BY <1>8 DEF ConfirmVerdict, MayConfirm, SettleInv, DecisionStands, finance
<1>9. ASSUME NEW d \in Deposits, NEW c \in BOOLEAN, DecideDeposit(d, c) PROVE SettleInv' /\ DecisionStands
  <2>1. confirming = {}
    BY <1>9 DEF DecideDeposit, MayDecideDeposit
  <2>2. ASSUME NEW h \in confirming' PROVE depositHistory \subseteq h.history
    BY <1>9, <2>1 DEF DecideDeposit
  <2>3. \A h, k \in confirming' : h = k
    BY <1>9, <2>1 DEF DecideDeposit
  <2> QED BY <1>9, <2>2, <2>3 DEF DecideDeposit, SettleInv, DecisionStands, dialog
<1>10. ASSUME NEW h \in confirming, DepositDecided(h) PROVE SettleInv' /\ DecisionStands
  BY <1>10 DEF DepositDecided, SettleInv, DecisionStands, dialog
<1> QED BY <1>1, <1>3, <1>4, <1>5, <1>6, <1>7, <1>8, <1>9, <1>10 DEF SettlementNext

\* The settlement pages by themselves let decisions stand.
LEMMA DecisionsHold == SettlementSpec => DecisionsAreFinal
<1>1. SettlementInit => SettleInv
  BY DEF SettlementInit, SettleInv
<1>2. SettleInv /\ UNCHANGED settle => SettleInv'
  BY DEF settle, SettleInv
<1>3. SettleInv /\ [SettlementNext]_settle => [DecisionStands]_settle
  BY SettleStep
<1>4. [][DecisionStands]_settle => DecisionsAreFinal
  BY PTL DEF DecisionsAreFinal, DecisionStands
<1> QED BY <1>1, <1>2, <1>3, <1>4, SettleStep, PTL DEF SettlementSpec

-----------------------------------------------------------------------------
(* Payments from the billing pages *)

\* The shape of a payment under way.
IsPayment(p) ==
    /\ p = [n |-> p.n, of |-> p.of, page |-> p.page, step |-> p.step, mounted |-> p.mounted]
    /\ p.mounted \in BOOLEAN

\* At most one payment belongs to a page that is still mounted, and the form of that page waits
\* for it.
OnePaying(set, waiting) ==
    /\ \A p \in set : IsPayment(p) /\ (p.mounted => waiting)
    /\ \A p, q \in set : p.mounted /\ q.mounted => p = q
PaymentInv == paymentLoading \in BOOLEAN /\ OnePaying(paying, paymentLoading)

\* A payment whose page is left keeps its shape.
LEMMA UnmountedOK ==
    ASSUME NEW p, IsPayment(p), NEW x \in BOOLEAN
    PROVE  IsPayment([p EXCEPT !.mounted = x]) /\ [p EXCEPT !.mounted = x].mounted = x
<1>1. p = [n |-> p.n, of |-> p.of, page |-> p.page, step |-> p.step, mounted |-> p.mounted]
  BY DEF IsPayment
<1>2. [p EXCEPT !.mounted = x] = [n |-> p.n, of |-> p.of, page |-> p.page, step |-> p.step, mounted |-> x]
  BY <1>1
<1> QED BY <1>2 DEF IsPayment

\* Leaving the invoice unmounts its payments.
LEMMA LeaveOK == ASSUME PaymentInv, LeaveInvoice PROVE PaymentInv'
<1>1. ASSUME NEW p \in paying
      PROVE  IsPayment([p EXCEPT !.mounted = FALSE]) /\ ~[p EXCEPT !.mounted = FALSE].mounted
  BY UnmountedOK DEF PaymentInv, OnePaying
<1>2. \A q \in paying' : \E p \in paying : q = [p EXCEPT !.mounted = FALSE]
  BY DEF LeaveInvoice
<1>3. \A q \in paying' : IsPayment(q) /\ ~q.mounted
  BY <1>1, <1>2
<1> QED BY <1>3 DEF LeaveInvoice, PaymentInv, OnePaying

\* A payment that goes on to its next step is the same payment.
LEMMA GoesOnOK == ASSUME PaymentInv, NEW p \in paying, NEW s, GoesOn(p, s) PROVE PaymentInv'
<1> DEFINE q == [p EXCEPT !.step = s]
<1>1. IsPayment(q) /\ q.mounted = p.mounted
  <2>1. p = [n |-> p.n, of |-> p.of, page |-> p.page, step |-> p.step, mounted |-> p.mounted] /\ p.mounted \in BOOLEAN
    BY DEF PaymentInv, OnePaying, IsPayment
  <2>2. q = [n |-> p.n, of |-> p.of, page |-> p.page, step |-> s, mounted |-> p.mounted]
    BY <2>1
  <2> QED BY <2>1, <2>2 DEF IsPayment
<1>2. paying' = (paying \ {p}) \cup {q} /\ paymentLoading' = paymentLoading
  BY DEF GoesOn
<1> HIDE DEF q
<1> QED BY <1>1, <1>2 DEF PaymentInv, OnePaying

\* A payment that ends lowers the flag of its own page.
LEMMA EndsOK == ASSUME PaymentInv, NEW p \in paying, NEW ok, Ends(p, ok) PROVE PaymentInv'
<1>1. p.mounted \in BOOLEAN
  BY DEF PaymentInv, OnePaying, IsPayment
<1> QED BY <1>1 DEF Ends, PaymentInv, OnePaying

\* A payment starts only when no mounted one is under way.
LEMMA SubmitOK == ASSUME PaymentInv, SubmitPayment PROVE PaymentInv'
<1> DEFINE q == [n |-> submitted + 1, of |-> invoice, page |-> deskPage, step |-> "record", mounted |-> TRUE]
<1>1. IsPayment(q)
  BY DEF IsPayment
<1>2. paying' = paying \cup {q} /\ paymentLoading' = TRUE /\ ~paymentLoading
  BY DEF SubmitPayment, MayTouchForm
<1> HIDE DEF q
<1> QED BY <1>1, <1>2 DEF PaymentInv, OnePaying

\* PaymentInv is inductive.
LEMMA DeskStep == ASSUME PaymentInv, DeskNext PROVE PaymentInv'
<1>1. CASE UNCHANGED <<paymentLoading, paying>>
  BY <1>1 DEF PaymentInv
<1>2. CASE (\E l \in Lists : ShowList(l)) \/ OpenDashboard
  BY <1>2, LeaveOK DEF ShowList, OpenDashboard
<1>3. CASE (\E l \in Lists : ClearFilters(l)) \/ ShowOverdue
           \/ (\E l \in Lists, f \in {"all", "some"} : SetFilters(l, f))
           \/ \E l \in Lists, p \in 1..MaxDeskPages : SetPagination(l, p)
  BY <1>1, <1>3 DEF ClearFilters, ShowOverdue, SetFilters, SetPagination, detail, payment
<1>4. CASE (\E e \in listing, ok \in BOOLEAN : ListArrives(e[1], e[2], ok)) \/ (\E ok \in BOOLEAN : OverdueArrive(ok))
           \/ (\E i \in Accounts : CancelInvoice(i) \/ OpenInvoice(i))
           \/ \E i \in Accounts, ok \in BOOLEAN : Cancelled(i, ok) \/ FetchInvoiceDetail(i, ok)
  BY <1>1, <1>4 DEF ListArrives, OverdueArrive, CancelInvoice, OpenInvoice, Cancelled, FetchInvoiceDetail, detail, payment
<1>5. CASE OpenPaymentForm \/ ClosePaymentForm
  BY <1>1, <1>5 DEF OpenPaymentForm, ClosePaymentForm, payment
<1>6. CASE SubmitPayment
  BY <1>6, SubmitOK
<1>7. ASSUME NEW p \in paying, NEW s \in BOOLEAN, NEW ok \in BOOLEAN, RecordPayment(p, s, ok) PROVE PaymentInv'
  BY <1>7, GoesOnOK, EndsOK DEF RecordPayment
<1>8. ASSUME NEW p \in paying, NEW ok \in BOOLEAN, ReloadPaid(p, ok) \/ ShowPaid(p, ok) PROVE PaymentInv'
  BY <1>8, GoesOnOK, EndsOK DEF ReloadPaid, ShowPaid
<1> QED BY <1>2, <1>3, <1>4, <1>5, <1>6, <1>7, <1>8 DEF DeskNext

\* The billing pages by themselves send one payment at a time.
LEMMA PaymentsHold == DeskSpec => []OnePaymentAtATime
<1>1. DeskInit => PaymentInv
  BY DEF DeskInit, PaymentInv, OnePaying
<1>2. PaymentInv /\ UNCHANGED deskVars => PaymentInv'
  BY DEF deskVars, PaymentInv
<1>3. PaymentInv => OnePaymentAtATime
  BY AtMostOne DEF PaymentInv, OnePaying, OnePaymentAtATime
<1> QED BY <1>1, <1>2, <1>3, DeskStep, PTL DEF DeskSpec

-----------------------------------------------------------------------------
(* The payment matrix *)

\* The queries and requests of the payment matrix.
MatrixQueries == [year : Years \cup {FirstMatrix.year, LatestYear}, filter : MatrixFilters]
MatrixRequests == [query : MatrixQueries, alive : BOOLEAN]

\* A request that is not cancelled asks for what the page shows, and the page waits for it.
MatrixInv ==
    /\ matrixQuery \in MatrixQueries /\ matrixLoading \in BOOLEAN /\ matrixError \in BOOLEAN
    /\ matrixAsked \subseteq MatrixRequests
    /\ \A r \in matrixAsked : r.alive => r.query = matrixQuery /\ matrixLoading
    /\ MatrixIsCurrent

\* The clean-up of the effect cancels every request.
LEMMA CleanedUpOK ==
    ASSUME NEW asked \in SUBSET MatrixRequests
    PROVE  CleanedUp(asked) \subseteq MatrixRequests /\ \A r \in CleanedUp(asked) : ~r.alive
<1>1. ASSUME NEW r \in asked PROVE [r EXCEPT !.alive = FALSE] \in MatrixRequests /\ ~[r EXCEPT !.alive = FALSE].alive
  BY DEF MatrixRequests
<1> QED BY <1>1 DEF CleanedUp

\* Asking anew leaves one live request, for the query of the page.
LEMMA AskedOK ==
    ASSUME MatrixInv, NEW rest \in SUBSET matrixAsked, NEW q \in MatrixQueries,
           matrixQuery' = q, matrixLoading' = TRUE, matrixError' = FALSE,
           matrixAsked' = CleanedUp(rest) \cup {[query |-> q, alive |-> TRUE]}
    PROVE  MatrixInv'
<1>1. CleanedUp(rest) \subseteq MatrixRequests /\ \A r \in CleanedUp(rest) : ~r.alive
  <2>1. rest \in SUBSET MatrixRequests
    BY DEF MatrixInv
  <2> QED BY <2>1, CleanedUpOK
<1>2. ASSUME NEW r, r = [query |-> q, alive |-> TRUE] PROVE r \in MatrixRequests /\ r.query = q
  BY <1>2 DEF MatrixRequests
<1>3. matrixAsked' \subseteq MatrixRequests /\ \A r \in matrixAsked' : r.alive => r.query = q
  BY <1>1, <1>2
<1> QED BY <1>3 DEF MatrixInv, MatrixIsCurrent

\* An answer is taken from the live request only, and moves the year to the one answered.
LEMMA MatrixArrivesInv ==
    ASSUME MatrixInv, NEW r \in matrixAsked, NEW ok \in BOOLEAN, MatrixArrives(r, ok)
    PROVE  MatrixInv'
<1> DEFINE answer == [r.query EXCEPT !.year = AnsweredYear(@)]
           next == MovesTo(matrixQuery, answer)
           rest == matrixAsked \ {r}
<1>1. r \in MatrixRequests /\ matrixQuery \in MatrixQueries /\ rest \subseteq MatrixRequests
  BY DEF MatrixInv
<1>2. r.alive => r.query = matrixQuery /\ \A s \in rest : ~s.alive
  BY <1>1 DEF MatrixInv, MatrixRequests
<1>3. r.alive => next = answer /\ answer \in MatrixQueries
  BY <1>1, <1>2 DEF MovesTo, MatrixQueries, AnsweredYear, MatrixRequests, ViewsAssumption
<1>4. CASE ~r.alive /\ matrixAsked' = rest /\ UNCHANGED <<matrixQuery, matrixLoading, matrixError, matrixRows>>
  BY <1>4 DEF MatrixInv, MatrixIsCurrent
<1>5. CASE r.alive /\ ~ok /\ matrixAsked' = rest /\ matrixError' = TRUE /\ matrixLoading' = FALSE /\ UNCHANGED matrixQuery
  BY <1>1, <1>2, <1>5 DEF MatrixInv, MatrixIsCurrent
<1>6. CASE /\ r.alive /\ ok /\ next = matrixQuery /\ matrixAsked' = rest /\ matrixRows' = {answer}
           /\ matrixLoading' = FALSE /\ UNCHANGED <<matrixQuery, matrixError>>
  BY <1>1, <1>2, <1>3, <1>6 DEF MatrixInv, MatrixIsCurrent
<1>7. CASE /\ r.alive /\ ok /\ next # matrixQuery /\ matrixQuery' = next /\ matrixLoading' = TRUE
           /\ matrixError' = FALSE /\ matrixAsked' = CleanedUp(rest) \cup {[query |-> next, alive |-> TRUE]}
  <2>1. next \in MatrixQueries /\ rest \in SUBSET matrixAsked
    BY <1>3, <1>7
  <2> QED BY <1>7, <2>1, AskedOK
<1> QED BY <1>4, <1>5, <1>6, <1>7 DEF MatrixArrives

\* MatrixInv is inductive.
LEMMA MatrixKept == MatrixInv /\ [ViewsNext]_views => MatrixInv'
<1> SUFFICES ASSUME MatrixInv, [ViewsNext]_views PROVE MatrixInv'
  OBVIOUS
<1>1. CASE UNCHANGED matrix
  BY <1>1 DEF matrix, MatrixInv, MatrixIsCurrent
<1>2. CASE MatrixNext
  <2>1. ASSUME NEW y \in Years, NEW f \in MatrixFilters, ChangeMatrixQuery([year |-> y, filter |-> f]) PROVE MatrixInv'
    <3>1. [year |-> y, filter |-> f] \in MatrixQueries
      BY DEF MatrixQueries
    <3> QED BY <2>1, <3>1, AskedOK DEF ChangeMatrixQuery, AskMatrix
  <2>2. CASE ReopenMatrix
    <3>1. FirstMatrix \in MatrixQueries
      BY DEF MatrixQueries, FirstMatrix, MatrixFilters
    <3> QED BY <2>2, <3>1, AskedOK DEF ReopenMatrix, AskMatrix
  <2> QED BY <1>2, <2>1, <2>2, MatrixArrivesInv DEF MatrixNext
<1>3. CASE TemplateNext
  BY <1>1, <1>3 DEF TemplateNext, OpenTemplate, DeleteTempo, FillTemplate, TempoSaved, CloseTemplate, SaveTempo
<1>4. CASE TableNext
  BY <1>1, <1>4 DEF TableNext, ReopenTable, GenerateReport, SetColumn
<1>5. UNCHANGED views => UNCHANGED matrix
  BY DEF views, matrix
<1> QED BY <1>1, <1>2, <1>3, <1>4, <1>5 DEF ViewsNext

\* The billing views by themselves show the matrix that was asked for.
LEMMA MatrixHolds == ViewsSpec => []MatrixIsCurrent
<1>1. ViewsInit => MatrixInv
  <2> SUFFICES ASSUME ViewsInit PROVE MatrixInv
    OBVIOUS
  <2>1. FirstMatrix \in MatrixQueries
    BY DEF MatrixQueries, FirstMatrix, MatrixFilters
  <2>2. ASSUME NEW r, r = [query |-> matrixQuery, alive |-> TRUE] PROVE r \in MatrixRequests /\ r.query = matrixQuery
    BY <2>1, <2>2 DEF ViewsInit, MatrixRequests
  <2> QED BY <2>1, <2>2 DEF ViewsInit, MatrixInv, MatrixIsCurrent
<1>2. MatrixInv => MatrixIsCurrent
  BY DEF MatrixInv
<1> QED BY <1>1, <1>2, MatrixKept, PTL DEF ViewsSpec

-----------------------------------------------------------------------------
(* The package list of the client form *)

\* The shape of a request for packages.
PackageRequest(r) == r = [of |-> r.of, alive |-> r.alive] /\ r.alive \in BOOLEAN

\* The request that is not cancelled is for the category of the form, and a package chosen is one
\* of those shown.
PackageInv ==
    /\ packagesLoading \in BOOLEAN /\ packagesFailed \in BOOLEAN
    /\ \A r \in packageAsked : PackageRequest(r) /\ (r.alive => r.of = category /\ packagesLoading)
    /\ ChosenPackageIsOffered

\* The clean-up cancels every request and keeps its shape.
LEMMA UnwantedOK ==
    ASSUME NEW asked, \A r \in asked : PackageRequest(r)
    PROVE  \A r \in Unwanted(asked) : PackageRequest(r) /\ ~r.alive
<1>1. ASSUME NEW r \in asked, NEW q, q = [r EXCEPT !.alive = FALSE] PROVE PackageRequest(q) /\ ~q.alive
  <2>1. r = [of |-> r.of, alive |-> r.alive]
    BY DEF PackageRequest
  <2>2. q = [of |-> r.of, alive |-> FALSE]
    BY <1>1, <2>1
  <2> QED BY <2>2 DEF PackageRequest
<1> QED BY <1>1 DEF Unwanted

\* PackageInv is inductive.
LEMMA PackageStep == ASSUME PackageInv, ClientFormNext PROVE PackageInv'
<1>1. ASSUME NEW c \in Categories, ChangeCategory(c) PROVE PackageInv'
  <2>1. \A r \in Unwanted(packageAsked) : PackageRequest(r) /\ ~r.alive
    BY UnwantedOK DEF PackageInv
  <2>2. ASSUME NEW r, r = [of |-> c, alive |-> TRUE] PROVE PackageRequest(r) /\ r.of = c
    BY <2>2 DEF PackageRequest
  <2>3. \A r \in packageAsked' : PackageRequest(r) /\ (r.alive => r.of = c)
    BY <1>1, <2>1, <2>2 DEF ChangeCategory
  <2> QED BY <1>1, <2>3 DEF ChangeCategory, PackageInv, ChosenPackageIsOffered
<1>2. ASSUME NEW r \in packageAsked, NEW ok \in BOOLEAN, PackagesArrive(r, ok) PROVE PackageInv'
  <2>1. CASE ~r.alive
    BY <1>2, <2>1 DEF PackagesArrive, PackageInv, ChosenPackageIsOffered
  <2>2. CASE r.alive
    <3>1. \A q \in packageAsked' : PackageRequest(q) /\ ~q.alive
      BY <1>2, <2>2 DEF PackagesArrive, PackageInv, PackageRequest
    <3>2. r.of = category /\ UNCHANGED category /\ packagesFailed' \in BOOLEAN /\ packagesLoading' = FALSE
      BY <1>2, <2>2 DEF PackagesArrive, PackageInv
    <3>3. ChosenPackageIsOffered'
      BY <1>2, <2>2, <3>2 DEF PackagesArrive, ChosenPackageIsOffered, Sold
    <3> QED BY <3>1, <3>2, <3>3 DEF PackageInv
  <2> QED BY <2>1, <2>2
<1>3. ASSUME NEW p \in Packages \cup {"none"}, ChoosePackage(p) PROVE PackageInv'
  BY <1>3 DEF ChoosePackage, VisiblePackages, PackageInv, ChosenPackageIsOffered, Sold
<1>4. CASE UNCHANGED packageVars
  BY <1>4 DEF packageVars, PackageInv, ChosenPackageIsOffered, Sold
<1>5. CASE \/ \E f \in Fields : Fill(f)
           \/ \E ok \in BOOLEAN : LookUp(ok)
           \/ \E o \in Options, today \in Days : ChooseOption(o, today)
           \/ \E t \in Tempos \cup {"none"} : ChooseTempo(t)
           \/ \E d \in Days : SetManualDay(d) \/ Submit(d)
           \/ \E kept, ok \in BOOLEAN : FormAnswered(kept, ok)
  BY <1>4, <1>5 DEF Fill, LookUp, ChooseOption, ChooseTempo, SetManualDay, Submit, FormAnswered
<1> QED BY <1>1, <1>2, <1>3, <1>5 DEF ClientFormNext

\* The client form by itself offers what is chosen.
LEMMA PackagesHold == ClientFormSpec => []ChosenPackageIsOffered
<1>1. ClientFormInit => PackageInv
  <2>1. ASSUME NEW r, r = [of |-> category, alive |-> TRUE] PROVE PackageRequest(r) /\ r.of = category
    BY <2>1 DEF PackageRequest
  <2>2. ClientFormInit =>
          packagesLoading = TRUE /\ packagesFailed = FALSE /\ packageAsked = {[of |-> category, alive |-> TRUE]}
    BY DEF ClientFormInit
  <2> QED BY <2>1, <2>2 DEF PackageInv, ChosenPackageIsOffered
<1>2. PackageInv /\ UNCHANGED clientForm => PackageInv'
  BY DEF clientForm, PackageInv, ChosenPackageIsOffered, Sold
<1>3. PackageInv => ChosenPackageIsOffered
  BY DEF PackageInv
<1> QED BY <1>1, <1>2, <1>3, PackageStep, PTL DEF ClientFormSpec

-----------------------------------------------------------------------------
(* The pages of the client list *)

\* The filters and the pages of the client list.
FilterNames == {"active", "active in group", "all", "some"}
PageNumber == Nat \ {0}
Filters == [filter : FilterNames, page : PageNumber]

\* The number of the page, the number of pages and the filters asked for are in range.
ClientListInv ==
    /\ technician \in BOOLEAN /\ filters \in Filters
    /\ listPage \in Nat \ {0} /\ totalPages \in Nat
    /\ \A r \in listAsked : r.q \in Filters

\* Every branch of getPageNumbers yields pages that exist, and the current one when it does.
LEMMA OfferedPages ==
    ASSUME totalPages \in Nat, listPage \in Nat \ {0}
    PROVE  PagesOfferedExist /\ PagesOffered \subseteq Nat \ {0}
<1>1. totalPages > 1 => PageNumbers \subseteq 1..totalPages /\ (listPage <= totalPages => listPage \in PageNumbers)
  <2>1. CASE totalPages <= 5 \/ listPage <= 3
    BY <2>1 DEF PageNumbers
  <2>2. CASE listPage > 3 /\ totalPages > 5 /\ listPage >= totalPages - 2
    <3>1. PageNumbers = (totalPages - 4)..totalPages
      BY <2>2 DEF PageNumbers
    <3> QED BY <2>2, <3>1
  <2>3. CASE listPage > 3 /\ totalPages > 5 /\ listPage < totalPages - 2
    <3>1. PageNumbers = (listPage - 2)..(listPage + 2)
      BY <2>3 DEF PageNumbers
    <3> QED BY <2>3, <3>1
  <2> QED BY <2>1, <2>2, <2>3
<1>2. PagesOffered \subseteq Nat \ {0}
  <2>1. CASE totalPages <= 1
    BY <2>1 DEF PagesOffered
  <2>2. CASE totalPages > 1
    BY <1>1, <2>2 DEF PagesOffered
  <2> QED BY <2>1, <2>2
<1> QED BY <1>1, <1>2 DEF PagesOfferedExist

\* A fetch asks for filters in range.
LEMMA FetchOK ==
    ASSUME NEW q \in Filters, NEW given \in BOOLEAN, FetchClients(q, given), \A r \in listAsked : r.q \in Filters
    PROVE  \A r \in listAsked' : r.q \in Filters
BY DEF FetchClients

\* ClientListInv is inductive.
LEMMA ClientListStep == ASSUME ClientListInv, ClientDeskNext PROVE ClientListInv'
<1>0. [filter |-> FirstFilter(technician), page |-> 1] \in Filters /\ [filter |-> "active", page |-> 1] \in Filters
  BY DEF FirstFilter, Filters, FilterNames, PageNumber
<1>1. ASSUME NEW r \in listAsked, NEW n \in Totals, NEW ok \in BOOLEAN, ClientsArrive(r, n, ok) PROVE ClientListInv'
  <2>1. r.q \in Filters /\ r.q.page \in Nat \ {0} /\ n \in Nat
    BY ClientDeskAssumption DEF ClientListInv, Filters, PageNumber
  <2> QED BY <1>1, <2>1 DEF ClientsArrive, ClientListInv
<1>2. CASE ShowClients
  <2>1. FetchClients([filter |-> FirstFilter(technician), page |-> 1], TRUE)
    BY <1>2 DEF ShowClients
  <2>2. \A r \in listAsked' : r.q \in Filters
    BY <1>0, <2>1, FetchOK DEF ClientListInv
  <2>3. filters' \in Filters /\ listPage' \in Nat \ {0}
    BY <1>0, <1>2 DEF ShowClients, ClientListInv
  <2> QED BY <1>2, <2>2, <2>3 DEF ShowClients, ClientListInv
<1>3. ASSUME NEW f \in FiltersOf(technician), ChangeFilter(f) PROVE ClientListInv'
  <2>1. [filter |-> f, page |-> 1] \in Filters
    <3>1. f \in FilterNames
      <4>1. technician \in BOOLEAN
        BY DEF ClientListInv
      <4>2. technician => FiltersOf(technician) = {"active", "active in group"}
        BY DEF FiltersOf
      <4>3. ~technician => FiltersOf(technician) = {"all", "some"}
        BY DEF FiltersOf
      <4> QED BY <4>1, <4>2, <4>3 DEF FilterNames
    <3>2. 1 \in PageNumber
      BY DEF PageNumber
    <3> QED BY <3>1, <3>2 DEF Filters
  <2>2. FetchClients([filter |-> f, page |-> 1], TRUE)
    BY <1>3 DEF ChangeFilter
  <2>3. \A r \in listAsked' : r.q \in Filters
    BY <2>1, <2>2, FetchOK DEF ClientListInv
  <2> QED BY <1>3, <2>1, <2>3 DEF ChangeFilter, ClientListInv
<1>4. ASSUME NEW n \in PagesOffered, ChangePage(n) PROVE ClientListInv'
  <2>1. n \in Nat \ {0}
    BY <1>4, OfferedPages DEF ClientListInv
  <2>2. [filters EXCEPT !.page = n] \in Filters
    BY <2>1 DEF ClientListInv, Filters, PageNumber
  <2> QED BY <1>4, <2>1, <2>2, FetchOK DEF ChangePage, ClientListInv
<1>5. ASSUME NEW c \in Clients, ChangeStatus(c) \/ OpenClient(c) \/ DeleteClient(c) PROVE ClientListInv'
  BY <1>5 DEF ChangeStatus, OpenClient, DeleteClient, listVars, ClientListInv
<1>6. ASSUME NEW x \in changing, NEW ok \in BOOLEAN, StatusChanged(x, ok) PROVE ClientListInv'
  <2>1. [filters EXCEPT !.page = filters.page] \in Filters
    BY DEF ClientListInv, Filters, PageNumber
  <2>2. listAsked' = listAsked \/ FetchClients([filters EXCEPT !.page = filters.page], FALSE)
    BY <1>6 DEF StatusChanged
  <2> QED BY <1>6, <2>1, <2>2, FetchOK DEF StatusChanged, ClientListInv
<1>7. ASSUME NEW c \in Clients, NEW ok \in BOOLEAN, ClientArrives(c, ok) PROVE ClientListInv'
  BY <1>7 DEF ClientArrives, listVars, ClientListInv
<1>8. ASSUME NEW c \in Clients, NEW ok \in BOOLEAN, ClientDeleted(c, ok) PROVE ClientListInv'
  <2>2. listAsked' = listAsked \/ FetchClients([filter |-> FirstFilter(technician), page |-> 1], TRUE)
    BY <1>8 DEF ClientDeleted
  <2> QED BY <1>8, <1>0, <2>2, FetchOK DEF ClientDeleted, ClientListInv
<1> QED BY <1>1, <1>2, <1>3, <1>4, <1>5, <1>6, <1>7, <1>8 DEF ClientDeskNext

\* The client pages by themselves offer pages that exist.
LEMMA PagesHold == ClientDeskSpec => []PagesOfferedExist
<1>1. ClientDeskInit => ClientListInv
  <2> SUFFICES ASSUME ClientDeskInit PROVE ClientListInv
    OBVIOUS
  <2>1. filters \in Filters
    BY DEF ClientDeskInit, FirstFilter, Filters, FilterNames, PageNumber
  <2> QED BY <2>1 DEF ClientDeskInit, ClientListInv
<1>2. ClientListInv /\ UNCHANGED clientDesk => ClientListInv'
  BY DEF clientDesk, ClientListInv
<1>3. ClientListInv => PagesOfferedExist
  BY OfferedPages DEF ClientListInv
<1> QED BY <1>1, <1>2, <1>3, ClientListStep, PTL DEF ClientDeskSpec

-----------------------------------------------------------------------------
(* Vouchers and PPPoE secrets *)

\* On the voucher page a handler under way keeps the flag up, and there is one at most.
HandlerInv ==
    OnVouchers => (handlers # {} => accessLoading) /\ \A g, h \in handlers : g = h

\* A handler starts only when the flag is down.
LEMMA RunOK ==
    ASSUME HandlerInv, NEW op, NEW of, NEW phase, NEW f, Run(op, of, phase, f), UNCHANGED accessPage,
           ~accessLoading \/ ~OnVouchers
    PROVE  HandlerInv'
BY DEF Run, HandlerInv, OnVouchers

\* HandlerInv is inductive.
LEMMA AccessStep == ASSUME HandlerInv, AccessNext PROVE HandlerInv'
<1>1. CASE Load \/ CreatePackage \/ Generate \/ ConfirmDelete \/ CreateSecret
  BY <1>1, RunOK DEF Load, CreatePackage, Generate, ConfirmDelete, CreateSecret, Begin
<1>2. CASE CloseDialog \/ (\E b \in Bundles \cup {"none"} : ChooseBundle(b))
           \/ \E kind \in {"delete", "edit", "delete package", "create"}, of \in Items \cup Bundles \cup {"none"} :
                AskFor(kind, of)
  BY <1>2 DEF CloseDialog, ChooseBundle, AskFor, HandlerInv, OnVouchers
<1>3. ASSUME NEW h \in handlers, NEW ok \in BOOLEAN, ListsArrive(h, ok) PROVE HandlerInv'
  BY <1>3 DEF ListsArrive, HandlerInv, OnVouchers
<1>4. ASSUME NEW h \in handlers, NEW times \in 0..MaxDeliveries, NEW ok \in BOOLEAN, Answered(h, times, ok)
      PROVE  HandlerInv'
  <2>1. UNCHANGED accessPage
        /\ \/ \E g : handlers' = (handlers \ {h}) \cup {g} /\ accessLoading' = TRUE
           \/ handlers' = handlers \ {h}
    BY <1>4 DEF Answered
  <2> QED BY <2>1 DEF HandlerInv, OnVouchers
<1>5. ASSUME NEW i \in Items, ToggleStatus(i) \/ ToggleIsolate(i) PROVE HandlerInv'
  BY <1>5, RunOK DEF ToggleStatus, ToggleIsolate, MayToggleVoucher, Begin
<1>6. ASSUME NEW i \in Items, ToggleSecret(i) \/ SyncSecret(i) PROVE HandlerInv'
  <2>1. ~OnVouchers
    BY <1>6 DEF ToggleSecret, SyncSecret, OnSecrets, OnVouchers
  <2> QED BY <1>6, <2>1, RunOK DEF ToggleSecret, SyncSecret, Begin
<1>7. ASSUME NEW b \in Bundles, SyncPackage(b) PROVE HandlerInv'
  BY <1>7, RunOK DEF SyncPackage, Begin
<1>8. ASSUME NEW r \in Nases \cup {"all"}, SelectRouter(r) PROVE HandlerInv'
  BY <1>8, RunOK DEF SelectRouter, OnSecrets, OnVouchers
<1> QED BY <1>1, <1>2, <1>3, <1>4, <1>5, <1>6, <1>7, <1>8 DEF AccessNext

\* The voucher and secret pages by themselves run one handler at a time.
LEMMA HandlersHold == AccessSpec => []OneHandlerAtATime
<1>1. AccessInit => HandlerInv
  BY DEF AccessInit, HandlerInv
<1>2. HandlerInv /\ UNCHANGED access => HandlerInv'
  BY DEF access, HandlerInv, OnVouchers
<1>3. HandlerInv => OneHandlerAtATime
  BY AtMostOne DEF HandlerInv, OneHandlerAtATime
<1> QED BY <1>1, <1>2, <1>3, AccessStep, PTL DEF AccessSpec

-----------------------------------------------------------------------------
(* Service setup *)

\* The shape of a saving under way.
IsSave(s) == s = [kind |-> s.kind, of |-> s.of, entry |-> s.entry, reloads |-> s.reloads, n |-> s.n]

\* A saving under way holds the flag of its kind, and there is one of a kind at most.
SavesOK(saves, kinds) ==
    /\ \A s \in saves : IsSave(s) /\ s.kind \in kinds
    /\ \A s, t \in saves : s.kind = t.kind => s = t
SaveInv == SavesOK(setupSaves, setupSaving)

\* A saving that goes on to reload keeps its shape and kind.
LEMMA SaveGoesOn ==
    ASSUME NEW s, IsSave(s), NEW x
    PROVE  IsSave([s EXCEPT !.reloads = x]) /\ [s EXCEPT !.reloads = x].kind = s.kind
<1>1. s = [kind |-> s.kind, of |-> s.of, entry |-> s.entry, reloads |-> s.reloads, n |-> s.n]
  BY DEF IsSave
<1>2. [s EXCEPT !.reloads = x] = [kind |-> s.kind, of |-> s.of, entry |-> s.entry, reloads |-> x, n |-> s.n]
  BY <1>1
<1> QED BY <1>2 DEF IsSave

\* A saving starts only when the flag of its kind is down.
LEMMA SaveEntryOK == ASSUME SaveInv, NEW k \in Kinds, SaveEntry(k) PROVE SaveInv'
<1> DEFINE s == [kind |-> k, of |-> setupDialog.of, entry |-> setupForm, reloads |-> FALSE, n |-> setupRequests]
<1>1. IsSave(s) /\ s.kind = k
  BY DEF IsSave
<1>2. setupSaves' = setupSaves \cup {s} /\ setupSaving' = setupSaving \cup {k} /\ k \notin setupSaving
  BY DEF SaveEntry, MaySave
<1> HIDE DEF s
<1> QED BY <1>1, <1>2 DEF SaveInv, SavesOK

\* An answer turns a saving into its reload, or ends it and lowers the flag of its kind.
LEMMA SaveAnsweredOK ==
    ASSUME SaveInv, NEW s \in setupSaves, NEW kept \in BOOLEAN, NEW ok \in BOOLEAN, SaveAnswered(s, kept, ok)
    PROVE  SaveInv'
<1> DEFINE t == [s EXCEPT !.reloads = TRUE]
<1>1. IsSave(t) /\ t.kind = s.kind
  BY SaveGoesOn DEF SaveInv, SavesOK
<1>2. \/ setupSaves' = (setupSaves \ {s}) \cup {t} /\ setupSaving' = setupSaving
      \/ setupSaves' = setupSaves \ {s} /\ setupSaving' = setupSaving \ {s.kind}
  BY DEF SaveAnswered, inDialog
<1> HIDE DEF t
<1> QED BY <1>1, <1>2 DEF SaveInv, SavesOK

\* SaveInv is inductive.
LEMMA ServiceStep == ASSUME SaveInv, SetupNext PROVE SaveInv'
<1>1. CASE UNCHANGED <<setupSaves, setupSaving>>
  BY <1>1 DEF SaveInv
<1>2. CASE (\E ok \in BOOLEAN : FirstReload(ok)) \/ CloseSetup \/ (\E k \in Kinds : OpenNew(k))
           \/ (\E d \in setupDeletes, ok \in BOOLEAN : ReloadAfterDelete(d, ok))
           \/ \E n \in 1..MaxEntries : OpenEdit(n) \/ DeleteEntry(n)
  BY <1>1, <1>2 DEF FirstReload, CloseSetup, OpenNew, ReloadAfterDelete, OpenEdit, DeleteEntry
<1>3. CASE (\E lite \in BOOLEAN : FillPackage(lite))
           \/ (\E percent \in BOOLEAN, value \in Percents : FillDiscount(percent, value))
           \/ \E d \in setupDeletes, kept, ok \in BOOLEAN : DeleteAnswered(d, kept, ok)
  BY <1>1, <1>3 DEF FillPackage, FillDiscount, DeleteAnswered
<1>4. ASSUME NEW s \in setupSaves, NEW ok \in BOOLEAN, ReloadAfterSave(s, ok) PROVE SaveInv'
  BY <1>4 DEF ReloadAfterSave, SaveInv, SavesOK
<1>5. ASSUME NEW k \in Kinds, SaveEntry(k) PROVE SaveInv'
  BY <1>5, SaveEntryOK
<1>6. ASSUME NEW s \in setupSaves, NEW kept \in BOOLEAN, NEW ok \in BOOLEAN, SaveAnswered(s, kept, ok) PROVE SaveInv'
  BY <1>6, SaveAnsweredOK
<1> QED BY <1>2, <1>3, <1>4, <1>5, <1>6 DEF SetupNext

\* The service setup by itself saves one entry of a kind at a time.
LEMMA ServicesHold == SetupSpec => []OneSavePerKind
<1>1. SetupInit => SaveInv
  BY DEF SetupInit, SaveInv, SavesOK
<1>2. SaveInv /\ UNCHANGED setup => SaveInv'
  BY DEF setup, SaveInv
<1>3. SaveInv => OneSavePerKind
  BY AtMostOne DEF SaveInv, SavesOK, OneSavePerKind
<1> QED BY <1>1, <1>2, <1>3, ServiceStep, PTL DEF SetupSpec

-----------------------------------------------------------------------------
(* Router setup: the firewall card *)

\* The calls that install, and the shape of a call of the card.
Installs(c) == c.op \in {"install", "reinstall"}
IsFirewallCall(c) == c = [op |-> c.op, ip |-> c.ip, done |-> c.done, n |-> c.n]

\* An installation under way keeps its flag up, and there is one at most.
InstallInv ==
    /\ \A c \in firewallCalls : IsFirewallCall(c) /\ (Installs(c) => installing)
    /\ \A c, d \in firewallCalls : Installs(c) /\ Installs(d) => c = d

\* A call that starts is a call of the operation it was started for.
LEMMA FirewallCallOK ==
    ASSUME NEW op, NEW ip, FirewallCall(op, ip)
    PROVE  \E c : IsFirewallCall(c) /\ c.op = op /\ firewallCalls' = firewallCalls \cup {c}
<1>1. firewallCalls' = firewallCalls \cup {[op |-> op, ip |-> ip, done |-> FALSE, n |-> firewallAsked']}
  BY DEF FirewallCall
<1>2. ASSUME NEW x, NEW m
      PROVE  LET c == [op |-> op, ip |-> ip, done |-> x, n |-> m] IN IsFirewallCall(c) /\ c.op = op
  BY DEF IsFirewallCall
<1> QED BY <1>1, <1>2, Zenon

\* A call the router has carried out is the same call.
LEMMA CallDoneOK ==
    ASSUME NEW c, IsFirewallCall(c), NEW x
    PROVE  IsFirewallCall([c EXCEPT !.done = x]) /\ [c EXCEPT !.done = x].op = c.op
<1>1. c = [op |-> c.op, ip |-> c.ip, done |-> c.done, n |-> c.n]
  BY DEF IsFirewallCall
<1>2. [c EXCEPT !.done = x] = [op |-> c.op, ip |-> c.ip, done |-> x, n |-> c.n]
  BY <1>1
<1> QED BY <1>2 DEF IsFirewallCall

\* InstallInv is kept by the steps of the card.
LEMMA CardStep == ASSUME InstallInv, CardSteps PROVE InstallInv'
<1>1. CASE UNCHANGED <<firewallCalls, installing>>
  BY <1>1 DEF InstallInv
<1>2. CASE (\E ip \in HotspotIPs : EnterIP(ip)) \/ UpdateMode \/ CancelUpdate
  BY <1>1, <1>2 DEF EnterIP, UpdateMode, CancelUpdate
<1>3. CASE (\E ip \in HotspotIPs : Install(ip)) \/ Reinstall
  <2>1. PICK op, ip : FirewallCall(op, ip) /\ ~installing /\ installing'
    BY <1>3 DEF Install, Reinstall, MayInstall
  <2>2. PICK c : IsFirewallCall(c) /\ firewallCalls' = firewallCalls \cup {c}
    BY <2>1, FirewallCallOK
  <2> QED BY <2>1, <2>2 DEF InstallInv
<1>4. CASE Uninstall
  <2>1. FirewallCall("uninstall", 0) /\ UNCHANGED installing
    BY <1>4 DEF Uninstall
  <2>2. PICK c : IsFirewallCall(c) /\ c.op = "uninstall" /\ firewallCalls' = firewallCalls \cup {c}
    BY <2>1, FirewallCallOK
  <2> QED BY <2>1, <2>2 DEF InstallInv, Installs
<1>5. ASSUME NEW c \in firewallCalls, RouterDoes(c) PROVE InstallInv'
  <2> DEFINE d == [c EXCEPT !.done = TRUE]
  <2>1. IsFirewallCall(d) /\ d.op = c.op
    BY CallDoneOK DEF InstallInv
  <2>2. firewallCalls' = (firewallCalls \ {c}) \cup {d} /\ UNCHANGED installing
    BY <1>5 DEF RouterDoes
  <2> HIDE DEF d
  <2> QED BY <2>1, <2>2 DEF InstallInv, Installs
<1>6. ASSUME NEW c \in firewallCalls, NEW ok \in BOOLEAN, FirewallAnswered(c, ok) PROVE InstallInv'
  <2>1. firewallCalls' = firewallCalls \ {c} /\ (UNCHANGED installing \/ Installs(c))
    BY <1>6 DEF FirewallAnswered, FirstStatus, Installed, Reinstalled, Uninstalled, Installs
  <2> QED BY <2>1 DEF InstallInv
<1> QED BY <1>2, <1>3, <1>4, <1>5, <1>6 DEF CardSteps

\* The steps of the form leave the card alone.
LEMMA FormLeavesCard == ASSUME InstallInv, FormSteps PROVE InstallInv'
<1>1. UNCHANGED cardState
  BY DEF FormSteps, OpenForm, Provisioned, RouterSaved, FromScript, BackToScript, Walks, EditConfig, Verified,
         LeaveForm, Provision, Verify, Complete, CompleteByKey, Save, Ask
<1> QED BY <1>1 DEF cardState, InstallInv

\* The firewall card by itself installs once at a time.
LEMMA InstallsHold == SetupPageInit /\ [][FormSteps \/ CardSteps]_setupVars => []OneInstallAtATime
<1>1. SetupPageInit => InstallInv
  <2> SUFFICES ASSUME SetupPageInit PROVE InstallInv
    OBVIOUS
  <2> DEFINE f == [op |-> "first", ip |-> 0, done |-> FALSE, n |-> 0]
  <2>1. IsFirewallCall(f) /\ ~Installs(f)
    BY DEF IsFirewallCall, Installs
  <2>2. firewallCalls = {f}
    BY DEF SetupPageInit, CardInit
  <2> HIDE DEF f
  <2> QED BY <2>1, <2>2 DEF InstallInv
<1>2. InstallInv /\ UNCHANGED setupVars => InstallInv'
  BY DEF setupVars, cardState, InstallInv
<1>3. InstallInv => OneInstallAtATime
  <2> SUFFICES ASSUME InstallInv PROVE OneInstallAtATime
    OBVIOUS
  <2> DEFINE S == {c \in firewallCalls : c.op \in {"install", "reinstall"}}
  <2>1. \A x, y \in S : x = y
    BY DEF InstallInv, Installs
  <2> HIDE DEF S
  <2>2. Cardinality(S) <= 1
    BY <2>1, AtMostOne
  <2> QED BY <2>2 DEF S, OneInstallAtATime
<1> QED BY <1>1, <1>2, <1>3, CardStep, FormLeavesCard, PTL

-----------------------------------------------------------------------------
(* Networks and routers: calls and lists *)

\* The requests a handler of the page makes, one after the other.
StepLists == {<<"list">>, <<"one">>, <<"update">>, <<"create">>, <<"delete">>, <<"one", "list">>,
              <<"test", "one", "list">>, <<"disconnect", "one", "list">>}

\* The shape of a handler under way; one that deletes makes that one request.
IsCall(c) ==
    /\ c = [kind |-> c.kind, id |-> c.id, op |-> c.op, steps |-> c.steps, got |-> c.got, at |-> c.at, n |-> c.n]
    /\ c.kind \in DeviceKinds /\ c.steps \in StepLists /\ (c.op = "delete" <=> c.steps = <<"delete">>)
    /\ c.n \in Nat

\* The handlers that wait for a list: their kind is marked as loading, and there is one of a kind
\* at most.
AsksList(c) == Head(c.steps) = "list"
ListsOK(calls, loading) ==
    /\ \A c \in calls : AsksList(c) => c.kind \in loading
    /\ \A c, d \in calls : AsksList(c) /\ AsksList(d) /\ c.kind = d.kind => c = d

\* The deletions of the dialogs there are, the tables of which were last taken away at "lost":
\* the dialog names the item, its button is held, and there is one of a kind at most.
InDialog(c, lost) == c.op = "delete" /\ c.at # "one" /\ c.n > lost[c.kind]
DeletesOK(calls, lost, names, deletes, asked) ==
    /\ \A c \in calls : c.op = "delete" => c.n <= asked
    /\ \A c \in calls : InDialog(c, lost) => names[c.kind] = c.id /\ c.id # "none" /\ c.kind \in deletes
    /\ \A c, d \in calls : InDialog(c, lost) /\ InDialog(d, lost) /\ c.kind = d.kind => c = d

\* Lists and deletions are in order.
RoutersInv ==
    /\ networkAsked \in Nat /\ routerPage.kind \in DeviceKinds
    /\ toDelete \in [DeviceKinds -> Devices \cup Profiles \cup {"none"}]
    /\ \A c \in networkCalls : IsCall(c)
    /\ ListsOK(networkCalls, itemsLoading)
    /\ DeletesOK(networkCalls, lostAt, toDelete, deletingItem, networkAsked)

\* The steps of a handler.
LEMMA StepListsOK ==
    ASSUME NEW s \in StepLists
    PROVE  /\ Head(s) = "list" => s = <<"list">> /\ Tail(s) = <<>>
           /\ Head(s) = "delete" <=> s = <<"delete">>
           /\ s # <<>> /\ (s = <<"delete">> => Tail(s) = <<>>)
           /\ Tail(s) # <<>> => Tail(s) \in StepLists /\ Tail(s) # <<"delete">>
<1>1. CASE s \in {<<"list">>, <<"one">>, <<"update">>, <<"create">>, <<"delete">>}
  <2>2. \E a \in {"list", "one", "update", "create", "delete"} : s = <<a>>
    BY <1>1
  <2>3. \A a : Head(<<a>>) = a /\ Tail(<<a>>) = <<>> /\ <<a>> # <<>>
    OBVIOUS
  <2>4. PICK a : s = <<a>> /\ Head(s) = a /\ Tail(s) = <<>> /\ s # <<>>
    BY <2>2, <2>3
  <2> QED BY <2>4
<1>2. CASE s = <<"one", "list">>
  BY <1>2 DEF StepLists
<1>3. CASE s = <<"test", "one", "list">>
  <2>1. Tail(s) = <<"one", "list">> /\ Head(s) = "test"
    BY <1>3
  <2> QED BY <1>3, <2>1 DEF StepLists
<1>4. CASE s = <<"disconnect", "one", "list">>
  <2>1. Tail(s) = <<"one", "list">> /\ Head(s) = "disconnect"
    BY <1>4
  <2> QED BY <1>4, <2>1 DEF StepLists
<1> QED BY <1>1, <1>2, <1>3, <1>4 DEF StepLists

\* A call that starts has the shape of a call.
LEMMA CallIsOK ==
    ASSUME NEW k \in DeviceKinds, NEW i, NEW s \in StepLists, networkAsked' \in Nat
    PROVE  /\ IsCall(Call(k, i, s)) /\ Call(k, i, s).kind = k /\ Call(k, i, s).id = i
           /\ Call(k, i, s).op = Head(s) /\ Call(k, i, s).steps = s /\ Call(k, i, s).at = routerPage'.page /\ Call(k, i, s).n = networkAsked'
<1>1. Head(s) = "delete" <=> s = <<"delete">>
  BY StepListsOK
<1> QED BY <1>1 DEF Call, IsCall

\* Calls that are dropped.
LEMMA FewerCalls ==
    ASSUME NEW C, NEW D \in SUBSET C
    PROVE  /\ \A L : ListsOK(C, L) => ListsOK(D, L)
           /\ \A p, t, del, n : DeletesOK(C, p, t, del, n) => DeletesOK(D, p, t, del, n)
BY DEF ListsOK, DeletesOK

\* The lists that a page asks for.
LEMMA FetchListsOK ==
    ASSUME NEW C, NEW kinds \in SUBSET DeviceKinds, \A c \in C : IsCall(c), ListsOK(C, itemsLoading),
           networkAsked' \in Nat, FetchLists(C, kinds)
    PROVE  /\ ListsOK(networkCalls', itemsLoading')
           /\ \A c \in networkCalls' : IsCall(c) /\ (c.op = "delete" => c \in C)
<1>1. <<"list">> \in StepLists /\ Head(<<"list">>) = "list"
  BY DEF StepLists
<1> DEFINE asked == {k \in kinds : MayList(k)}
           R(k) == Call(k, "none", <<"list">>)
<1>2. \A k \in DeviceKinds : IsCall(R(k)) /\ R(k).kind = k /\ R(k).op = "list" /\ AsksList(R(k))
  BY <1>1, CallIsOK DEF AsksList
<1>3. asked \subseteq DeviceKinds /\ asked \cap itemsLoading = {}
  BY DEF MayList
<1>4. networkCalls' = C \cup {R(k) : k \in asked} /\ itemsLoading' = itemsLoading \cup asked
  BY DEF FetchLists
<1> HIDE DEF asked, R
<1>5. ASSUME NEW c \in networkCalls', AsksList(c) PROVE c.kind \in itemsLoading'
  BY <1>2, <1>3, <1>4, <1>5 DEF ListsOK
<1>6. ASSUME NEW c \in networkCalls', NEW d \in networkCalls', AsksList(c), AsksList(d), c.kind = d.kind PROVE c = d
  BY <1>2, <1>3, <1>4, <1>6 DEF ListsOK
<1>7. \A c \in networkCalls' : IsCall(c) /\ (c.op = "delete" => c \in C)
  BY <1>2, <1>3, <1>4
<1> QED BY <1>5, <1>6, <1>7 DEF ListsOK

\* What a page asks for when it is opened.
LEMMA ArrivesOK ==
    ASSUME NEW C, \A c \in C : IsCall(c), ListsOK(C, itemsLoading), NEW p,
           p.kind \in DeviceKinds, networkAsked' \in Nat, Arrives(C, p)
    PROVE  /\ ListsOK(networkCalls', itemsLoading')
           /\ \A c \in networkCalls' : IsCall(c) /\ (c.op = "delete" => c \in C)
<1>1. CASE p.page = "home"
  <2>1. FetchLists(C, DeviceKinds)
    BY <1>1 DEF Arrives
  <2> QED BY <2>1, FetchListsOK
<1>2. CASE p.page = "list"
  <2>1. FetchLists(C, {p.kind})
    BY <1>2 DEF Arrives
  <2> QED BY <2>1, FetchListsOK
<1>3. CASE p.page \in {"one", "edit"}
  <2>1. <<"one">> \in StepLists /\ Head(<<"one">>) = "one"
    BY DEF StepLists
  <2> DEFINE r == Call(p.kind, p.id, <<"one">>)
  <2>2. IsCall(r) /\ r.op = "one" /\ ~AsksList(r)
    BY <2>1, CallIsOK DEF AsksList
  <2>3. networkCalls' = C \cup {r} /\ itemsLoading' = itemsLoading
    BY <1>3 DEF Arrives, FetchOne
  <2> HIDE DEF r
  <2> QED BY <2>2, <2>3 DEF ListsOK
<1>4. CASE p.page \notin {"home", "list", "one", "edit"}
  BY <1>4 DEF Arrives
<1> QED BY <1>1, <1>2, <1>3, <1>4

-----------------------------------------------------------------------------
(* Networks and routers: deletions *)

\* Calls without a new deletion, tables that stay.
LEMMA SameTables ==
    ASSUME NEW C, NEW D, NEW lost, NEW names, NEW deletes, NEW asked \in Nat, NEW later \in Nat, asked <= later,
           \A c \in C : IsCall(c), DeletesOK(C, lost, names, deletes, asked), \A c \in D : c.op = "delete" => c \in C
    PROVE  DeletesOK(D, lost, names, deletes, later)
<1>1. ASSUME NEW c \in D, c.op = "delete" PROVE c \in C /\ c.n <= later
  <2>1. c \in C /\ c.n \in Nat /\ c.n <= asked
    BY <1>1 DEF DeletesOK, IsCall
  <2> QED BY <2>1
<1>2. \A c \in D : InDialog(c, lost) => c \in C
  BY DEF InDialog
<1> QED BY <1>1, <1>2 DEF DeletesOK

\* Tables that are taken away, of the kinds in gone: their deletions are no dialog's any more.
LEMMA TablesGo ==
    ASSUME NEW C, \A c \in C : IsCall(c), NEW gone, NEW deletes, NEW t, NEW d, networkAsked' \in Nat,
           DeletesOK(C, lostAt, toDelete, deletes, networkAsked'), Keeping(gone, deletes, t, d)
    PROVE  DeletesOK(C, lostAt', toDelete', deletingItem', networkAsked')
<1>1. /\ toDelete' = [k \in DeviceKinds |-> IF k \in gone THEN "none" ELSE toDelete[k]]
      /\ deletingItem' = deletes \ gone
      /\ lostAt' = [k \in DeviceKinds |-> IF k \in gone THEN networkAsked' ELSE lostAt[k]]
  BY DEF Keeping
<1>2. ASSUME NEW c \in C, InDialog(c, lostAt') PROVE c.kind \in DeviceKinds \ gone /\ InDialog(c, lostAt)
  <2>1. c.kind \in DeviceKinds /\ c.n \in Nat /\ c.n <= networkAsked'
    BY <1>2 DEF InDialog, IsCall, DeletesOK
  <2>2. c.kind \notin gone
    <3> SUFFICES ASSUME c.kind \in gone PROVE FALSE
      OBVIOUS
    <3>1. c.n > networkAsked'
      BY <1>1, <1>2, <2>1 DEF InDialog
    <3> QED BY <2>1, <3>1
  <2> QED BY <1>1, <1>2, <2>1, <2>2 DEF InDialog
<1> QED BY <1>1, <1>2 DEF DeletesOK

\* The dialogs name items.
LEMMA NamesOK ==
    ASSUME toDelete \in [DeviceKinds -> Devices \cup Profiles \cup {"none"}], NEW gone, NEW deletes, NEW t, NEW d,
           Keeping(gone, deletes, t, d)
    PROVE  toDelete' \in [DeviceKinds -> Devices \cup Profiles \cup {"none"}]
BY DEF Keeping

\* The end of a deletion.
LEMMA DeletionOver ==
    ASSUME RoutersInv, NEW c \in networkCalls, NEW names, NEW deletes,
           \/ names = toDelete /\ deletes = deletingItem
           \/ /\ c.op = "delete" /\ StillThere(c) /\ deletes = deletingItem \ {c.kind}
              /\ names \in {toDelete, [toDelete EXCEPT ![c.kind] = "none"]}
    PROVE  DeletesOK(networkCalls \ {c}, lostAt, names, deletes, networkAsked)
<1> DEFINE C == networkCalls \ {c}
<1>0. DeletesOK(networkCalls, lostAt, toDelete, deletingItem, networkAsked) /\ \A d \in networkCalls : IsCall(d)
  BY DEF RoutersInv
<1>1. DeletesOK(C, lostAt, toDelete, deletingItem, networkAsked)
  BY <1>0, FewerCalls
<1>2. CASE names = toDelete /\ deletes = deletingItem
  BY <1>1, <1>2
<1>3. CASE /\ c.op = "delete" /\ StillThere(c) /\ deletes = deletingItem \ {c.kind}
           /\ names \in {toDelete, [toDelete EXCEPT ![c.kind] = "none"]}
  <2>1. ASSUME NEW d \in C, InDialog(d, lostAt) PROVE names[d.kind] = d.id /\ d.id # "none" /\ d.kind \in deletes
    <3>1. InDialog(c, lostAt)
      BY <1>3 DEF InDialog, StillThere
    <3>2. d.kind # c.kind /\ d.kind \in DeviceKinds
      BY <1>0, <2>1, <3>1 DEF DeletesOK, IsCall
    <3>3. names[d.kind] = toDelete[d.kind]
      BY <1>3, <3>2 DEF RoutersInv
    <3> QED BY <1>1, <1>3, <2>1, <3>2, <3>3 DEF DeletesOK
  <2> QED BY <1>1, <2>1 DEF DeletesOK
<1> QED BY <1>2, <1>3

\* A page that is new: the dialogs of earlier ones are not its own.
LEMMA NewPageOK ==
    ASSUME RoutersInv, NEW C \in SUBSET networkCalls, NEW page0, NEW k \in DeviceKinds, NEW i,
           NewPage(At(page0, k, i)), networkAsked' \in {networkAsked, networkAsked + 1}, Arrives(C, routerPage')
    PROVE  RoutersInv'
<1>1. networkAsked' \in Nat /\ networkAsked \in Nat /\ networkAsked <= networkAsked'
  BY DEF RoutersInv
<1>2. routerPage'.kind = k /\ Keeping(DeviceKinds, {}, "none", "none")
  BY DEF NewPage, At
<1>3. ListsOK(C, itemsLoading) /\ \A c \in C : IsCall(c)
  BY FewerCalls DEF RoutersInv
<1>4. ListsOK(networkCalls', itemsLoading') /\ \A c \in networkCalls' : IsCall(c) /\ (c.op = "delete" => c \in C)
  BY <1>1, <1>2, <1>3, ArrivesOK
<1>5. lostAt' = [j \in DeviceKinds |-> networkAsked']
  BY <1>2 DEF Keeping
<1>6. ASSUME NEW c \in networkCalls', c.op = "delete" PROVE c.n <= networkAsked' /\ ~InDialog(c, lostAt')
  <2>1. c \in networkCalls /\ c.n \in Nat /\ c.n <= networkAsked /\ c.kind \in DeviceKinds
    BY <1>4, <1>6 DEF RoutersInv, DeletesOK, IsCall
  <2>2. c.n <= networkAsked' /\ lostAt'[c.kind] = networkAsked'
    BY <1>1, <1>5, <2>1
  <2> QED BY <1>1, <2>1, <2>2 DEF InDialog
<1>7. DeletesOK(networkCalls', lostAt', toDelete', deletingItem', networkAsked')
  BY <1>6 DEF DeletesOK, InDialog
<1>8. toDelete' \in [DeviceKinds -> Devices \cup Profiles \cup {"none"}]
  BY <1>2, NamesOK DEF RoutersInv
<1> QED BY <1>1, <1>2, <1>4, <1>7, <1>8 DEF RoutersInv

\* A page the user opens.
LEMMA GoOK == ASSUME RoutersInv, NEW page0, NEW k \in DeviceKinds, NEW i, Go(page0, k, i) PROVE RoutersInv'
<1>1. NewPage(At(page0, k, i)) /\ Arrives(networkCalls, routerPage') /\ networkAsked' = networkAsked + 1
  BY DEF Go, User
<1> QED BY <1>1, NewPageOK

\* A page that the answer to a handler opens, if its own is still there.
LEMMA MovesOK ==
    ASSUME RoutersInv, NEW c \in networkCalls, NEW page0, NEW i, NEW held, Moves(c, page0, i, held), UNCHANGED networkAsked
    PROVE  RoutersInv'
<1>1. c.kind \in DeviceKinds
  BY DEF RoutersInv, IsCall
<1>2. CASE NewPage(At(page0, c.kind, i)) /\ Arrives(networkCalls \ {c}, routerPage')
  BY <1>1, <1>2, NewPageOK
<1>3. CASE networkCalls' = networkCalls \ {c} /\ UNCHANGED <<itemsLoading, tableVars, routerPage>>
  <2>1. DeletesOK(networkCalls', lostAt, toDelete, deletingItem, networkAsked) /\ ListsOK(networkCalls', itemsLoading)
    BY <1>3, FewerCalls DEF RoutersInv
  <2>2. \A d \in networkCalls' : IsCall(d)
    BY <1>3 DEF RoutersInv
  <2> QED BY <1>3, <2>1, <2>2 DEF RoutersInv, tableVars
<1> QED BY <1>2, <1>3 DEF Moves

\* What a user begins on a page, but for a deletion in a dialog.
LEMMA StartsOK ==
    ASSUME RoutersInv, NEW k \in DeviceKinds, NEW i, NEW s \in StepLists, Head(s) # "list", Starts(k, i, s),
           UNCHANGED <<toDelete, deletingItem, lostAt>>, s = <<"delete">> => routerPage.page = "one"
    PROVE  RoutersInv'
<1> DEFINE r == Call(k, i, s)
<1>1. networkAsked \in Nat /\ networkAsked' = networkAsked + 1 /\ networkAsked' \in Nat /\ routerPage' = routerPage
  BY DEF RoutersInv, Starts, User
<1>2. networkCalls' = networkCalls \cup {r} /\ itemsLoading' = itemsLoading
  BY DEF Starts
<1>3. IsCall(r) /\ ~AsksList(r) /\ r.at = routerPage.page /\ r.n = networkAsked' /\ r.op = Head(s) /\ (r.op = "delete" <=> s = <<"delete">>)
  BY <1>1, CallIsOK, StepListsOK DEF AsksList
<1> HIDE DEF r
<1>4. ListsOK(networkCalls', itemsLoading')
  BY <1>2, <1>3 DEF RoutersInv, ListsOK
<1>5. DeletesOK(networkCalls, lostAt, toDelete, deletingItem, networkAsked')
  BY <1>1, SameTables DEF RoutersInv
<1>6. r.n <= networkAsked' /\ ~InDialog(r, lostAt)
  BY <1>1, <1>3 DEF InDialog
<1>7. DeletesOK(networkCalls', lostAt, toDelete, deletingItem, networkAsked')
  BY <1>2, <1>5, <1>6 DEF DeletesOK
<1>8. \A c \in networkCalls' : IsCall(c)
  BY <1>1, <1>2, <1>3 DEF RoutersInv
<1> QED BY <1>1, <1>4, <1>7, <1>8 DEF RoutersInv

\* The deletion of what a dialog names.
LEMMA DeleteItemOK == ASSUME RoutersInv, NEW k \in DeviceKinds, DeleteItem(k) PROVE RoutersInv'
<1> DEFINE r == Call(k, toDelete[k], <<"delete">>)
<1>0. Starts(k, toDelete[k], <<"delete">>) /\ toDelete[k] # "none" /\ k \notin deletingItem
      /\ deletingItem' = deletingItem \cup {k} /\ UNCHANGED <<toDelete, lostAt>>
  BY DEF DeleteItem
<1>1. networkAsked \in Nat /\ networkAsked' = networkAsked + 1 /\ networkAsked' \in Nat /\ routerPage' = routerPage
  BY <1>0 DEF RoutersInv, Starts, User
<1>2. networkCalls' = networkCalls \cup {r} /\ itemsLoading' = itemsLoading
  BY <1>0 DEF Starts
<1>3. IsCall(r) /\ ~AsksList(r) /\ r.n = networkAsked' /\ r.op = "delete" /\ r.kind = k /\ r.id = toDelete[k]
  <2>1. <<"delete">> \in StepLists /\ Head(<<"delete">>) = "delete"
    BY DEF StepLists
  <2> QED BY <1>1, <2>1, CallIsOK DEF AsksList
<1> HIDE DEF r
<1>4. ListsOK(networkCalls', itemsLoading')
  BY <1>2, <1>3 DEF RoutersInv, ListsOK
<1>5. DeletesOK(networkCalls, lostAt, toDelete, deletingItem, networkAsked')
  BY <1>1, SameTables DEF RoutersInv
<1>6. r.n <= networkAsked' /\ \A c \in networkCalls : InDialog(c, lostAt) => c.kind # k
  BY <1>0, <1>1, <1>3, <1>5 DEF DeletesOK
<1>7. DeletesOK(networkCalls', lostAt, toDelete, deletingItem', networkAsked')
  BY <1>0, <1>2, <1>3, <1>5, <1>6 DEF DeletesOK
<1>8. \A c \in networkCalls' : IsCall(c)
  BY <1>1, <1>2, <1>3 DEF RoutersInv
<1> QED BY <1>0, <1>1, <1>4, <1>7, <1>8 DEF RoutersInv

-----------------------------------------------------------------------------
(* Networks and routers: the handlers *)

\* The dialog names an item, or none: only while it has no deletion under way.
LEMMA DialogOK ==
    ASSUME RoutersInv, NEW k \in DeviceKinds,
           CancelDelete(k) \/ \E i \in Devices \cup Profiles : AskDelete(k, i)
    PROVE  RoutersInv'
<1>1. UNCHANGED <<itemsLoading, deletingItem, lostAt, routerPage, networkCalls, networkAsked>>
  BY DEF CancelDelete, AskDelete, storeVars
<1>2. PICK i \in Devices \cup Profiles \cup {"none"} : toDelete' = [toDelete EXCEPT ![k] = i]
  BY DEF CancelDelete, AskDelete
<1>3. toDelete[k] = "none" \/ k \notin deletingItem
  BY DEF CancelDelete, MayCancel, AskDelete, InTable, NoDialogShown
<1>4. \A c \in networkCalls : InDialog(c, lostAt) => c.kind # k /\ c.kind \in DeviceKinds
  BY <1>3 DEF RoutersInv, DeletesOK, IsCall
<1>5. toDelete' \in [DeviceKinds -> Devices \cup Profiles \cup {"none"}]
      /\ \A j \in DeviceKinds : j # k => toDelete'[j] = toDelete[j]
  BY <1>2 DEF RoutersInv
<1>6. DeletesOK(networkCalls, lostAt, toDelete', deletingItem, networkAsked)
  BY <1>4, <1>5 DEF RoutersInv, DeletesOK
<1> QED BY <1>1, <1>5, <1>6 DEF RoutersInv

\* Refreshing asks for lists, which takes the tables away.
LEMMA RefreshOK == ASSUME RoutersInv, Refresh PROVE RoutersInv'
<1>1. /\ networkAsked \in Nat /\ networkAsked' = networkAsked + 1 /\ networkAsked' \in Nat /\ UNCHANGED routerPage
      /\ FetchLists(networkCalls, DeviceKinds) /\ Keeping(Lost, deletingItem, testing, disconnecting)
  BY DEF RoutersInv, Refresh, User
<1>2. ListsOK(networkCalls', itemsLoading') /\ \A c \in networkCalls' : IsCall(c) /\ (c.op = "delete" => c \in networkCalls)
  BY <1>1, FetchListsOK DEF RoutersInv
<1>3. DeletesOK(networkCalls', lostAt, toDelete, deletingItem, networkAsked')
  BY <1>1, <1>2, SameTables DEF RoutersInv
<1>4. DeletesOK(networkCalls', lostAt', toDelete', deletingItem', networkAsked')
  BY <1>1, <1>2, <1>3, TablesGo
<1>5. toDelete' \in [DeviceKinds -> Devices \cup Profiles \cup {"none"}]
  BY <1>1, NamesOK DEF RoutersInv
<1> QED BY <1>1, <1>2, <1>4, <1>5 DEF RoutersInv

\* A call that is answered is the same call.
LEMMA ServesOK == ASSUME RoutersInv, NEW c \in networkCalls, Serves(c) PROVE RoutersInv'
<1>1. UNCHANGED <<itemsLoading, toDelete, deletingItem, lostAt, routerPage, networkAsked>>
  BY DEF Serves, storeVars, tableVars
<1>2. PICK x : networkCalls' = (networkCalls \ {c}) \cup {[c EXCEPT !.got = x]}
  BY DEF Serves
<1> DEFINE d == [c EXCEPT !.got = x]
<1>3. IsCall(c)
  BY DEF RoutersInv
<1>4. d = [kind |-> c.kind, id |-> c.id, op |-> c.op, steps |-> c.steps, got |-> x, at |-> c.at, n |-> c.n]
  BY <1>3 DEF IsCall
<1>5. IsCall(d) /\ d.kind = c.kind /\ d.id = c.id /\ d.op = c.op /\ d.steps = c.steps /\ d.at = c.at /\ d.n = c.n
  BY <1>3, <1>4 DEF IsCall
<1>6. networkCalls' = (networkCalls \ {c}) \cup {d}
  BY <1>2
<1> HIDE DEF d
<1>7. ListsOK(networkCalls', itemsLoading)
  BY <1>5, <1>6 DEF RoutersInv, ListsOK, AsksList
<1>8. DeletesOK(networkCalls', lostAt, toDelete, deletingItem, networkAsked)
  BY <1>5, <1>6 DEF RoutersInv, DeletesOK, InDialog
<1>9. \A e \in networkCalls' : IsCall(e)
  BY <1>5, <1>6 DEF RoutersInv
<1> QED BY <1>1, <1>7, <1>8, <1>9 DEF RoutersInv

\* A call that leaves.
LEMMA CallLeaves ==
    ASSUME RoutersInv, NEW c \in networkCalls, networkCalls' = networkCalls \ {c}, TableAfter(c),
           UNCHANGED <<routerPage, networkAsked>>,
           itemsLoading' = IF AsksList(c) THEN itemsLoading \ {c.kind} ELSE itemsLoading
    PROVE  RoutersInv'
<1> DEFINE deletes == IF c.op = "delete" /\ StillThere(c) THEN deletingItem \ {c.kind} ELSE deletingItem
<1>1. PICK t, off : Keeping(Lost, deletes, t, off)
  BY DEF TableAfter
<1>2. networkAsked' \in Nat /\ \A d \in networkCalls' : IsCall(d)
  BY DEF RoutersInv
<1>3. DeletesOK(networkCalls', lostAt', toDelete', deletingItem', networkAsked')
  <2>1. DeletesOK(networkCalls', lostAt, toDelete, deletes, networkAsked')
    BY DeletionOver
  <2> HIDE DEF deletes
  <2> QED BY <1>1, <1>2, <2>1, TablesGo
<1>4. toDelete' \in [DeviceKinds -> Devices \cup Profiles \cup {"none"}]
  BY <1>1, NamesOK DEF RoutersInv
<1>5. ListsOK(networkCalls', itemsLoading')
  BY DEF RoutersInv, ListsOK
<1> QED BY <1>2, <1>3, <1>4, <1>5 DEF RoutersInv

\* A handler that goes on is the same but for its steps and its answer.
LEMMA HandlerGoesOn ==
    ASSUME NEW c, IsCall(c), NEW t, NEW x
    PROVE  [c EXCEPT !.steps = t, !.got = x]
           = [kind |-> c.kind, id |-> c.id, op |-> c.op, steps |-> t, got |-> x, at |-> c.at, n |-> c.n]
<1> DEFINE d == [c EXCEPT !.steps = t]
<1>0. c = [kind |-> c.kind, id |-> c.id, op |-> c.op, steps |-> c.steps, got |-> c.got, at |-> c.at, n |-> c.n]
  BY DEF IsCall
<1>1. d = [kind |-> c.kind, id |-> c.id, op |-> c.op, steps |-> t, got |-> c.got, at |-> c.at, n |-> c.n]
  BY <1>0
<1>2. [c EXCEPT !.steps = t, !.got = x] = [d EXCEPT !.got = x]
  OBVIOUS
<1> HIDE DEF d
<1>3. [d EXCEPT !.got = x] = [kind |-> c.kind, id |-> c.id, op |-> c.op, steps |-> t, got |-> x, at |-> c.at, n |-> c.n]
  BY <1>1
<1> QED BY <1>2, <1>3

\* A handler that goes on asks for the next of its steps, or for nothing when that list is
\* loading.
LEMMA StepsOnOK ==
    ASSUME RoutersInv, NEW c \in networkCalls, StepsOn(c), UNCHANGED networkAsked
    PROVE  RoutersInv'
<1> DEFINE left == Tail(c.steps)
           next == [c EXCEPT !.steps = left, !.got = Unanswered]
<1>0. IsCall(c) /\ c.steps \in StepLists
  BY DEF RoutersInv, IsCall
<1>1. CASE left = <<>> \/ (Head(left) = "list" /\ ~MayList(c.kind))
  BY <1>1, CallLeaves DEF StepsOn, AsksList
<1>2. CASE left # <<>> /\ (Head(left) = "list" => MayList(c.kind))
  <2>1. /\ networkCalls' = (networkCalls \ {c}) \cup {next} /\ UNCHANGED routerPage
        /\ Keeping(Lost, deletingItem, testing, disconnecting)
        /\ itemsLoading' = IF Head(left) = "list" THEN itemsLoading \cup {c.kind} ELSE itemsLoading
    BY <1>2 DEF StepsOn
  <2>2. left \in StepLists /\ left # <<"delete">> /\ ~AsksList(c) /\ c.op # "delete"
    <3>1. (Tail(c.steps) # <<>> => Tail(c.steps) \in StepLists /\ Tail(c.steps) # <<"delete">>)
          /\ (Head(c.steps) = "list" => Tail(c.steps) = <<>>) /\ (c.steps = <<"delete">> => Tail(c.steps) = <<>>)
      BY <1>0, StepListsOK
    <3> QED BY <1>0, <1>2, <3>1 DEF IsCall, AsksList
  <2> HIDE DEF left
  <2>3. next = [kind |-> c.kind, id |-> c.id, op |-> c.op, steps |-> left, got |-> Unanswered, at |-> c.at, n |-> c.n]
    BY <1>0, HandlerGoesOn
  <2>4. IsCall(next) /\ next.kind = c.kind /\ next.steps = left /\ next.op # "delete"
    BY <1>0, <2>2, <2>3 DEF IsCall
  <2> HIDE DEF next
  <2>5. ListsOK(networkCalls \ {c}, itemsLoading)
    BY FewerCalls DEF RoutersInv
  <2>6. ListsOK(networkCalls', itemsLoading')
    <3>1. CASE Head(left) = "list"
      <4>1. c.kind \notin itemsLoading
        BY <1>2, <3>1 DEF MayList
      <4> QED BY <2>1, <2>4, <2>5, <3>1, <4>1 DEF ListsOK
    <3>2. CASE Head(left) # "list"
      BY <2>1, <2>4, <2>5, <3>2 DEF ListsOK, AsksList
    <3> QED BY <3>1, <3>2
  <2>7. \A d \in networkCalls' : IsCall(d)
    BY <2>1, <2>4 DEF RoutersInv
  <2>8. DeletesOK(networkCalls', lostAt', toDelete', deletingItem', networkAsked')
    <3>1. \A d \in networkCalls' : d.op = "delete" => d \in networkCalls
      BY <2>1, <2>4
    <3>2. networkAsked \in Nat /\ networkAsked <= networkAsked /\ networkAsked' = networkAsked
      BY DEF RoutersInv
    <3>3. DeletesOK(networkCalls', lostAt, toDelete, deletingItem, networkAsked)
      BY <3>1, <3>2, SameTables DEF RoutersInv
    <3> QED BY <2>1, <2>7, <3>2, <3>3, TablesGo
  <2>9. toDelete' \in [DeviceKinds -> Devices \cup Profiles \cup {"none"}]
    BY <2>1, NamesOK DEF RoutersInv
  <2> QED BY <2>1, <2>6, <2>7, <2>8, <2>9 DEF RoutersInv
<1> QED BY <1>1, <1>2

\* The answers: of each kind of request, and the failure of any.
LEMMA CallEndsOK == ASSUME RoutersInv, NEW c \in networkCalls, CallEnds(c) PROVE RoutersInv'
<1>0. UNCHANGED networkAsked /\ IsCall(c) /\ (Head(c.steps) = "delete" <=> c.op = "delete")
  <2>1. IsCall(c) /\ c.steps \in StepLists
    BY DEF RoutersInv, IsCall
  <2> QED BY <2>1, StepListsOK DEF CallEnds, IsCall
<1>1. CASE Fails(c)
  BY <1>0, <1>1, CallLeaves DEF Fails, AsksList
<1>2. CASE ItemsArrive(c) \/ OneArrives(c) \/ Acted(c)
  BY <1>0, <1>2, StepsOnOK DEF ItemsArrive, OneArrives, Acted
<1>3. CASE UpdateArrives(c)
  BY <1>0, <1>3, MovesOK DEF UpdateArrives
<1>4. CASE CreateArrives(c)
  BY <1>0, <1>4, MovesOK DEF CreateArrives
<1>5. CASE DeleteArrives(c) /\ c.at = "one"
  BY <1>0, <1>5, MovesOK DEF DeleteArrives
<1>6. CASE DeleteArrives(c) /\ c.at # "one"
  <2>1. c.op = "delete" /\ networkCalls' = networkCalls \ {c} /\ UNCHANGED <<itemsLoading, lostAt, routerPage, networkAsked>>
    BY <1>0, <1>6 DEF DeleteArrives
  <2>2. IF StillThere(c)
        THEN deletingItem' = deletingItem \ {c.kind} /\ toDelete' = [toDelete EXCEPT ![c.kind] = "none"]
        ELSE UNCHANGED <<deletingItem, toDelete>>
    BY <1>6 DEF DeleteArrives
  <2>3. DeletesOK(networkCalls', lostAt, toDelete', deletingItem', networkAsked)
    BY <2>1, <2>2, DeletionOver
  <2>4. ListsOK(networkCalls', itemsLoading) /\ \A d \in networkCalls' : IsCall(d)
    BY <2>1, FewerCalls DEF RoutersInv
  <2>5. toDelete' \in [DeviceKinds -> Devices \cup Profiles \cup {"none"}]
    BY <2>2 DEF RoutersInv
  <2> QED BY <2>1, <2>3, <2>4, <2>5 DEF RoutersInv
<1> QED BY <1>1, <1>2, <1>3, <1>4, <1>5, <1>6 DEF CallEnds

\* RoutersInv is inductive.
LEMMA RoutersStep == ASSUME RoutersInv, RoutersNext PROVE RoutersInv'
<1>0. routerPage.kind \in DeviceKinds /\ "router" \in DeviceKinds /\ "profile" \in DeviceKinds
  BY DEF RoutersInv, DeviceKinds
<1>1. CASE GoHome \/ BackToItem
  BY <1>0, <1>1, GoOK DEF GoHome, BackToItem
<1>2. ASSUME NEW k \in DeviceKinds, GoToList(k) \/ GoToNew(k) PROVE RoutersInv'
  BY <1>2, GoOK DEF GoToList, GoToNew
<1>3. ASSUME NEW k \in DeviceKinds, NEW i, NEW page0, GoToItem(k, i, page0) PROVE RoutersInv'
  BY <1>3, GoOK DEF GoToItem
<1>4. CASE Refresh
  BY <1>4, RefreshOK
<1>5. CASE UpdateItem
  <2>1. <<"update">> \in StepLists /\ Head(<<"update">>) = "update"
    BY DEF StepLists
  <2> QED BY <1>0, <1>5, <2>1, StartsOK DEF UpdateItem, tableVars
<1>6. CASE DeleteShown
  <2>1. <<"delete">> \in StepLists /\ Head(<<"delete">>) = "delete"
    BY DEF StepLists
  <2> QED BY <1>0, <1>6, <2>1, StartsOK DEF DeleteShown, tableVars
<1>7. ASSUME NEW k \in DeviceKinds, CancelDelete(k) \/ \E i \in Devices \cup Profiles : AskDelete(k, i) PROVE RoutersInv'
  BY <1>7, DialogOK
<1>8. ASSUME NEW k \in DeviceKinds, DeleteItem(k) PROVE RoutersInv'
  BY <1>8, DeleteItemOK
<1>9. ASSUME NEW i \in Devices, TestConnection(i) PROVE RoutersInv'
  <2>1. <<"test", "one", "list">> \in StepLists /\ Head(<<"test", "one", "list">>) = "test"
    BY DEF StepLists
  <2>2. <<"test", "one", "list">> # <<"delete">>
    BY StepListsOK, <2>1
  <2> QED BY <1>0, <1>9, <2>1, <2>2, StartsOK DEF TestConnection
<1>10. ASSUME NEW i \in Devices, Disconnect(i) PROVE RoutersInv'
  <2>1. <<"disconnect", "one", "list">> \in StepLists /\ Head(<<"disconnect", "one", "list">>) = "disconnect"
    BY DEF StepLists
  <2>2. <<"disconnect", "one", "list">> # <<"delete">>
    BY StepListsOK, <2>1
  <2> QED BY <1>0, <1>10, <2>1, <2>2, StartsOK DEF Disconnect
<1>11. ASSUME NEW i, CreateItem(i) PROVE RoutersInv'
  <2>1. <<"create">> \in StepLists /\ Head(<<"create">>) = "create"
    BY DEF StepLists
  <2> QED BY <1>0, <1>11, <2>1, StartsOK DEF CreateItem, tableVars
<1>12. ASSUME NEW c \in networkCalls, Serves(c) \/ CallEnds(c) PROVE RoutersInv'
  BY <1>12, ServesOK, CallEndsOK
<1> QED
  BY <1>1, <1>2, <1>3, <1>4, <1>5, <1>6, <1>7, <1>8, <1>9, <1>10, <1>11, <1>12 DEF RoutersNext

\* The router pages by themselves keep RoutersInv.
LEMMA RoutersHold == RoutersSpec => []RoutersInv
<1>1. RoutersInit => RoutersInv
  BY DEF RoutersInit, RoutersInv, ListsOK, DeletesOK, DeviceKinds, At
<1>2. RoutersInv /\ UNCHANGED routersVars => RoutersInv'
  BY DEF routersVars, storeVars, tableVars, RoutersInv
<1> QED BY <1>1, <1>2, RoutersStep, PTL DEF RoutersSpec

\* RoutersInv implies the property of the dialogs.
LEMMA DialogHolds == RoutersInv => DialogNamesItsItem
BY DEF RoutersInv, DeletesOK, InDialog, StillThere, DialogNamesItsItem

\* And that of the lists.
LEMMA ListsHold == RoutersInv => OneListAtATime
<1> SUFFICES ASSUME RoutersInv, NEW k \in DeviceKinds
             PROVE  Cardinality({c \in networkCalls : c.kind = k /\ Head(c.steps) = "list"}) <= 1
  BY DEF OneListAtATime
<1> DEFINE S == {c \in networkCalls : c.kind = k /\ Head(c.steps) = "list"}
<1>1. \A x, y \in S : x = y
  BY DEF RoutersInv, ListsOK, AsksList
<1> HIDE DEF S
<1>2. Cardinality(S) <= 1
  BY <1>1, AtMostOne
<1> QED BY <1>2 DEF S

-----------------------------------------------------------------------------
(* WhatsApp: messages and campaigns *)

\* A message under way keeps its flag up, and there is one at most.
SendInv ==
    /\ \A s \in sends : sendingNow
    /\ \A s, t \in sends : s = t

\* The handlers that create a campaign, and the shape of a handler.
Creates(h) == h.op = "create"
IsHandler(h) == h = [op |-> h.op, of |-> h.of, steps |-> h.steps, n |-> h.n]

\* A creation under way keeps its flag up, and there is one at most.
CreateInv ==
    /\ campaignCreating \in BOOLEAN
    /\ \A h \in campaignCalls : IsHandler(h) /\ (Creates(h) => campaignCreating)
    /\ \A h, g \in campaignCalls : Creates(h) /\ Creates(g) => h = g

\* A handler that starts has the shape of one.
LEMMA HandlerOK ==
    ASSUME NEW op, NEW k, NEW steps
    PROVE  IsHandler(Handler(op, k, steps)) /\ Handler(op, k, steps).op = op
BY DEF IsHandler, Handler

\* A handler that goes on is the same but for its steps.
LEMMA StepOK ==
    ASSUME NEW h, IsHandler(h), NEW steps
    PROVE  IsHandler([h EXCEPT !.steps = steps]) /\ [h EXCEPT !.steps = steps].op = h.op
<1>1. h = [op |-> h.op, of |-> h.of, steps |-> h.steps, n |-> h.n]
  BY DEF IsHandler
<1>2. [h EXCEPT !.steps = steps] = [op |-> h.op, of |-> h.of, steps |-> steps, n |-> h.n]
  BY <1>1
<1> QED BY <1>2 DEF IsHandler

\* Or but for its campaign too.
LEMMA StepOfOK ==
    ASSUME NEW h, IsHandler(h), NEW steps, NEW k
    PROVE  IsHandler([h EXCEPT !.steps = steps, !.of = k]) /\ [h EXCEPT !.steps = steps, !.of = k].op = h.op
<1> DEFINE g == [h EXCEPT !.steps = steps]
<1>1. IsHandler(g) /\ g.op = h.op
  BY StepOK
<1>2. [h EXCEPT !.steps = steps, !.of = k] = [g EXCEPT !.of = k]
  OBVIOUS
<1> HIDE DEF g
<1>3. g = [op |-> g.op, of |-> g.of, steps |-> g.steps, n |-> g.n]
  BY <1>1 DEF IsHandler
<1>4. [g EXCEPT !.of = k] = [op |-> g.op, of |-> k, steps |-> g.steps, n |-> g.n]
  BY <1>3
<1>5. IsHandler([g EXCEPT !.of = k]) /\ [g EXCEPT !.of = k].op = g.op
  BY <1>4 DEF IsHandler
<1> QED BY <1>1, <1>2, <1>5

\* Handlers that are not creations may join; the others that stay are those there were.
LEMMA OthersJoin ==
    ASSUME CreateInv, UNCHANGED campaignCreating,
           \A h \in campaignCalls' : h \in campaignCalls \/ (IsHandler(h) /\ ~Creates(h))
    PROVE  CreateInv'
BY DEF CreateInv

\* A handler goes on as another record of the same operation.
LEMMA GoneOnOK ==
    ASSUME CreateInv, NEW h \in campaignCalls, NEW g, IsHandler(g), g.op = h.op,
           campaignCalls' = (campaignCalls \ {h}) \cup {g}, UNCHANGED campaignCreating
    PROVE  CreateInv'
BY DEF CreateInv, Creates

\* A handler is over, and lowers its flags.
LEMMA OverOK ==
    ASSUME CreateInv, NEW h \in campaignCalls, campaignCalls' = campaignCalls \ {h}, FlagsAfter(h)
    PROVE  CreateInv'
BY DEF CreateInv, Creates, FlagsAfter

\* Choosing a campaign asks for its detail, and creates nothing.
LEMMA ChoosingOK ==
    ASSUME NEW calls, NEW k, Choosing(calls, k)
    PROVE  \A h \in campaignCalls' : h \in calls \/ (IsHandler(h) /\ ~Creates(h))
<1>1. campaignCalls' = calls \/ campaignCalls' = calls \cup {Handler("detail", k, {"detail"})}
  BY DEF Choosing
<1>2. IsHandler(Handler("detail", k, {"detail"})) /\ ~Creates(Handler("detail", k, {"detail"}))
  BY HandlerOK DEF Creates
<1> QED BY <1>1, <1>2

\* The reload after a creation keeps it the one under way; other reloads end.
LEMMA LoadOK == ASSUME CreateInv, NEW h \in campaignCalls, NEW ok \in BOOLEAN, LoadAnswered(h, ok) PROVE CreateInv'
<1>0. UNCHANGED campaignCreating /\ IsHandler(h)
  BY DEF LoadAnswered, CreateInv
<1>1. CASE h.op = "create"
  <2>1. Choosing(NextStep(h, "detail"), h.of)
    BY <1>1 DEF LoadAnswered
  <2> DEFINE g == [h EXCEPT !.steps = {"detail"}]
  <2>2. IsHandler(g) /\ g.op = "create"
    BY <1>0, <1>1, StepOK
  <2>3. NextStep(h, "detail") = (campaignCalls \ {h}) \cup {g}
    BY DEF NextStep
  <2> HIDE DEF g
  <2>4. \A e \in campaignCalls' : (e \in campaignCalls /\ e # h) \/ e = g \/ (IsHandler(e) /\ ~Creates(e))
    BY <2>1, <2>3, ChoosingOK
  <2> QED BY <1>0, <1>1, <2>2, <2>4 DEF CreateInv, Creates
<1>2. CASE h.op # "create"
  <2>1. \E k : Choosing(campaignCalls \ {h}, k)
    BY <1>2 DEF LoadAnswered
  <2>2. \A e \in campaignCalls' : e \in campaignCalls \/ (IsHandler(e) /\ ~Creates(e))
    BY <2>1, ChoosingOK
  <2> QED BY <1>0, <2>2, OthersJoin
<1> QED BY <1>1, <1>2

\* The answers to the handlers of a campaign.
LEMMA AnsweredOK == ASSUME CreateInv, NEW h \in campaignCalls, CampaignAnswered(h) PROVE CreateInv'
<1>0. IsHandler(h)
  BY DEF CreateInv
<1>1. ASSUME NEW kept \in BOOLEAN, NEW ok \in BOOLEAN, CreateAnswered(h, kept, ok) PROVE CreateInv'
  <2>1. CASE ok
    <3>1. /\ UNCHANGED campaignCreating
          /\ \E k : campaignCalls' = (campaignCalls \ {h}) \cup {[h EXCEPT !.steps = {"load"}, !.of = k]}
      BY <1>1, <2>1 DEF CreateAnswered
    <3>2. PICK k : campaignCalls' = (campaignCalls \ {h}) \cup {[h EXCEPT !.steps = {"load"}, !.of = k]}
      BY <3>1
    <3> DEFINE g == [h EXCEPT !.steps = {"load"}, !.of = k]
    <3>3. IsHandler(g) /\ g.op = h.op
      BY <1>0, StepOfOK
    <3>4. campaignCalls' = (campaignCalls \ {h}) \cup {g}
      BY <3>2
    <3> HIDE DEF g
    <3> QED BY <3>1, <3>3, <3>4, GoneOnOK
  <2>2. CASE ~ok
    BY <1>1, <2>2, OverOK DEF CreateAnswered
  <2> QED BY <2>1, <2>2
<1>2. ASSUME NEW ok \in BOOLEAN, RetryAnswered(h, ok) PROVE CreateInv'
  <2>1. CASE ok
    <3> DEFINE g == [h EXCEPT !.steps = {"detail"}]
    <3>1. IsHandler(g) /\ g.op = h.op
      BY <1>0, StepOK
    <3>2. campaignCalls' = (campaignCalls \ {h}) \cup {g} /\ UNCHANGED campaignCreating
      BY <1>2, <2>1 DEF RetryAnswered, NextStep
    <3> HIDE DEF g
    <3> QED BY <3>1, <3>2, GoneOnOK
  <2>2. CASE ~ok
    BY <1>2, <2>2, OverOK DEF RetryAnswered
  <2> QED BY <2>1, <2>2
<1>3. ASSUME NEW ok \in BOOLEAN, LoadAnswered(h, ok) PROVE CreateInv'
  BY <1>3, LoadOK
<1>4. ASSUME NEW ok \in BOOLEAN, ListAnswered(h, ok) PROVE CreateInv'
  <2>1. campaignCalls' = campaignCalls \ {h} /\ UNCHANGED campaignCreating
    BY <1>4 DEF ListAnswered, flagVars
  <2> QED BY <2>1, OthersJoin
<1>5. ASSUME NEW ok \in BOOLEAN, DetailAnswered(h, ok) PROVE CreateInv'
  BY <1>5, OverOK DEF DetailAnswered
<1> QED BY <1>1, <1>2, <1>3, <1>4, <1>5 DEF CampaignAnswered

\* CreateInv is inductive.
LEMMA CampaignStep == ASSUME CreateInv, WADeskNext PROVE CreateInv'
<1>1. CASE UNCHANGED <<campaignCreating, campaignCalls>>
  BY <1>1 DEF CreateInv
<1>2. CASE (\E c \in Contacts \cup {"none"} : ChooseContact(c)) \/ (\E n \in {0, 1} : EnterNumber(n))
           \/ (\E b \in BOOLEAN : EnterText(b)) \/ (\E s \in sends : SingleAnswered(s)) \/ SendSingle
           \/ \E k \in Campaigns : CampaignMoves(k)
  BY <1>1, <1>2 DEF ChooseContact, EnterNumber, EnterText, SingleAnswered, SendSingle, CampaignMoves, campaignVars, flagVars
<1>3. ASSUME NEW k \in Campaigns, Choose(k) PROVE CreateInv'
  <2>1. Choosing(campaignCalls, k) /\ UNCHANGED campaignCreating
    BY <1>3 DEF Choose
  <2> QED BY <2>1, ChoosingOK, OthersJoin
<1>4. CASE RefreshCampaigns \/ RefreshDetail \/ RetryFailed \/ Poll
  <2>1. UNCHANGED campaignCreating
    BY <1>4 DEF RefreshCampaigns, RefreshDetail, RetryFailed, Poll
  <2>2. \/ campaignCalls' = campaignCalls \cup {Handler("load", chosen, {"load"})}
        \/ campaignCalls' = campaignCalls \cup {Handler("detail", chosen, {"detail"})}
        \/ campaignCalls' = campaignCalls \cup {Handler("retry", chosen, {"post"})}
        \/ campaignCalls' = campaignCalls \cup {Handler("detail", chosen, {"detail"}), Handler("list", 0, {"list"})}
    BY <1>4 DEF RefreshCampaigns, RefreshDetail, RetryFailed, Poll
  <2>3. \A h \in campaignCalls' : h \in campaignCalls \/ (IsHandler(h) /\ ~Creates(h))
    BY <2>2, HandlerOK DEF Creates
  <2> QED BY <2>1, <2>3, OthersJoin
<1>5. CASE CreateCampaign
  <2>1. ~campaignCreating /\ campaignCreating' = TRUE /\ campaignCalls' = campaignCalls \cup {Handler("create", 0, {"post"})}
    BY <1>5 DEF CreateCampaign, MayCreate
  <2>2. IsHandler(Handler("create", 0, {"post"}))
    BY HandlerOK
  <2> QED BY <2>1, <2>2 DEF CreateInv
<1>6. ASSUME NEW h \in campaignCalls, CampaignAnswered(h) PROVE CreateInv'
  BY <1>6, AnsweredOK
<1> QED BY <1>2, <1>3, <1>4, <1>5, <1>6 DEF WADeskNext

\* SendInv is inductive.
LEMMA SendStep == ASSUME SendInv, WADeskNext PROVE SendInv'
<1>1. CASE UNCHANGED <<sends, sendingNow>>
  BY <1>1 DEF SendInv
<1>2. CASE SendSingle
  BY <1>2 DEF SendSingle, CanSend, SendInv
<1>3. ASSUME NEW s \in sends, SingleAnswered(s) PROVE SendInv'
  BY <1>3 DEF SingleAnswered, SendInv
<1>4. CASE (\E c \in Contacts \cup {"none"} : ChooseContact(c)) \/ (\E n \in {0, 1} : EnterNumber(n))
           \/ (\E b \in BOOLEAN : EnterText(b)) \/ \E k \in Campaigns : CampaignMoves(k) \/ Choose(k)
  BY <1>1, <1>4 DEF ChooseContact, EnterNumber, EnterText, CampaignMoves, Choose, singleVars
<1>5. CASE RefreshCampaigns \/ RefreshDetail \/ RetryFailed \/ Poll \/ CreateCampaign
           \/ \E h \in campaignCalls : CampaignAnswered(h)
  BY <1>1, <1>5 DEF RefreshCampaigns, RefreshDetail, RetryFailed, Poll, CreateCampaign, CampaignAnswered, singleVars
<1> QED BY <1>2, <1>3, <1>4, <1>5 DEF WADeskNext

\* The message pages by themselves send one message and create one campaign at a time.
LEMMA MessagesHold == WADeskSpec => [](OneSendAtATime /\ OneCampaignAtATime)
<1>1. WADeskInit => SendInv /\ CreateInv
  <2> SUFFICES ASSUME WADeskInit PROVE SendInv /\ CreateInv
    OBVIOUS
  <2> DEFINE l == [op |-> "load", of |-> 0, steps |-> {"load"}, n |-> 0]
  <2>1. IsHandler(l) /\ ~Creates(l)
    BY DEF IsHandler, Creates
  <2>2. campaignCalls = {l} /\ campaignCreating = FALSE /\ sends = {}
    BY DEF WADeskInit, CampaignInit, SingleInit
  <2> HIDE DEF l
  <2> QED BY <2>1, <2>2 DEF SendInv, CreateInv
<1>2. SendInv /\ CreateInv /\ UNCHANGED waDeskVars => SendInv' /\ CreateInv'
  BY DEF waDeskVars, singleVars, campaignVars, flagVars, SendInv, CreateInv
<1>3. SendInv => OneSendAtATime
  BY AtMostOne DEF SendInv, OneSendAtATime
<1>4. CreateInv => OneCampaignAtATime
  <2> SUFFICES ASSUME CreateInv PROVE OneCampaignAtATime
    OBVIOUS
  <2> DEFINE S == {h \in campaignCalls : h.op = "create"}
  <2>1. \A x, y \in S : x = y
    BY DEF CreateInv, Creates
  <2> HIDE DEF S
  <2>2. Cardinality(S) <= 1
    BY <2>1, AtMostOne
  <2> QED BY <2>2 DEF S, OneCampaignAtATime
<1> QED BY <1>1, <1>2, <1>3, <1>4, SendStep, CampaignStep, PTL DEF WADeskSpec

-----------------------------------------------------------------------------
(* WhatsApp: device, logs and templates *)

\* The shape of a call of a panel.
PanelCall(c) == c = [op |-> c.op, arg |-> c.arg, answer |-> c.answer, n |-> c.n]

\* A connection under way keeps its flag up, and there is one at most.
ConnectsOK(calls, held) ==
    /\ \A c \in calls : c.op = "connect" => held
    /\ \A c, d \in calls : c.op = "connect" /\ d.op = "connect" => c = d

\* On the templates page any call under way keeps the flag up, and there is one at most.
PanelInv ==
    /\ linking \in BOOLEAN /\ \A c \in panelCalls : PanelCall(c)
    /\ ConnectsOK(panelCalls, linking)
    /\ panel = "templates" => (panelCalls # {} => tplLoading) /\ \A c, d \in panelCalls : c = d

\* A call that starts has the shape of a call.
LEMMA AskingOK ==
    ASSUME NEW op, NEW arg
    PROVE  PanelCall(Asking(op, arg)) /\ Asking(op, arg).op = op
BY DEF PanelCall, Asking

\* A call that goes on as another one keeps the shape of a call.
LEMMA AnswerOK ==
    ASSUME NEW c, PanelCall(c), NEW a
    PROVE  PanelCall([c EXCEPT !.answer = a]) /\ [c EXCEPT !.answer = a].op = c.op
<1>1. c = [op |-> c.op, arg |-> c.arg, answer |-> c.answer, n |-> c.n]
  BY DEF PanelCall
<1>2. [c EXCEPT !.answer = a] = [op |-> c.op, arg |-> c.arg, answer |-> a, n |-> c.n]
  BY <1>1
<1> QED BY <1>2 DEF PanelCall

\* So has a call that goes on as another operation.
LEMMA NextCallOK ==
    ASSUME NEW c, PanelCall(c), NEW op, NEW arg
    PROVE  /\ PanelCall([c EXCEPT !.op = op, !.arg = arg, !.answer = "none"])
           /\ [c EXCEPT !.op = op, !.arg = arg, !.answer = "none"].op = op
<1> DEFINE d == [c EXCEPT !.op = op]
           e == [d EXCEPT !.arg = arg]
<1>1. c = [op |-> c.op, arg |-> c.arg, answer |-> c.answer, n |-> c.n]
  BY DEF PanelCall
<1>2. d = [op |-> op, arg |-> c.arg, answer |-> c.answer, n |-> c.n]
  BY <1>1
<1>3. [c EXCEPT !.op = op, !.arg = arg, !.answer = "none"] = [e EXCEPT !.answer = "none"]
  OBVIOUS
<1>4. PanelCall(d) /\ d.op = op
  BY <1>2 DEF PanelCall
<1> HIDE DEF d
<1>5. d = [op |-> op, arg |-> d.arg, answer |-> d.answer, n |-> d.n]
  BY <1>4 DEF PanelCall
<1>6. e = [op |-> op, arg |-> arg, answer |-> d.answer, n |-> d.n]
  BY <1>5
<1>7. PanelCall(e) /\ e.op = op
  BY <1>6 DEF PanelCall
<1> HIDE DEF e
<1> QED BY <1>3, <1>7, AnswerOK

\* A call begins when the flag that holds it back is down.
LEMMA BeginsOK ==
    ASSUME PanelInv, NEW op, NEW arg, Begins(op, arg), UNCHANGED panel,
           op = "connect" => ~linking /\ linking' = TRUE, op # "connect" => UNCHANGED linking,
           panel = "templates" => ~tplLoading /\ tplLoading' = TRUE
    PROVE  PanelInv'
<1> DEFINE c == Asking(op, arg)
<1>1. PanelCall(c) /\ c.op = op
  BY AskingOK
<1>2. panelCalls' = panelCalls \cup {c}
  BY DEF Begins
<1> HIDE DEF c
<1>3. ConnectsOK(panelCalls', linking')
  <2>1. CASE op = "connect"
    BY <1>1, <1>2, <2>1 DEF PanelInv, ConnectsOK
  <2>2. CASE op # "connect"
    BY <1>1, <1>2, <2>2 DEF PanelInv, ConnectsOK
  <2> QED BY <2>1, <2>2
<1>4. linking' \in BOOLEAN
  BY DEF PanelInv
<1> QED BY <1>1, <1>2, <1>3, <1>4 DEF PanelInv

\* A call that is over.
LEMMA PanelOverOK ==
    ASSUME PanelInv, NEW c \in panelCalls, Over(c), UNCHANGED panel, linking' \in BOOLEAN,
           c.op # "connect" => UNCHANGED linking
    PROVE  PanelInv'
<1>1. panelCalls' = panelCalls \ {c}
  BY DEF Over
<1>2. ConnectsOK(panelCalls', linking')
  BY <1>1 DEF PanelInv, ConnectsOK
<1>3. panel = "templates" => panelCalls' = {}
  BY <1>1 DEF PanelInv
<1> QED BY <1>1, <1>2, <1>3 DEF PanelInv

\* A call that goes on as another one.
LEMMA GoesAsOK ==
    ASSUME PanelInv, NEW c \in panelCalls, NEW d, PanelCall(d), d.op = "connect" => c.op = "connect",
           panelCalls' = (panelCalls \ {c}) \cup {d}, UNCHANGED <<panel, linking>>,
           panel = "templates" => tplLoading' = tplLoading
    PROVE  PanelInv'
<1>1. ConnectsOK(panelCalls', linking')
  BY DEF PanelInv, ConnectsOK
<1>2. panel = "templates" => tplLoading /\ \A x \in panelCalls : x = c
  BY DEF PanelInv
<1> QED BY <1>1, <1>2 DEF PanelInv

\* PanelInv is kept by the steps of the device page.
LEMMA DeviceStep == ASSUME PanelInv, DeviceNext PROVE PanelInv'
<1>1. CASE (\E g \in Links : GatewayMoves(g)) \/ RateLimitEnds
  BY <1>1 DEF GatewayMoves, RateLimitEnds, templateVars, PanelInv
<1>2. ASSUME NEW b \in BOOLEAN, RefreshDevice(b) PROVE PanelInv'
  <2>1. Begins("status", 0) /\ UNCHANGED <<panel, linking>> /\ panel = "device"
    BY <1>2 DEF RefreshDevice, deviceVars
  <2> QED BY <2>1, BeginsOK
<1>3. CASE ConnectDevice
  <2>1. Begins("connect", 0) /\ UNCHANGED panel /\ ~linking /\ linking' = TRUE /\ panel = "device"
    BY <1>3 DEF ConnectDevice, MayConnect
  <2> QED BY <2>1, BeginsOK
<1>4. ASSUME NEW c \in panelCalls, ServeDevice(c) PROVE PanelInv'
  <2>1. PICK a : panelCalls' = (panelCalls \ {c}) \cup {[c EXCEPT !.answer = a]}
    BY <1>4 DEF ServeDevice
  <2> DEFINE d == [c EXCEPT !.answer = a]
  <2>2. PanelCall(d) /\ d.op = c.op
    BY AnswerOK DEF PanelInv
  <2>3. panelCalls' = (panelCalls \ {c}) \cup {d} /\ UNCHANGED <<panel, linking>> /\ panel = "device"
    BY <1>4, <2>1 DEF ServeDevice, deviceVars
  <2> HIDE DEF d
  <2> QED BY <2>2, <2>3, GoesAsOK
<1>5. ASSUME NEW c \in panelCalls, DeviceArrives(c) PROVE PanelInv'
  <2>1. UNCHANGED <<panel, tplLoading>>
    BY <1>5 DEF DeviceArrives, templateVars
  <2>2. CASE StatusArrives(c) /\ c.answer = "needs_qr"
    <3> DEFINE d == [c EXCEPT !.op = "qr", !.arg = 0, !.answer = "none"]
    <3>1. PanelCall(d) /\ d.op = "qr"
      BY NextCallOK DEF PanelInv
    <3>2. panelCalls' = (panelCalls \ {c}) \cup {d} /\ UNCHANGED linking
      BY <2>2 DEF StatusArrives, Continues
    <3> HIDE DEF d
    <3> QED BY <2>1, <3>1, <3>2, GoesAsOK
  <2>3. CASE ConnectArrives(c)
    <3>1. Over(c) /\ c.op = "connect" /\ linking' = FALSE
      BY <2>3 DEF ConnectArrives
    <3> QED BY <2>1, <3>1, PanelOverOK
  <2>4. CASE (StatusArrives(c) /\ c.answer # "needs_qr") \/ QrArrives(c) \/ RefreshFails(c)
    <3>1. Over(c) /\ UNCHANGED linking
      BY <2>4 DEF StatusArrives, QrArrives, RefreshFails
    <3> QED BY <2>1, <3>1, PanelOverOK DEF PanelInv
  <2> QED BY <1>5, <2>2, <2>3, <2>4 DEF DeviceArrives
<1> QED BY <1>1, <1>2, <1>3, <1>4, <1>5 DEF DeviceNext

\* PanelInv is kept by the steps of the log page.
LEMMA LogStep == ASSUME PanelInv, LogNext PROVE PanelInv'
<1>1. ASSUME NEW b \in BOOLEAN, SetFilter(b) PROVE PanelInv'
  BY <1>1 DEF SetFilter, deviceVars, templateVars, PanelInv
<1>2. ASSUME NEW b \in BOOLEAN, LoadLog(b) PROVE PanelInv'
  <2>1. Begins("log", <<logQuery, 1>>) /\ UNCHANGED <<panel, linking>> /\ panel = "logs"
    BY <1>2 DEF LoadLog, deviceVars
  <2> QED BY <2>1, BeginsOK
<1>3. CASE LoadMore
  <2>1. Begins("more", <<logQuery, logNext>>) /\ UNCHANGED <<panel, linking>> /\ panel = "logs"
    BY <1>3 DEF LoadMore, deviceVars
  <2> QED BY <2>1, BeginsOK
<1>4. ASSUME NEW c \in panelCalls, NEW ok \in BOOLEAN, LogArrives(c, ok) PROVE PanelInv'
  <2>1. Over(c) /\ UNCHANGED <<panel, linking>>
    BY <1>4 DEF LogArrives, deviceVars
  <2> QED BY <2>1, PanelOverOK DEF PanelInv
<1> QED BY <1>1, <1>2, <1>3, <1>4 DEF LogNext

\* PanelInv is kept by the steps of the templates page.
LEMMA TemplateStep == ASSUME PanelInv, TemplatesNext PROVE PanelInv'
<1>1. CASE TypeTemplate \/ ResetTemplate \/ \E t \in Templates : EditTemplate(t)
  BY <1>1 DEF TypeTemplate, ResetTemplate, EditTemplate, deviceVars, PanelInv
<1>2. CASE SaveTemplate \/ ReloadTemplates \/ \E t \in Templates : DeleteTemplate(t)
  <2>1. UNCHANGED <<panel, linking>> /\ ~tplLoading /\ tplLoading' = TRUE
    BY <1>2 DEF SaveTemplate, MaySaveTemplate, ReloadTemplates, DeleteTemplate, deviceVars
  <2>2. \E op \in {"save", "list", "delete"} : \E arg : Begins(op, arg)
    BY <1>2 DEF SaveTemplate, ReloadTemplates, DeleteTemplate
  <2> QED BY <2>1, <2>2, BeginsOK
<1>3. ASSUME NEW c \in panelCalls, TemplateArrives(c) PROVE PanelInv'
  <2>1. UNCHANGED <<panel, linking>>
    BY <1>3 DEF TemplateArrives, deviceVars
  <2>2. CASE TemplateSaved(c) \/ TemplateDeleted(c)
    <3> DEFINE d == [c EXCEPT !.op = "list", !.arg = 0, !.answer = "none"]
    <3>1. PanelCall(d) /\ d.op = "list"
      BY NextCallOK DEF PanelInv
    <3>2. panelCalls' = (panelCalls \ {c}) \cup {d} /\ UNCHANGED tplLoading
      BY <2>2 DEF TemplateSaved, TemplateDeleted, Continues
    <3> HIDE DEF d
    <3> QED BY <2>1, <3>1, <3>2, GoesAsOK
  <2>3. CASE TemplatesListed(c) \/ TemplateFails(c)
    <3>1. Over(c)
      BY <2>3 DEF TemplatesListed, TemplateFails
    <3> QED BY <2>1, <3>1, PanelOverOK DEF PanelInv
  <2> QED BY <1>3, <2>2, <2>3 DEF TemplateArrives
<1> QED BY <1>1, <1>2, <1>3 DEF TemplatesNext

\* The request a panel makes when it is opened connects nothing.
LEMMA FirstCallOK ==
    ASSUME WAPanelsInit
    PROVE  \E c : PanelCall(c) /\ c.op # "connect" /\ panelCalls = {c}
<1>1. FirstCall = [op |-> "status", arg |-> 0, answer |-> "none", n |-> 0]
  BY DEF FirstCall
<1>2. [FirstCall EXCEPT !.op = "list"] = [op |-> "list", arg |-> 0, answer |-> "none", n |-> 0]
  BY <1>1
<1>3. [FirstCall EXCEPT !.op = "log", !.arg = <<1, 1>>] = [op |-> "log", arg |-> <<1, 1>>, answer |-> "none", n |-> 0]
  <2> DEFINE d == [FirstCall EXCEPT !.op = "log"]
  <2>1. d = [op |-> "log", arg |-> 0, answer |-> "none", n |-> 0]
    BY <1>1
  <2>2. [FirstCall EXCEPT !.op = "log", !.arg = <<1, 1>>] = [d EXCEPT !.arg = <<1, 1>>]
    OBVIOUS
  <2> HIDE DEF d
  <2> QED BY <2>1, <2>2
<1>4. PanelCall(FirstCall) /\ FirstCall.op # "connect"
  BY <1>1 DEF PanelCall
<1>5. PanelCall([FirstCall EXCEPT !.op = "list"]) /\ [FirstCall EXCEPT !.op = "list"].op # "connect"
  BY <1>2 DEF PanelCall
<1>6. /\ PanelCall([FirstCall EXCEPT !.op = "log", !.arg = <<1, 1>>])
      /\ [FirstCall EXCEPT !.op = "log", !.arg = <<1, 1>>].op # "connect"
  BY <1>3 DEF PanelCall
<1>7. \/ panelCalls = {FirstCall} \/ panelCalls = {[FirstCall EXCEPT !.op = "list"]}
      \/ panelCalls = {[FirstCall EXCEPT !.op = "log", !.arg = <<1, 1>>]}
  BY DEF WAPanelsInit
<1> QED BY <1>4, <1>5, <1>6, <1>7

\* The panels by themselves connect once, and change one template, at a time.
LEMMA PanelsHold == WAPanelsSpec => [](OneConnectAtATime /\ OneTemplateOpAtATime)
<1>1. WAPanelsInit => PanelInv
  <2> SUFFICES ASSUME WAPanelsInit PROVE PanelInv
    OBVIOUS
  <2>1. PICK c : PanelCall(c) /\ c.op # "connect" /\ panelCalls = {c}
    BY FirstCallOK
  <2>2. linking = FALSE /\ tplLoading = TRUE
    BY DEF WAPanelsInit, DeviceInit, TemplatesInit
  <2> QED BY <2>1, <2>2 DEF PanelInv, ConnectsOK
<1>2. PanelInv /\ WAPanelsNext => PanelInv'
  BY DeviceStep, LogStep, TemplateStep DEF WAPanelsNext
<1>3. PanelInv /\ UNCHANGED panelVars => PanelInv'
  BY DEF panelVars, deviceVars, templateVars, PanelInv
<1>4. PanelInv => OneConnectAtATime
  <2> SUFFICES ASSUME PanelInv PROVE OneConnectAtATime
    OBVIOUS
  <2> DEFINE S == {c \in panelCalls : c.op = "connect"}
  <2>1. \A x, y \in S : x = y
    BY DEF PanelInv, ConnectsOK
  <2> HIDE DEF S
  <2>2. Cardinality(S) <= 1
    BY <2>1, AtMostOne
  <2> QED BY <2>2 DEF S, OneConnectAtATime
<1>5. PanelInv => OneTemplateOpAtATime
  BY AtMostOne DEF PanelInv, OneTemplateOpAtATime
<1> QED BY <1>1, <1>2, <1>3, <1>4, <1>5, PTL DEF WAPanelsSpec

-----------------------------------------------------------------------------
(* The plan form *)

\* A plan under way has a reseller limit only with the feature, and the hidden limits of the plan
\* that was edited.
PlanInv ==
    /\ planEdited \in BOOLEAN
    /\ planSaving => /\ planSent.limits["rbac"] # Absent => HasReseller(planSent.features)
                     /\ planEdited => planSent.limits["hidden"] = planKept.limits["hidden"]

\* What the form sends.
LEMMA BodyOK ==
    /\ Body.features = planFeatures
    /\ Body.limits["rbac"] # Absent => HasReseller(planFeatures)
    /\ planEdited => Body.limits["hidden"] = planKept.limits["hidden"]
BY DEF Body, FromFields, Keeps, FieldOffered, FormKeys, LimitKeys

\* PlanInv is inductive.
LEMMA PlanStep == ASSUME PlanInv, PlanFormNext PROVE PlanInv'
<1>1. CASE SubmitPlan
  BY <1>1, BodyOK DEF SubmitPlan, PlanInv, HasReseller
<1>2. CASE PlanSaved \/ PlanRefused
  BY <1>2 DEF PlanSaved, PlanRefused, PlanInv
<1>3. CASE UNCHANGED <<planEdited, planKept, planSent, planSaving>>
  BY <1>3 DEF PlanInv, HasReseller
<1>4. CASE \/ \E k \in FormKeys, v \in LimitValues : SetLimit(k, v)
           \/ \E codes \in SUBSET (PlanCodes \cup {"unknown"}) : TypeFeatures(codes)
           \/ \E code \in PlanCodes \cup {"unknown"} : RemoveFeature(code)
           \/ \E codes \in SUBSET PlanCodes : SearchCatalog(codes) \/ TickCatalog(codes)
           \/ \E apply \in BOOLEAN : CloseCatalog(apply)
           \/ OpenCatalog
  BY <1>3, <1>4 DEF SetLimit, TypeFeatures, RemoveFeature, SearchCatalog, TickCatalog, CloseCatalog, OpenCatalog
<1> QED BY <1>1, <1>2, <1>4 DEF PlanFormNext

\* PlanInv holds when the form is opened.
LEMMA PlanStart == PlanFormInit => PlanInv
BY DEF PlanFormInit, PlanInv

\* The plan form by itself sends limits that are listed.
LEMMA LimitsHold == PlanFormSpec => []SentLimitsAreListed
<1>2. PlanInv /\ UNCHANGED planVars => PlanInv'
  BY DEF planVars, PlanInv, HasReseller
<1>3. PlanInv => SentLimitsAreListed
  BY DEF PlanInv, SentLimitsAreListed, ListedLimits
<1> QED BY PlanStart, <1>2, <1>3, PlanStep, PTL DEF PlanFormSpec

\* The plan form by itself keeps the limits it does not show.
LEMMA UnseenHold == PlanFormSpec => UnseenLimitsSurvive
<1>2. PlanInv /\ UNCHANGED planVars => PlanInv'
  BY DEF planVars, PlanInv, HasReseller
<1>3. PlanInv /\ [PlanFormNext]_planVars => [planEdited => planKept'.limits["hidden"] = planKept.limits["hidden"]]_planVars
  BY DEF PlanInv, PlanFormNext, SubmitPlan, PlanSaved, PlanRefused, SetLimit, TypeFeatures, RemoveFeature,
         SearchCatalog, TickCatalog, CloseCatalog, OpenCatalog
<1> QED BY PlanStart, <1>2, <1>3, PlanStep, PTL DEF PlanFormSpec, UnseenLimitsSurvive

-----------------------------------------------------------------------------
(* The administrator's and the technician's flags *)

\* The administrator's flag has a request that lowers it.
FlagInv == saLoading \in BOOLEAN /\ FlagHasARequest

\* A request raises the flag.
LEMMA AdminCallOK ==
    ASSUME NEW op, NEW k, NEW i, NEW data, AdminCall(op, k, i, data)
    PROVE  saLoading' = TRUE /\ saCalls' # {}
BY DEF AdminCall

\* So does a list that is fetched; nothing changes when the flag is up already.
LEMMA FetchRowsOK == ASSUME FlagInv, NEW k, FetchRows(k) PROVE FlagInv'
<1>1. CASE saLoading
  BY <1>1 DEF FetchRows, FlagInv, FlagHasARequest
<1>2. CASE ~saLoading
  BY <1>2, AdminCallOK DEF FetchRows, FlagInv, FlagHasARequest
<1> QED BY <1>1, <1>2

\* What an administrator's page asks for when it is opened.
LEMMA EnterOK == ASSUME FlagInv, NEW p, Enter(p) PROVE FlagInv'
<1>1. CASE p.page = "home" \/ p.page = "list"
  <2>1. \E k : FetchRows(k)
    BY <1>1 DEF Enter, FetchDashboard
  <2> QED BY <2>1, FetchRowsOK
<1>2. CASE p.page \in {"item", "edit"}
  <2>1. AdminCall("one", p.kind, p.id, 0)
    BY <1>2 DEF Enter
  <2> QED BY <2>1, AdminCallOK DEF FlagInv, FlagHasARequest
<1>3. CASE p.page \notin {"home", "list", "item", "edit"}
  BY <1>3 DEF Enter, FlagInv, FlagHasARequest
<1> QED BY <1>1, <1>2, <1>3

\* FlagInv is inductive.
LEMMA AdminStep == ASSUME FlagInv, AdminNext PROVE FlagInv'
<1>1. CASE UNCHANGED <<saLoading, saCalls>>
  BY <1>1 DEF FlagInv, FlagHasARequest
<1>2. CASE Arrive
  BY <1>2, EnterOK DEF Arrive
<1>3. CASE ConfirmRemoval \/ SubmitEdit \/ SubmitNew
  BY <1>3, AdminCallOK DEF ConfirmRemoval, SubmitEdit, SubmitNew, FlagInv, FlagHasARequest
<1>4. CASE Compare
  BY <1>4, FetchRowsOK DEF Compare
<1>5. ASSUME NEW p, AdminPush(p) PROVE FlagInv'
  BY <1>1, <1>5 DEF AdminPush
<1>6. CASE NewFromList \/ EditFromItem \/ BackToRows
           \/ \E p \in {HomePage} \cup {AdminPage("list", k, 0) : k \in AdminKinds} : GoByMenu(p)
  BY <1>5, <1>6 DEF NewFromList, EditFromItem, BackToRows, GoByMenu
<1>7. CASE CancelConfirm \/ TypeForm \/ \E i \in AdminIds : OpenRow(i) \/ AskToConfirm(i)
  BY <1>1, <1>5, <1>7 DEF CancelConfirm, TypeForm, OpenRow, AskToConfirm
<1>8. ASSUME NEW c \in saCalls, AdminArrives(c) PROVE FlagInv'
  <2>1. saLoading' = FALSE
    BY <1>8 DEF AdminArrives, RowsArrive, ItemArrives, SaveArrives, CreationArrives, RemovalArrives, SuspensionArrives,
                AdminFails, AdminAnswered, Lowered
  <2> QED BY <2>1 DEF FlagInv, FlagHasARequest
<1> QED BY <1>2, <1>3, <1>4, <1>6, <1>7, <1>8 DEF AdminNext

\* The administrator's pages by themselves do not spin for ever.
LEMMA FlagsHold == AdminSpec => []FlagHasARequest
<1>1. AdminInit => FlagInv
  BY DEF AdminInit, FlagInv, FlagHasARequest
<1>2. FlagInv /\ UNCHANGED adminVars => FlagInv'
  BY DEF adminVars, FlagInv, FlagHasARequest
<1>3. FlagInv => FlagHasARequest
  BY DEF FlagInv
<1> QED BY <1>1, <1>2, <1>3, AdminStep, PTL DEF AdminSpec

\* The technician's requests that lower the flag, all but that of the summary, and their shape.
Lowers(c) == c.op # "summary"
IsTaskCall(c) == c = [op |-> c.op, id |-> c.id, page |-> c.page, own |-> c.own, n |-> c.n]

\* The technician's flag has a request that lowers it.
SpinnerInv ==
    /\ tkLoading \in BOOLEAN
    /\ \A c \in tkCalls : IsTaskCall(c)
    /\ tkLoading => \E c \in tkCalls : Lowers(c)

\* A request that starts has the shape of one.
LEMMA TaskRequestOK ==
    ASSUME NEW op, NEW i, NEW own
    PROVE  IsTaskCall(TaskRequest(op, i, own)) /\ TaskRequest(op, i, own).op = op
BY DEF IsTaskCall, TaskRequest

\* So has one that is numbered anew,
LEMMA RenumberedOK ==
    ASSUME NEW c, IsTaskCall(c), NEW n
    PROVE  IsTaskCall([c EXCEPT !.n = n]) /\ [c EXCEPT !.n = n].op = c.op
<1>1. c = [op |-> c.op, id |-> c.id, page |-> c.page, own |-> c.own, n |-> c.n]
  BY DEF IsTaskCall
<1>2. [c EXCEPT !.n = n] = [op |-> c.op, id |-> c.id, page |-> c.page, own |-> c.own, n |-> n]
  BY <1>1
<1> QED BY <1>2 DEF IsTaskCall

\* So has one that goes on as another operation,
LEMMA NextAskedOK ==
    ASSUME NEW c, IsTaskCall(c), NEW op, NEW n
    PROVE  IsTaskCall([c EXCEPT !.op = op, !.n = n])
<1> DEFINE d == [c EXCEPT !.op = op]
<1>1. c = [op |-> c.op, id |-> c.id, page |-> c.page, own |-> c.own, n |-> c.n]
  BY DEF IsTaskCall
<1>2. d = [op |-> op, id |-> c.id, page |-> c.page, own |-> c.own, n |-> c.n]
  BY <1>1
<1>3. IsTaskCall(d)
  BY <1>2 DEF IsTaskCall
<1>4. [c EXCEPT !.op = op, !.n = n] = [d EXCEPT !.n = n]
  OBVIOUS
<1> HIDE DEF d
<1> QED BY <1>3, <1>4, RenumberedOK

\* and of another task.
LEMMA NextOfOK ==
    ASSUME NEW c, IsTaskCall(c), NEW op, NEW i, NEW n
    PROVE  IsTaskCall([c EXCEPT !.op = op, !.id = i, !.n = n]) /\ [c EXCEPT !.op = op, !.id = i, !.n = n].op = op
<1> DEFINE d == [c EXCEPT !.op = op]
           e == [d EXCEPT !.id = i]
<1>1. c = [op |-> c.op, id |-> c.id, page |-> c.page, own |-> c.own, n |-> c.n]
  BY DEF IsTaskCall
<1>2. d = [op |-> op, id |-> c.id, page |-> c.page, own |-> c.own, n |-> c.n]
  BY <1>1
<1>3. IsTaskCall(d) /\ d.op = op
  BY <1>2 DEF IsTaskCall
<1>4. [c EXCEPT !.op = op, !.id = i, !.n = n] = [e EXCEPT !.n = n]
  OBVIOUS
<1> HIDE DEF d
<1>5. d = [op |-> d.op, id |-> d.id, page |-> d.page, own |-> d.own, n |-> d.n]
  BY <1>3 DEF IsTaskCall
<1>6. e = [op |-> d.op, id |-> i, page |-> d.page, own |-> d.own, n |-> d.n]
  BY <1>5
<1>7. IsTaskCall(e) /\ e.op = op
  BY <1>3, <1>6 DEF IsTaskCall
<1> HIDE DEF e
<1> QED BY <1>4, <1>7, RenumberedOK

\* A request that lowers the flag may raise it.
LEMMA SendOK == ASSUME SpinnerInv, NEW c, IsTaskCall(c), Lowers(c), Send(c) PROVE SpinnerInv'
<1>1. tkCalls' = tkCalls \cup {c} /\ tkLoading' = TRUE
  BY DEF Send
<1> QED BY <1>1 DEF SpinnerInv

\* With a second request, whichever it is.
LEMMA SendTwoOK ==
    ASSUME SpinnerInv, NEW c, IsTaskCall(c), Lowers(c), NEW d, IsTaskCall(d), SendTwo(c, d)
    PROVE  SpinnerInv'
<1> DEFINE e == [d EXCEPT !.n = tkAsked + 1]
<1>1. IsTaskCall(e)
  BY RenumberedOK
<1>2. tkCalls' = tkCalls \cup {c, e} /\ tkLoading' = TRUE
  BY DEF SendTwo
<1> HIDE DEF e
<1> QED BY <1>1, <1>2 DEF SpinnerInv

\* What a technician's page asks for when it is opened.
LEMMA ReachOK == ASSUME SpinnerInv, ReachPage PROVE SpinnerInv'
<1>0. ASSUME NEW op, NEW i, NEW own, op # "summary"
      PROVE  IsTaskCall(TaskRequest(op, i, own)) /\ Lowers(TaskRequest(op, i, own))
  BY <1>0, TaskRequestOK DEF Lowers
<1>1. CASE UNCHANGED tkCallVars
  BY <1>1 DEF tkCallVars, SpinnerInv
<1>2. CASE tkGoing.page = "tasks"
  <2>1. CASE tkLoading
    <3> DEFINE c == TaskRequest("summary", 0, tkTechnician)
    <3>1. IsTaskCall(c)
      BY TaskRequestOK
    <3>2. tkCalls' = tkCalls \cup {c} /\ UNCHANGED tkLoading
      BY <1>2, <2>1 DEF ReachPage, AskList
    <3> HIDE DEF c
    <3> QED BY <3>1, <3>2 DEF SpinnerInv
  <2>2. CASE ~tkLoading
    <3>1. SendTwo(TaskRequest("list", 0, tkTechnician), TaskRequest("summary", 0, tkTechnician))
      BY <1>2, <2>2 DEF ReachPage, AskList
    <3>2. "list" # "summary"
      OBVIOUS
    <3> QED BY <1>0, <3>1, <3>2, SendTwoOK, TaskRequestOK
  <2> QED BY <2>1, <2>2
<1>3. CASE tkGoing.page = "activities"
  <2>1. UNCHANGED tkCallVars \/ Send(TaskRequest("allLogs", 0, tkTechnician))
    BY <1>3 DEF ReachPage, AskAllLogs
  <2>2. "allLogs" # "summary"
    OBVIOUS
  <2> QED BY <1>0, <1>1, <2>1, <2>2, SendOK
<1>4. CASE tkGoing.page = "task"
  <2>1. SendTwo(TaskRequest("one", tkGoing.id, FALSE), TaskRequest("logs", tkGoing.id, FALSE))
    BY <1>4 DEF ReachPage
  <2>2. "one" # "summary" /\ "logs" # "summary"
    OBVIOUS
  <2>3. /\ IsTaskCall(TaskRequest("one", tkGoing.id, FALSE)) /\ Lowers(TaskRequest("one", tkGoing.id, FALSE))
        /\ IsTaskCall(TaskRequest("logs", tkGoing.id, FALSE))
    BY <1>0, <2>2
  <2> QED BY <2>1, <2>3, SendTwoOK
<1>5. CASE tkGoing.page \in {"edit", "complete"}
  <2>1. Send(TaskRequest("one", tkGoing.id, FALSE))
    BY <1>5 DEF ReachPage
  <2>2. IsTaskCall(TaskRequest("one", tkGoing.id, FALSE)) /\ Lowers(TaskRequest("one", tkGoing.id, FALSE))
    BY <1>0
  <2> QED BY <2>1, <2>2, SendOK
<1>6. CASE tkGoing.page \notin {"tasks", "activities", "task", "edit", "complete"}
  BY <1>1, <1>6 DEF ReachPage
<1> QED BY <1>2, <1>3, <1>4, <1>5, <1>6

\* A request that is not that of the summary may raise the flag.
LEMMA AskedOfServerOK ==
    ASSUME SpinnerInv, NEW op, NEW i, NEW own, op # "summary", Send(TaskRequest(op, i, own))
    PROVE  SpinnerInv'
<1>1. IsTaskCall(TaskRequest(op, i, own)) /\ Lowers(TaskRequest(op, i, own))
  BY TaskRequestOK DEF Lowers
<1> QED BY <1>1, SendOK

\* The flag is up after an answer only if the handler goes on with a request that lowers
\* it, or the answer was a summary's, which is none of those the flag stands for.
LEMMA TaskAnsweredOK ==
    ASSUME SpinnerInv, NEW c, NEW ok, NEW more, TaskAnswered(c, ok, more), \A d \in more : IsTaskCall(d)
    PROVE  SpinnerInv'
<1>1. /\ c \in tkCalls /\ tkCalls' = (tkCalls \ {c}) \cup more
      /\ tkLoading' = ((\E d \in more : d.op # "summary") \/ (c.op = "summary" /\ tkLoading))
  BY DEF TaskAnswered, Down
<1>2. tkLoading' \in BOOLEAN
  BY <1>1
<1>3. tkLoading' => \E d \in tkCalls' : Lowers(d)
  BY <1>1 DEF SpinnerInv, Lowers
<1> QED BY <1>1, <1>2, <1>3 DEF SpinnerInv

\* The answers: of each kind of request, with what the handler asks next, and the failures.
LEMMA TaskAnswerOK == ASSUME SpinnerInv, NEW c \in tkCalls, TaskAnswer(c) PROVE SpinnerInv'
<1>0. IsTaskCall(c)
  BY DEF SpinnerInv
<1>1. CASE ListHere(c) \/ OneHere(c) \/ LogsHere(c) \/ SummaryHere(c) \/ TaskCreated(c) \/ RequestFails(c)
  <2>1. \E ok : TaskAnswered(c, ok, {})
    BY <1>1 DEF ListHere, OneHere, LogsHere, SummaryHere, TaskCreated, RequestFails
  <2> QED BY <2>1, TaskAnsweredOK
<1>2. CASE TaskChanged(c)
  <2>1. TaskAnswered(c, TRUE, AsksNext(c))
    BY <1>2 DEF TaskChanged
  <2>2. \A d \in AsksNext(c) : IsTaskCall(d)
    <3>1. CASE c.op = "startCard"
      <4>1. AsksNext(c) = {[c EXCEPT !.op = "list", !.id = 0, !.n = tkAsked]}
        BY <3>1 DEF AsksNext
      <4>2. IsTaskCall([c EXCEPT !.op = "list", !.id = 0, !.n = tkAsked])
        BY <1>0, NextOfOK
      <4> QED BY <4>1, <4>2, Zenon
    <3>2. CASE c.op = "start"
      <4>1. AsksNext(c) = {[c EXCEPT !.op = "one", !.id = c.page, !.n = tkAsked]}
        BY <3>2 DEF AsksNext
      <4>2. IsTaskCall([c EXCEPT !.op = "one", !.id = c.page, !.n = tkAsked])
        BY <1>0, NextOfOK
      <4> QED BY <4>1, <4>2, Zenon
    <3>3. CASE c.op = "complete"
      <4>1. AsksNext(c) = {[c EXCEPT !.op = "summary", !.n = tkAsked]}
        BY <3>3 DEF AsksNext
      <4>2. IsTaskCall([c EXCEPT !.op = "summary", !.n = tkAsked])
        BY <1>0, NextAskedOK
      <4> QED BY <4>1, <4>2, Zenon
    <3>4. CASE c.op \notin {"startCard", "start", "complete"}
      BY <3>4 DEF AsksNext
    <3> QED BY <3>1, <3>2, <3>3, <3>4
  <2> QED BY <2>1, <2>2, TaskAnsweredOK
<1>3. CASE ActivityLogged(c)
  <2> DEFINE d == [c EXCEPT !.op = IF c.page # 0 THEN "logs" ELSE "allLogs", !.id = c.page, !.n = tkAsked]
  <2>1. IsTaskCall(d)
    BY <1>0, NextOfOK
  <2>2. TaskAnswered(c, TRUE, {d})
    BY <1>3 DEF ActivityLogged
  <2> HIDE DEF d
  <2> QED BY <2>1, <2>2, TaskAnsweredOK
<1> QED BY <1>1, <1>2, <1>3 DEF TaskAnswer

\* SpinnerInv is inductive.
LEMMA TasksStep == ASSUME SpinnerInv, TasksNext PROVE SpinnerInv'
<1>1. CASE UNCHANGED tkCallVars
  BY <1>1 DEF tkCallVars, SpinnerInv
<1>2. CASE ReachPage
  BY <1>2, ReachOK
<1>3. ASSUME NEW p, PushTask(p) PROVE SpinnerInv'
  BY <1>1, <1>3 DEF PushTask
<1>4. CASE NewTask \/ FromTask \/ BackFromForm \/ (\E p \in {TaskPage("tasks", 0), tkOpened} : ByMenu(p))
           \/ \E r \in tkRows : FromCard(r)
  BY <1>3, <1>4 DEF NewTask, FromTask, BackFromForm, ByMenu, FromCard
<1>5. CASE OpenLog \/ FillLog \/ CloseLog
  BY <1>1, <1>5 DEF OpenLog, FillLog, CloseLog
<1>6. CASE SubmitTask
  <2>1. "complete" # "summary" /\ "update" # "summary" /\ "create" # "summary"
    OBVIOUS
  <2> QED BY <1>6, <2>1, AskedOfServerOK DEF SubmitTask, Asks
<1>7. CASE SubmitLog
  <2>1. "log" # "summary"
    OBVIOUS
  <2> QED BY <1>7, <2>1, AskedOfServerOK DEF SubmitLog
<1>8. ASSUME NEW r \in tkRows, StartCard(r) PROVE SpinnerInv'
  <2>1. "startCard" # "summary"
    OBVIOUS
  <2> QED BY <1>8, <2>1, AskedOfServerOK DEF StartCard, Asks
<1>9. ASSUME NEW op \in {"start", "cancel", "delete"}, OnTask(op) PROVE SpinnerInv'
  <2>1. op # "summary"
    OBVIOUS
  <2> QED BY <1>9, <2>1, AskedOfServerOK DEF OnTask, Asks
<1>10. ASSUME NEW c \in tkCalls, TaskAnswer(c) PROVE SpinnerInv'
  BY <1>10, TaskAnswerOK
<1> QED BY <1>2, <1>4, <1>5, <1>6, <1>7, <1>8, <1>9, <1>10 DEF TasksNext

\* The technician's pages by themselves do not spin for ever.
LEMMA SpinnersHold == TasksSpec => []SpinnerHasARequest
<1>1. TasksInit => SpinnerInv
  BY DEF TasksInit, SpinnerInv
<1>2. SpinnerInv /\ UNCHANGED taskVars => SpinnerInv'
  BY DEF taskVars, tkCallVars, SpinnerInv
<1>3. SpinnerInv => SpinnerHasARequest
  BY DEF SpinnerInv, Lowers, SpinnerHasARequest
<1> QED BY <1>1, <1>2, <1>3, TasksStep, PTL DEF TasksSpec

-----------------------------------------------------------------------------
(* The technician's own pages *)

\* The calls that are a submission, and the shape of a call.
Submits(c) == c.op \in {"create", "propose", "after"}
OwnRequest(c) ==
    /\ c = [op |-> c.op, of |-> c.of, id |-> c.id, n |-> c.n] /\ c.n \in Nat
    /\ c.op = "place" => c.of \in {"in", "out", "form"}

\* A submission since the page was opened keeps its flag up, and there is one at most.
SubmitsOK(calls, since, underway) ==
    /\ \A c \in calls : Submits(c) /\ c.n >= since => underway
    /\ \A c, d \in calls : Submits(c) /\ Submits(d) /\ c.n >= since /\ d.n >= since => c = d

\* Every call is numbered below the next one, and the submissions are in order.
SubmitInv ==
    /\ ownAsked \in Nat /\ ownSince \in Nat /\ ownSubmitting \in BOOLEAN
    /\ \A c \in ownCalls : OwnRequest(c) /\ c.n < ownAsked
    /\ SubmitsOK(ownCalls, ownSince, ownSubmitting)

\* A pair of different members has two.
LEMMA TwoCards == ASSUME NEW a, NEW b, a # b PROVE Cardinality({a, b}) = 2
<1>1. Cardinality({a}) = 1 /\ IsFiniteSet({a})
  BY FS_Singleton
<1>2. Cardinality({a} \cup {b}) = Cardinality({a}) + 1
  BY <1>1, FS_AddElement
<1>3. {a, b} = {a} \cup {b}
  OBVIOUS
<1> QED BY <1>1, <1>2, <1>3

\* What a page asks for when it is opened submits nothing.
LEMMA FirstCallsOfPage ==
    ASSUME NEW p, NEW n \in Nat
    PROVE  /\ Cardinality(FirstCalls(p, n)) \in Nat
           /\ \A c \in FirstCalls(p, n) : OwnRequest(c) /\ ~Submits(c) /\ c.n >= n /\ c.n < n + Cardinality(FirstCalls(p, n))
<1> DEFINE t == [op |-> "today", of |-> "none", id |-> 0, n |-> n]
           m == [op |-> "month", of |-> "none", id |-> 0, n |-> n + 1]
           l == [op |-> "list", of |-> "all", id |-> 0, n |-> n]
<1>1. OwnRequest(t) /\ ~Submits(t) /\ t.n = n /\ OwnRequest(m) /\ ~Submits(m) /\ m.n = n + 1
      /\ OwnRequest(l) /\ ~Submits(l) /\ l.n = n
  BY DEF OwnRequest, Submits
<1>2. t # m
  OBVIOUS
<1>3. \/ FirstCalls(p, n) = {t, m} \/ FirstCalls(p, n) = {} \/ FirstCalls(p, n) = {l}
  <2>1. CASE p = "attendance"
    BY <2>1 DEF FirstCalls
  <2>2. CASE p = "propose"
    BY <2>2 DEF FirstCalls
  <2>3. CASE p # "attendance" /\ p # "propose"
    BY <2>3 DEF FirstCalls
  <2> QED BY <2>1, <2>2, <2>3
<1> HIDE DEF t, m, l
<1>4. CASE FirstCalls(p, n) = {t, m}
  <2>1. Cardinality({t, m}) = 2
    BY <1>2, TwoCards
  <2> QED BY <1>1, <1>4, <2>1
<1>5. CASE FirstCalls(p, n) = {}
  BY <1>5, FS_EmptySet
<1>6. CASE FirstCalls(p, n) = {l}
  BY <1>1, <1>6, FS_Singleton
<1> QED BY <1>3, <1>4, <1>5, <1>6

\* A new page: what was asked belongs to one that was left.
LEMMA VisitOK ==
    ASSUME SubmitInv, NEW p, NEW under \in SUBSET ownCalls, OwnVisit(p, under)
    PROVE  SubmitInv'
<1> DEFINE first == FirstCalls(p, ownAsked)
<1>1. /\ ownAsked' = ownAsked + Cardinality(first) /\ ownSince' = ownAsked /\ ownSubmitting' = FALSE
      /\ ownCalls' = under \cup first
  BY DEF OwnVisit
<1>2. /\ Cardinality(first) \in Nat
      /\ \A c \in first : OwnRequest(c) /\ ~Submits(c) /\ c.n >= ownAsked /\ c.n < ownAsked + Cardinality(first)
  BY FirstCallsOfPage DEF SubmitInv
<1> HIDE DEF first
<1>3. \A c \in under : OwnRequest(c) /\ c.n \in Nat /\ c.n < ownAsked
  BY DEF SubmitInv, OwnRequest
<1>4. \A c \in ownCalls' : OwnRequest(c) /\ c.n < ownAsked' /\ ~(Submits(c) /\ c.n >= ownAsked)
  BY <1>1, <1>2, <1>3 DEF SubmitInv
<1>5. SubmitsOK(ownCalls', ownSince', ownSubmitting')
  BY <1>1, <1>4 DEF SubmitsOK
<1>6. ownAsked' \in Nat /\ ownSince' \in Nat
  BY <1>1, <1>2 DEF SubmitInv
<1>7. ownSubmitting' \in BOOLEAN
  BY <1>1
<1> QED BY <1>4, <1>5, <1>6, <1>7 DEF SubmitInv

\* A call that is sent has the shape of a call and the next number.
LEMMA OwnCallOK ==
    ASSUME SubmitInv, NEW op, NEW x, NEW i, op = "place" => x \in {"in", "out", "form"}
    PROVE  OwnRequest(OwnCall(op, x, i)) /\ OwnCall(op, x, i).op = op /\ OwnCall(op, x, i).n = ownAsked
BY DEF OwnRequest, OwnCall, SubmitInv

\* Something else is sent.
LEMMA SendOtherOK ==
    ASSUME SubmitInv, NEW op, NEW x, NEW i, OwnSend(OwnCall(op, x, i)), op \notin {"create", "propose", "after"},
           op = "place" => x \in {"in", "out", "form"}, UNCHANGED <<ownSince, ownSubmitting>>
    PROVE  SubmitInv'
<1> DEFINE c == OwnCall(op, x, i)
<1>1. OwnRequest(c) /\ c.op = op /\ c.n = ownAsked
  BY OwnCallOK
<1>2. ownCalls' = ownCalls \cup {c} /\ ownAsked' = ownAsked + 1
  BY DEF OwnSend
<1> HIDE DEF c
<1>3. SubmitsOK(ownCalls', ownSince', ownSubmitting')
  BY <1>1, <1>2 DEF SubmitInv, SubmitsOK, Submits
<1>4. \A d \in ownCalls' : OwnRequest(d) /\ d.n < ownAsked'
  <2>1. \A d \in ownCalls : d.n \in Nat /\ d.n < ownAsked
    BY DEF SubmitInv, OwnRequest
  <2> QED BY <1>1, <1>2, <2>1 DEF SubmitInv
<1> QED BY <1>2, <1>3, <1>4 DEF SubmitInv

\* A submission starts only when the flag is down.
LEMMA SubmitOwnOK == ASSUME SubmitInv, SubmitOwn PROVE SubmitInv'
<1> DEFINE op == IF ownPage = "propose" THEN "propose" ELSE "create"
           c == OwnCall(op, ownFilter, 0)
<1>1. OwnRequest(c) /\ c.n = ownAsked
  <2>1. op # "place"
    OBVIOUS
  <2> QED BY <2>1, OwnCallOK
<1>2. /\ ownCalls' = ownCalls \cup {c} /\ ownAsked' = ownAsked + 1 /\ ownSubmitting' = TRUE /\ ~ownSubmitting
      /\ UNCHANGED ownSince
  BY DEF SubmitOwn, MaySubmitOwn, OwnSend
<1> HIDE DEF c
<1>3. SubmitsOK(ownCalls', ownSince', ownSubmitting')
  BY <1>1, <1>2 DEF SubmitInv, SubmitsOK
<1>4. \A d \in ownCalls' : OwnRequest(d) /\ d.n < ownAsked'
  <2>1. \A d \in ownCalls : d.n \in Nat /\ d.n < ownAsked
    BY DEF SubmitInv, OwnRequest
  <2> QED BY <1>1, <1>2, <2>1 DEF SubmitInv
<1>5. ownAsked' \in Nat /\ ownSince' \in Nat
  BY <1>2 DEF SubmitInv
<1>6. ownSubmitting' \in BOOLEAN
  BY <1>2
<1> QED BY <1>3, <1>4, <1>5, <1>6 DEF SubmitInv

\* A call that goes on as another operation.
LEMMA OwnGoesOn ==
    ASSUME SubmitInv, NEW c \in ownCalls, NEW op, ownCalls' = (ownCalls \ {c}) \cup {[c EXCEPT !.op = op]},
           op # "place", op \in {"create", "propose", "after"} => Submits(c),
           UNCHANGED <<ownSince, ownSubmitting, ownAsked>>
    PROVE  SubmitInv'
<1> DEFINE d == [c EXCEPT !.op = op]
<1>1. c = [op |-> c.op, of |-> c.of, id |-> c.id, n |-> c.n] /\ c.n \in Nat /\ c.n < ownAsked
  BY DEF SubmitInv, OwnRequest
<1>2. d = [op |-> op, of |-> c.of, id |-> c.id, n |-> c.n]
  BY <1>1
<1>3. OwnRequest(d) /\ d.op = op /\ d.n = c.n
  BY <1>1, <1>2 DEF OwnRequest
<1>4. ownCalls' = (ownCalls \ {c}) \cup {d}
  OBVIOUS
<1> HIDE DEF d
<1>5. Submits(d) => Submits(c)
  BY <1>3 DEF Submits
<1>6. SubmitsOK(ownCalls', ownSince', ownSubmitting')
  BY <1>3, <1>4, <1>5 DEF SubmitInv, SubmitsOK
<1> QED BY <1>1, <1>3, <1>4, <1>6 DEF SubmitInv

\* A call that is over, and with it the submission it was of this page.
LEMMA OwnOver ==
    ASSUME SubmitInv, NEW c \in ownCalls, ownCalls' = ownCalls \ {c}, UNCHANGED <<ownSince, ownAsked>>,
           ownSubmitting' \in BOOLEAN, ownSubmitting' = ownSubmitting \/ (Still(c) /\ Submits(c))
    PROVE  SubmitInv'
<1>1. SubmitsOK(ownCalls', ownSince', ownSubmitting')
  BY DEF SubmitInv, SubmitsOK, Still
<1> QED BY <1>1 DEF SubmitInv

\* The answers: of each kind of call, and the failure of any.
LEMMA OwnAnswerOK == ASSUME SubmitInv, NEW c \in ownCalls, OwnAnswer(c) PROVE SubmitInv'
<1>1. CASE PlaceHere(c)
  <2>1. c.of \in {"in", "out", "form"} /\ UNCHANGED <<ownSince, ownSubmitting, ownAsked>>
    BY <1>1 DEF PlaceHere, SubmitInv, OwnRequest, ownFormVars
  <2>2. CASE c.of = "form"
    <3>1. ownCalls' = ownCalls \ {c}
      BY <1>1, <2>2 DEF PlaceHere
    <3> QED BY <2>1, <3>1, OwnOver DEF SubmitInv
  <2>3. CASE c.of # "form"
    <3>1. ownCalls' = (ownCalls \ {c}) \cup {[c EXCEPT !.op = c.of]}
      BY <1>1, <2>3 DEF PlaceHere
    <3>2. c.of # "place" /\ c.of \notin {"create", "propose", "after"}
      BY <2>1
    <3> QED BY <2>1, <3>1, <3>2, OwnGoesOn
  <2> QED BY <2>2, <2>3
<1>2. CASE OwnListHere(c) \/ OwnOneHere(c) \/ TodayHere(c)
  <2>1. ownCalls' = ownCalls \ {c} /\ UNCHANGED <<ownSince, ownAsked, ownSubmitting>>
    BY <1>2 DEF OwnListHere, OwnOneHere, TodayHere, OwnAnswered, ownFormVars
  <2> QED BY <2>1, OwnOver DEF SubmitInv
<1>3. CASE CreatedHere(c)
  <2>1. /\ c.op = "create" /\ UNCHANGED <<ownSince, ownSubmitting, ownAsked>>
        /\ ownCalls' = (ownCalls \ {c}) \cup {[c EXCEPT !.op = "after"]}
    BY <1>3 DEF CreatedHere
  <2>2. Submits(c)
    BY <2>1 DEF Submits
  <2> QED BY <2>1, <2>2, OwnGoesOn
<1>4. CASE SubmissionEnds(c)
  <2>1. ownCalls' = ownCalls \ {c} /\ UNCHANGED <<ownSince, ownAsked>> /\ c.op = "after"
        /\ (IF Still(c) THEN ownSubmitting' = FALSE ELSE ownSubmitting' = ownSubmitting)
    BY <1>4 DEF SubmissionEnds, OwnAnswered
  <2>2. Submits(c) /\ ownSubmitting \in BOOLEAN
    BY <2>1 DEF Submits, SubmitInv
  <2> QED BY <2>1, <2>2, OwnOver
<1>5. CASE ProposedHere(c)
  <2>1. OwnVisit("proposals", ownCalls \ {c})
    BY <1>5 DEF ProposedHere
  <2> QED BY <2>1, VisitOK
<1>6. CASE CheckedHere(c)
  <2>1. UNCHANGED <<ownSince, ownSubmitting, ownAsked>> /\ ownCalls' = (ownCalls \ {c}) \cup {[c EXCEPT !.op = "month"]}
    BY <1>6 DEF CheckedHere, ownFormVars
  <2> QED BY <2>1, OwnGoesOn
<1>7. CASE OwnFails(c)
  <2>1. /\ ownCalls' = ownCalls \ {c} /\ UNCHANGED <<ownSince, ownAsked>>
        /\ ownSubmitting' = (ownSubmitting /\ ~(Still(c) /\ c.op \in {"create", "propose"}))
    BY <1>7 DEF OwnFails, OwnAnswered
  <2>2. ownSubmitting \in BOOLEAN /\ (c.op \in {"create", "propose"} => Submits(c))
    BY DEF Submits, SubmitInv
  <2>3. ownSubmitting' \in BOOLEAN /\ (ownSubmitting' = ownSubmitting \/ (Still(c) /\ Submits(c)))
    <3>1. CASE Still(c) /\ c.op \in {"create", "propose"}
      BY <2>1, <2>2, <3>1
    <3>2. CASE ~(Still(c) /\ c.op \in {"create", "propose"})
      BY <2>1, <2>2, <3>2
    <3> QED BY <3>1, <3>2
  <2> QED BY <2>1, <2>3, OwnOver
<1> QED BY <1>1, <1>2, <1>3, <1>4, <1>5, <1>6, <1>7 DEF OwnAnswer

\* SubmitInv is inductive.
LEMMA OwnStep == ASSUME SubmitInv, OwnNext PROVE SubmitInv'
<1>1. CASE UNCHANGED <<ownSince, ownSubmitting, ownCalls, ownAsked>>
  BY <1>1 DEF SubmitInv
<1>2. ASSUME NEW p, OwnByMenu(p) PROVE SubmitInv'
  BY <1>2, VisitOK DEF OwnByMenu
<1>3. CASE OpenOwnForm \/ FillOwnForm \/ Attach \/ CloseOwnForm
  <2>1. ASSUME NEW f, NEW g, SetForm(f, g) PROVE SubmitInv'
    BY <1>1, <2>1 DEF SetForm
  <2> QED BY <1>3, <2>1, VisitOK DEF OpenOwnForm, FillOwnForm, Attach, CloseOwnForm
<1>4. CASE CloseDetail
  BY <1>1, <1>4 DEF CloseDetail, ownFormVars
<1>5. CASE SubmitOwn
  BY <1>5, SubmitOwnOK
<1>6. CASE AskPlace
  BY <1>6, SendOtherOK DEF AskPlace, ownFormVars
<1>7. ASSUME NEW f, ChooseFilter(f) PROVE SubmitInv'
  BY <1>7, SendOtherOK DEF ChooseFilter, ownFormVars
<1>8. ASSUME NEW i \in OwnItems, ViewOwn(i) \/ Download(i) PROVE SubmitInv'
  BY <1>8, SendOtherOK DEF ViewOwn, Download, ownFormVars
<1>9. ASSUME NEW op \in {"in", "out"}, Check(op) PROVE SubmitInv'
  <2>1. UNCHANGED <<ownSince, ownSubmitting>> /\ (OwnSend(OwnCall("place", op, 0)) \/ OwnSend(OwnCall(op, op, 0)))
    BY <1>9 DEF Check, ownFormVars
  <2>2. op \notin {"create", "propose", "after", "place"}
    OBVIOUS
  <2> QED BY <2>1, <2>2, SendOtherOK
<1>10. ASSUME NEW c \in ownCalls, OwnAnswer(c) PROVE SubmitInv'
  BY <1>10, OwnAnswerOK
<1> QED BY <1>2, <1>3, <1>4, <1>5, <1>6, <1>7, <1>8, <1>9, <1>10 DEF OwnNext

\* The technician's own pages by themselves send one submission per visit.
LEMMA SubmissionsHold == OwnSpec => []OneSubmissionPerVisit
<1>1. OwnInit => SubmitInv
  <2> SUFFICES ASSUME OwnInit PROVE SubmitInv
    OBVIOUS
  <2>1. /\ ownCalls = FirstCalls(ownPage, 0) /\ ownAsked = Cardinality(ownCalls) /\ ownSince = 0 /\ ownSubmitting = FALSE
    BY DEF OwnInit
  <2>2. ownAsked \in Nat /\ \A c \in ownCalls : OwnRequest(c) /\ ~Submits(c) /\ c.n < ownAsked
    BY <2>1, FirstCallsOfPage
  <2> QED BY <2>1, <2>2 DEF SubmitInv, SubmitsOK
<1>2. SubmitInv /\ UNCHANGED ownVars => SubmitInv'
  BY DEF ownVars, ownFormVars, SubmitInv
<1>3. SubmitInv => OneSubmissionPerVisit
  BY DEF SubmitInv, SubmitsOK, Submits, Still, OneSubmissionPerVisit
<1> QED BY <1>1, <1>2, <1>3, OwnStep, PTL DEF OwnSpec

-----------------------------------------------------------------------------
(* The whole *)

\* A step of the whole is a step of one area; the others keep what they have.
LEMMA OneAreaMoves ==
    ASSUME [WebNext]_webVars
    PROVE  /\ [NavNext]_nav /\ [RoundNext]_round /\ [SettlementNext]_settle
           /\ [DeskNext]_deskVars /\ [ViewsNext]_views /\ [ClientFormNext]_clientForm
           /\ [ClientDeskNext]_clientDesk /\ [AccessNext]_access /\ [SetupNext]_setup
           /\ [FormSteps \/ CardSteps]_setupVars /\ [RoutersNext]_routersVars /\ [WADeskNext]_waDeskVars
           /\ [WAPanelsNext]_panelVars /\ [AdminNext]_adminVars /\ [PlanFormNext]_planVars
           /\ [TasksNext]_taskVars /\ [OwnNext]_ownVars
<1>1. CASE UNCHANGED webVars
  BY <1>1 DEF webVars
<1>2. CASE WebNext
  <2>1. [NavNext]_nav /\ [RoundNext]_round /\ [SettlementNext]_settle
    BY <1>2 DEF WebNext, OnlyIn
  <2>2. [DeskNext]_deskVars /\ [ViewsNext]_views /\ [ClientFormNext]_clientForm
    BY <1>2 DEF WebNext, OnlyIn
  <2>3. [ClientDeskNext]_clientDesk /\ [AccessNext]_access /\ [SetupNext]_setup
    BY <1>2 DEF WebNext, OnlyIn
  <2>4. [FormSteps \/ CardSteps]_setupVars /\ [RoutersNext]_routersVars /\ [WADeskNext]_waDeskVars
    BY <1>2 DEF WebNext, OnlyIn
  <2>5. [WAPanelsNext]_panelVars /\ [AdminNext]_adminVars /\ [PlanFormNext]_planVars
    BY <1>2 DEF WebNext, OnlyIn
  <2>6. [TasksNext]_taskVars /\ [OwnNext]_ownVars
    BY <1>2 DEF WebNext, OnlyIn
  <2> QED BY <2>1, <2>2, <2>3, <2>4, <2>5, <2>6
<1> QED BY <1>1, <1>2

\* Every area starts in one of its initial states.
LEMMA AreasBegin ==
    ASSUME WebInit
    PROVE  /\ NavInit /\ RoundInit /\ SettlementInit /\ DeskInit /\ ViewsInit /\ ClientFormInit
           /\ ClientDeskInit /\ AccessInit /\ SetupInit /\ SetupPageInit /\ RoutersInit /\ WADeskInit
           /\ WAPanelsInit /\ AdminInit /\ PlanFormInit /\ TasksInit /\ OwnInit
BY DEF WebInit

\* The whole behaves in each area as the area by itself: what an area keeps, the client keeps.
LEMMA AreasHold ==
    WebSpec => /\ NavSpec /\ RoundSpec /\ SettlementSpec /\ DeskSpec /\ ViewsSpec /\ ClientFormSpec
               /\ ClientDeskSpec /\ AccessSpec /\ SetupSpec
               /\ SetupPageInit /\ [][FormSteps \/ CardSteps]_setupVars
               /\ RoutersSpec /\ WADeskSpec /\ WAPanelsSpec /\ AdminSpec /\ PlanFormSpec /\ TasksSpec /\ OwnSpec
BY AreasBegin, OneAreaMoves, PTL
   DEF WebSpec, NavSpec, RoundSpec, SettlementSpec, DeskSpec, ViewsSpec, ClientFormSpec, ClientDeskSpec, AccessSpec,
       SetupSpec, RoutersSpec, WADeskSpec, WAPanelsSpec, AdminSpec, PlanFormSpec, TasksSpec, OwnSpec

\* Every item of the menu, and every link of the dashboard, leads to a page whose guards let the
\* user in, whatever the role, the role switched to and the features: the menu filters
\* (Sidebar.tsx) and the guards (ProtectedRoute, FeatureGate) are two tables that agree.
THEOREM MenuAgreesWithGuards == WebSpec => []MenuKeepsItsWord
BY AreasHold, NavigationHolds, PTL

\* A partial payment the collector's round shows is one the server has received, and is less
\* than what is owed, through marks set and taken back (collectorStore.addPartialPayment).
THEOREM PartialMarksAreBacked == WebSpec => []PartialIsBacked
BY AreasHold, PartialsHold, PTL

\* A settlement that was decided, and a deposit that was confirmed, stay so, whichever dialogs
\* are closed and opened while the handlers run (VerifySettlementDialog, DepositsTab): for the
\* decisions made in the dialogs of one tab, without quick approvals and changes of tab.
THEOREM DecisionsStand == WebSpec => DecisionsAreFinal
BY AreasHold, DecisionsHold, PTL

\* The payment matrix shown is the one of the year and filter that are chosen, although answers
\* arrive in any order and may change the year (the payment matrix's effect and its clean-up).
THEOREM MatrixIsOfItsQuery == WebSpec => []MatrixIsCurrent
BY AreasHold, MatrixHolds, PTL

\* The package a client form has chosen is among those it offers, through changes of category
\* and answers that come late (ClientForm.tsx).
THEOREM ChosenPackagesAreOffered == WebSpec => []ChosenPackageIsOffered
BY AreasHold, PackagesHold, PTL

\* The page numbers offered under the client list exist, and the present one is among them, for
\* any number of pages (getPageNumbers).
THEOREM OfferedPagesExist == WebSpec => []PagesOfferedExist
BY AreasHold, PagesHold, PTL

\* As long as its table is there, the dialog that has started a deletion names the item and holds
\* its buttons, whatever else is answered, fails or reloads (the tables of routers and profiles).
THEOREM DialogsNameTheirItems == WebSpec => []DialogNamesItsItem
BY AreasHold, RoutersHold, DialogHolds, PTL

\* The requests that a page holds back by a flag while one of their kind is under way do not
\* overlap, for any number of requests under way and pages left.  Other requests of the same
\* pages (deletions, check-ins, files) are held back by nothing, and nothing is said of them.
THEOREM RequestsDoNotOverlap == WebSpec => []OneRequestAtATime
<1>1. WebSpec => []OnePaymentAtATime /\ []OneHandlerAtATime /\ []OneSavePerKind /\ []OneInstallAtATime
  BY AreasHold, PaymentsHold, HandlersHold, ServicesHold, InstallsHold, PTL
<1>2. WebSpec => []OneListAtATime /\ []OneSubmissionPerVisit
  BY AreasHold, RoutersHold, ListsHold, SubmissionsHold, PTL
<1>3. WebSpec => [](OneSendAtATime /\ OneCampaignAtATime) /\ [](OneConnectAtATime /\ OneTemplateOpAtATime)
  BY AreasHold, MessagesHold, PanelsHold, PTL
<1> QED BY <1>1, <1>2, <1>3, PTL DEF OneRequestAtATime

\* The flag that replaces a page of the administrator or the technician by a spinner is up only
\* while a request that lowers it is under way (superAdminStore, technicianStore).
THEOREM SpinnersAlwaysEnd == WebSpec => []SpinnersEnd
BY AreasHold, FlagsHold, SpinnersHold, PTL DEF SpinnersEnd

\* A plan that is sent has no limit that its page would hide (PlanForm's submit).
THEOREM SentLimitsAreAllListed == WebSpec => []SentLimitsAreListed
BY AreasHold, LimitsHold, PTL

\* A limit the plan form does not show goes through any number of changes and savings
\* (PlanForm's submit, which starts from the limits of the plan).
THEOREM UnseenLimitsAreKept == WebSpec => UnseenLimitsSurvive
BY AreasHold, UnseenHold, PTL
==============================================================================
