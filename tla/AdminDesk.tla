------------------------------ MODULE AdminDesk ------------------------------
(***************************************************************************)
(* The pages of the platform's administrator: a dashboard, and for the     *)
(* tenants, the plans and the addons a list, an item, a form to change it  *)
(* and one for a new one.  One store holds the lists and the items of all  *)
(* of them, with a single flag and a single error for every request.       *)
(***************************************************************************)
EXTENDS Naturals, FiniteSets

CONSTANTS
    AdminKinds,     \* kinds of item: "tenants" first of all, "plans", "addons"
    AdminIds,       \* items a kind may have
    MaxAdminAsked   \* bound: requests begun

ASSUME AdminDeskAssumption ==
    /\ "tenants" \in AdminKinds /\ AdminKinds \subseteq {"tenants", "plans", "addons"}
    /\ AdminIds \subseteq Nat \ {0} /\ MaxAdminAsked \in Nat

VARIABLES
    saAt,           \* the page: which, of what kind, of which item
    saGoing,        \* the page that was pushed last and is not there yet, or NoWhere
    saSince,        \* the number of requests begun before the page was
    saDialog,       \* the item the confirmation is about, 0 when it is closed
    saTyped,        \* the form holds something typed
    saRows, saHeld, \* the store: the list and the item of each kind
    saLoading, saError,
    saCalls,        \* requests: what, kind, item, the item whose values are sent, order
    saKept,         \* the server: the items of each kind
    saAsked         \* requests begun so far

saPageVars == <<saAt, saGoing, saSince, saDialog, saTyped>>
saStoreVars == <<saRows, saHeld>>
adminVars == <<saPageVars, saStoreVars, saLoading, saError, saCalls, saKept, saAsked>>

AdminPage(page, k, i) == [page |-> page, kind |-> k, id |-> i]
NoWhere == AdminPage("none", "tenants", 0)
HomePage == AdminPage("home", "tenants", 0)

AdminInit ==
    /\ saAt = NoWhere /\ saGoing = HomePage /\ saSince = 0 /\ saDialog = 0 /\ saTyped = FALSE
    /\ saRows = [k \in AdminKinds |-> {}] /\ saHeld = [k \in AdminKinds |-> 0]
    /\ saLoading = FALSE /\ saError = FALSE /\ saCalls = {} /\ saAsked = 0
    /\ saKept \in [AdminKinds -> SUBSET AdminIds]

\* Every request raises the flag and clears the error.
AdminCall(op, k, i, data) ==
    /\ saAsked < MaxAdminAsked /\ saAsked' = saAsked + 1 /\ saLoading' = TRUE /\ saError' = FALSE
    /\ saCalls' = saCalls \cup {[op |-> op, kind |-> k, id |-> i, data |-> data, n |-> saAsked]}

\* A list is not asked for while anything at all is.
FetchRows(k) == IF saLoading THEN UNCHANGED <<saLoading, saError, saCalls, saAsked>> ELSE AdminCall("list", k, 0, 0)

\* The dashboard asks for the three lists at once: the first raises the flag the others find.
FetchDashboard == FetchRows("tenants")

-----------------------------------------------------------------------------
(* Pages. *)

\* The page that is left clears its item, the new one asks for what it shows.
Enter(p) ==
    /\ saAt' = p /\ saGoing' = NoWhere /\ saSince' = saAsked /\ saDialog' = 0 /\ saTyped' = FALSE
    /\ saHeld' = (IF saAt.page \in {"item", "edit"} THEN [saHeld EXCEPT ![saAt.kind] = 0] ELSE saHeld)
    /\ CASE p.page = "home" -> FetchDashboard
         [] p.page = "list" -> FetchRows(p.kind)
         [] p.page \in {"item", "edit"} -> AdminCall("one", p.kind, p.id, 0)
         [] OTHER -> UNCHANGED <<saLoading, saError, saCalls, saAsked>>
    /\ UNCHANGED <<saRows, saKept>>

Arrive == saGoing # NoWhere /\ Enter(saGoing)

AdminPush(p) ==
    /\ saGoing' = p
    /\ UNCHANGED <<saAt, saSince, saDialog, saTyped, saStoreVars, saLoading, saError, saCalls, saKept, saAsked>>

\* The menu is always there.
GoByMenu(p) == saGoing = NoWhere /\ saAt.page # "none" /\ p # saAt /\ AdminPush(p)

AdminRowsShown == saAt.page = "list" /\ ~saLoading /\ ~saError

\* A click on a button of a row reaches the row as well, which pushes the item's page last:
\* to edit from the list is to open the item.
OpenRow(i) == AdminRowsShown /\ i \in saRows[saAt.kind] /\ AdminPush(AdminPage("item", saAt.kind, i))

\* For the same reason to ask for a deletion, or a suspension, is to leave the list too.
AskToConfirm(i) ==
    /\ AdminRowsShown /\ saDialog = 0 /\ i \in saRows[saAt.kind] /\ saDialog' = i
    /\ saGoing' = AdminPage("item", saAt.kind, i)
    /\ UNCHANGED <<saAt, saSince, saTyped, saStoreVars, saLoading, saError, saCalls, saKept, saAsked>>

\* Neither button of the dialog is told of a request that is under way.
ConfirmRemoval ==
    /\ saAt.page = "list" /\ saDialog # 0
    /\ AdminCall(IF saAt.kind = "tenants" THEN "suspend" ELSE "remove", saAt.kind, saDialog, 0)
    /\ UNCHANGED <<saPageVars, saStoreVars, saKept>>

CancelConfirm ==
    /\ saDialog # 0 /\ saDialog' = 0
    /\ UNCHANGED <<saAt, saGoing, saSince, saTyped, saStoreVars, saLoading, saError, saCalls, saKept, saAsked>>

NewFromList ==
    /\ saAt.page = "list" /\ saDialog = 0 /\ saAt.kind # "tenants" /\ AdminPush(AdminPage("new", saAt.kind, 0))

\* The comparison of the plans is a dialog that asks for the list again.
Compare ==
    /\ saAt.page = "list" /\ saAt.kind = "plans" /\ saDialog = 0 /\ ~saLoading /\ FetchRows("plans")
    /\ UNCHANGED <<saPageVars, saStoreVars, saKept>>

\* An item's page, and the form to change it, show the item that is held, whichever it is.
ItemShown == saAt.page \in {"item", "edit"} /\ ~saLoading /\ ~saError /\ saHeld[saAt.kind] # 0

EditFromItem == ItemShown /\ saAt.page = "item" /\ AdminPush(AdminPage("edit", saAt.kind, saHeld[saAt.kind]))
BackToRows == ItemShown /\ AdminPush(AdminPage(IF saAt.page = "item" THEN "list" ELSE "item", saAt.kind, IF saAt.page = "item" THEN 0 ELSE saAt.id))

TypeForm ==
    /\ (ItemShown /\ saAt.page = "edit") \/ saAt.page = "new"
    /\ saTyped' = TRUE
    /\ UNCHANGED <<saAt, saGoing, saSince, saDialog, saStoreVars, saLoading, saError, saCalls, saKept, saAsked>>

\* The flag replaces the form by a spinner: it will start again from the item that is held.
SubmitEdit ==
    /\ ItemShown /\ saAt.page = "edit" /\ saTyped /\ saTyped' = FALSE
    /\ AdminCall("save", saAt.kind, saAt.id, saHeld[saAt.kind])
    /\ UNCHANGED <<saAt, saGoing, saSince, saDialog, saStoreVars, saKept>>

MaySubmitNew == saTyped /\ ~saLoading
SubmitNew ==
    /\ saAt.page = "new" /\ MaySubmitNew /\ AdminCall("create", saAt.kind, 0, 0)
    /\ UNCHANGED <<saPageVars, saStoreVars, saKept>>

-----------------------------------------------------------------------------
(* Answers. *)

\* Any answer lowers the flag, whatever else is under way.
Lowered(ok) == FALSE

AdminAnswered(c, ok) ==
    /\ c \in saCalls /\ saCalls' = saCalls \ {c} /\ saLoading' = Lowered(ok) /\ saError' = (saError \/ ~ok)
    /\ UNCHANGED <<saAt, saSince, saTyped, saAsked>>

RowsArrive(c) ==
    /\ c.op = "list" /\ AdminAnswered(c, TRUE) /\ saRows' = [saRows EXCEPT ![c.kind] = saKept[c.kind]]
    /\ UNCHANGED <<saGoing, saDialog, saHeld, saKept>>

ItemArrives(c) ==
    /\ c.op = "one" /\ c.id \in saKept[c.kind] /\ AdminAnswered(c, TRUE)
    /\ saHeld' = [saHeld EXCEPT ![c.kind] = c.id] /\ UNCHANGED <<saGoing, saDialog, saRows, saKept>>

SaveArrives(c) ==
    /\ c.op = "save" /\ c.id \in saKept[c.kind] /\ AdminAnswered(c, TRUE)
    /\ saGoing' = AdminPage("item", c.kind, c.id) /\ UNCHANGED <<saDialog, saStoreVars, saKept>>

CreationArrives(c) ==
    /\ c.op = "create" /\ AdminAnswered(c, TRUE) /\ saGoing' = AdminPage("list", c.kind, 0)
    /\ \E i \in AdminIds \ saKept[c.kind] :
         /\ saKept' = [saKept EXCEPT ![c.kind] = @ \cup {i}] /\ saRows' = [saRows EXCEPT ![c.kind] = @ \cup {i}]
    /\ UNCHANGED <<saDialog, saHeld>>

\* A dialog is closed by the answer to what it asked, if its page is still the same.
DialogAfter(c) == IF saSince <= c.n THEN 0 ELSE saDialog

RemovalArrives(c) ==
    /\ c.op = "remove" /\ c.id \in saKept[c.kind] /\ AdminAnswered(c, TRUE) /\ saDialog' = DialogAfter(c)
    /\ saKept' = [saKept EXCEPT ![c.kind] = @ \ {c.id}] /\ saRows' = [saRows EXCEPT ![c.kind] = @ \ {c.id}]
    /\ saHeld' = [saHeld EXCEPT ![c.kind] = IF @ = c.id THEN 0 ELSE @] /\ UNCHANGED saGoing

SuspensionArrives(c) ==
    /\ c.op = "suspend" /\ c.id \in saKept[c.kind] /\ AdminAnswered(c, TRUE) /\ saDialog' = DialogAfter(c)
    /\ UNCHANGED <<saGoing, saStoreVars, saKept>>

\* A request that changes something may fail after the server has done it.
AdminFails(c) ==
    /\ AdminAnswered(c, FALSE) /\ UNCHANGED <<saGoing, saDialog, saStoreVars>>
    /\ saKept' \in {saKept} \cup (IF c.op = "remove" THEN {[saKept EXCEPT ![c.kind] = @ \ {c.id}]} ELSE {})

AdminArrives(c) ==
    RowsArrive(c) \/ ItemArrives(c) \/ SaveArrives(c) \/ CreationArrives(c) \/ RemovalArrives(c) \/ SuspensionArrives(c) \/ AdminFails(c)

AdminNext ==
    \/ Arrive \/ ConfirmRemoval \/ CancelConfirm \/ NewFromList \/ Compare \/ EditFromItem \/ BackToRows
    \/ TypeForm \/ SubmitEdit \/ SubmitNew
    \/ \E p \in {HomePage} \cup {AdminPage("list", k, 0) : k \in AdminKinds} : GoByMenu(p)
    \/ \E i \in AdminIds : OpenRow(i) \/ AskToConfirm(i)
    \/ \E c \in saCalls : AdminArrives(c)

AdminSpec == AdminInit /\ [][AdminNext]_adminVars

-----------------------------------------------------------------------------
\* The flag hides every page and holds back every list: it is up only while some request,
\* of any page, may still lower it.
FlagHasARequest == saLoading => saCalls # {}

\* Fails: the counts of plans and addons on the dashboard are those of nothing asked for.
DashboardIsWhole ==
    saAt.page = "home" /\ ~saLoading /\ ~saError => \A k \in AdminKinds : saRows[k] = saKept[k]

\* Fails: the item of a page that was left arrives on the next one, and is saved under its address.
SaveIsOfItsItem == \A c \in saCalls : c.op = "save" => c.data = c.id

\* Fails: a dialog is confirmed again while its request is under way.
OneRemovalAtATime == \A c, d \in saCalls : c.op = "remove" /\ d.op = "remove" /\ c.id = d.id /\ c.kind = d.kind => c = d

\* Fails: the page goes, and the dialog with it, though nobody has answered it.
DialogIsAnswered == [][saDialog # 0 /\ saDialog' = 0 => saAt' = saAt]_adminVars
=============================================================================
