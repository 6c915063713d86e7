----------------------------- MODULE AccessDesk -----------------------------
(***************************************************************************)
(* The page of vouchers and the page of PPPoE secrets.  On both, a handler  *)
(* sets the flag loading, sends its request, announces the outcome, loads   *)
(* the lists again and resets the flag.  The voucher page disables its      *)
(* buttons while the flag is set; that of the secrets only some of them.    *)
(***************************************************************************)
EXTENDS Naturals, FiniteSets

CONSTANTS
    Items,          \* vouchers or secrets
    Bundles,        \* packages of vouchers
    Nases,          \* routers secrets are filtered by
    MaxDeliveries,  \* bound: times one request may reach the server (apiClient sends again)
    MaxHandlers,    \* bound: handlers that are running
    MaxLoads        \* bound: loads begun by the page

ASSUME AccessAssumption ==
    /\ MaxDeliveries \in Nat \ {0} /\ MaxHandlers \in Nat /\ MaxLoads \in Nat /\ "all" \notin Nases
    /\ "none" \notin Items \cup Bundles

VARIABLES
    accessPage,     \* vouchers or secrets
    accessLoading,  \* the page's flag
    items,          \* the server: status of an item; "none" when it is not there
    isolatedItems,  \* the server: vouchers that are isolated
    bundles,        \* the server: packages
    itemRows,       \* the status the rows show, with the filter they answer
    isolatedRows,   \* rows shown as isolated
    bundleRows,     \* packages shown
    nas,            \* the router chosen as a filter
    genBundle,      \* the package chosen to generate vouchers of
    askFor,         \* the dialog that is open: delete, delete package, create or edit
    handlers,       \* handlers that are running
    loadsBegun      \* loads begun by the page (numbers them)

access == <<accessPage, accessLoading, items, isolatedItems, bundles, itemRows, isolatedRows, bundleRows, nas,
            genBundle, askFor, handlers, loadsBegun>>
atServer == <<items, isolatedItems, bundles>>
shownRows == <<itemRows, isolatedRows, bundleRows>>

Changeable == {"active", "revoked"}
NoDialog == [kind |-> "none", of |-> "none"]
Toggled(s) == IF s = "revoked" THEN "active" ELSE "revoked"

\* The page loads when it is opened; one voucher is in use already.
AccessInit ==
    /\ accessPage \in {"vouchers", "secrets"} /\ accessLoading = TRUE
    /\ \E used \in SUBSET Items :
         /\ Cardinality(used) <= (IF accessPage = "vouchers" THEN 1 ELSE 0)
         /\ items = [i \in Items |-> IF i \in used THEN "used" ELSE "active"]
    /\ isolatedItems = {} /\ bundles = (IF accessPage = "vouchers" THEN Bundles ELSE {})
    /\ itemRows = [of |-> "all", status |-> <<>>] /\ isolatedRows = {} /\ bundleRows = {}
    /\ nas = "all" /\ genBundle = "none" /\ askFor = NoDialog
    /\ handlers = {[op |-> "load", of |-> "none", n |-> 0, phase |-> "lists", nas |-> "all"]} /\ loadsBegun = 0

-----------------------------------------------------------------------------
(* A handler: its request, then the lists *)

Run(op, of, phase, f) ==
    /\ Cardinality(handlers) < MaxHandlers /\ loadsBegun < MaxLoads
    /\ loadsBegun' = loadsBegun + 1 /\ accessLoading' = TRUE
    /\ handlers' = handlers \cup {[op |-> op, of |-> of, n |-> loadsBegun + 1, phase |-> phase, nas |-> f]}

Begin(op, of) ==
    /\ Run(op, of, "request", nas)
    /\ UNCHANGED <<accessPage, atServer, shownRows, nas, genBundle>>

\* load
Load ==
    /\ ~accessLoading /\ Run("load", "none", "lists", nas)
    /\ UNCHANGED <<accessPage, atServer, shownRows, nas, genBundle, askFor>>

\* The lists replace what is shown; the first package is chosen when none is.
ListsArrive(h, ok) ==
    /\ h \in handlers /\ h.phase = "lists" /\ handlers' = handlers \ {h} /\ accessLoading' = FALSE
    /\ IF ok
       THEN /\ itemRows' = [of |-> h.nas, status |-> [i \in {x \in Items : items[x] # "none"} |-> items[i]]]
            /\ isolatedRows' = isolatedItems /\ bundleRows' = bundles
            /\ genBundle' = IF genBundle = "none" /\ bundles # {} THEN CHOOSE b \in bundles : TRUE ELSE genBundle
       ELSE UNCHANGED <<shownRows, genBundle>>
    /\ UNCHANGED <<accessPage, atServer, nas, askFor, loadsBegun>>

\* What the server does for a request that reaches it a number of times.
StatusAfter(h, times) ==
    CASE h.op = "toggle" /\ items[h.of] \in Changeable ->
           [items EXCEPT ![h.of] = IF times = 1 THEN Toggled(@) ELSE @]
      [] h.op = "delete" -> [items EXCEPT ![h.of] = "none"]
      [] h.op \in {"generate", "create"} -> [i \in Items |-> IF items[i] = "none" THEN "active" ELSE items[i]]
      [] OTHER -> items
IsolatedAfter(h, times) ==
    IF h.op # "isolate" \/ times # 1 THEN isolatedItems
    ELSE IF h.of \in isolatedItems THEN isolatedItems \ {h.of} ELSE isolatedItems \cup {h.of}
BundlesAfter(h) ==
    CASE h.op = "delete package" -> bundles \ {h.of}
      [] h.op = "create package" -> Bundles
      [] OTHER -> bundles

\* A success goes on to the lists, except for a synchronisation of a secret, and
\* closes its dialog; a failure ends the handler.
Answered(h, times, ok) ==
    /\ h \in handlers /\ h.phase = "request" /\ (ok => times > 0)
    /\ items' = (IF times > 0 THEN StatusAfter(h, times) ELSE items)
    /\ isolatedItems' = (IF times > 0 THEN IsolatedAfter(h, times) ELSE isolatedItems)
    /\ bundles' = (IF times > 0 THEN BundlesAfter(h) ELSE bundles)
    /\ IF ok /\ ~(accessPage = "secrets" /\ h.op = "sync")
       THEN /\ handlers' = (handlers \ {h}) \cup {[h EXCEPT !.phase = "lists"]}
            /\ accessLoading' = TRUE
            /\ askFor' = IF h.op \in {"delete", "delete package", "create"} THEN NoDialog ELSE askFor
       ELSE handlers' = handlers \ {h} /\ accessLoading' = FALSE /\ UNCHANGED askFor
    /\ UNCHANGED <<accessPage, shownRows, nas, genBundle, loadsBegun>>

-----------------------------------------------------------------------------
(* The page of vouchers *)

OnVouchers == accessPage = "vouchers"

\* The buttons of a row.  Mutant: the page relies on the list being replaced.
MayToggleVoucherAnyTime(v) == v \in DOMAIN itemRows.status
MayToggleVoucher(v) == v \in DOMAIN itemRows.status /\ ~accessLoading

ToggleStatus(v) ==
    /\ OnVouchers /\ askFor = NoDialog /\ MayToggleVoucher(v) /\ itemRows.status[v] \in Changeable
    /\ Begin("toggle", v) /\ UNCHANGED askFor

ToggleIsolate(v) ==
    /\ OnVouchers /\ askFor = NoDialog /\ MayToggleVoucher(v)
    /\ Begin("isolate", v) /\ UNCHANGED askFor

CreatePackage ==
    /\ OnVouchers /\ askFor = NoDialog /\ ~accessLoading /\ Begin("create package", "none") /\ UNCHANGED askFor

\* There is a router that is online to synchronise with.
SyncPackage(b) ==
    /\ OnVouchers /\ askFor = NoDialog /\ ~accessLoading /\ b \in bundleRows
    /\ Begin("sync", b) /\ UNCHANGED askFor

ChooseBundle(b) ==
    /\ OnVouchers /\ b \in bundleRows \cup {"none"} /\ genBundle' = b
    /\ UNCHANGED <<accessPage, accessLoading, atServer, shownRows, nas, askFor, handlers, loadsBegun>>

Generate ==
    /\ OnVouchers /\ askFor = NoDialog /\ ~accessLoading /\ genBundle # "none"
    /\ Begin("generate", genBundle) /\ UNCHANGED askFor

\* The dialogs can be opened while the page is loading.
AskFor(kind, of) ==
    /\ askFor = NoDialog
    /\ \/ kind \in {"delete", "edit"} /\ of \in DOMAIN itemRows.status /\ (kind = "edit" => OnVouchers)
       \/ kind = "delete package" /\ of \in bundleRows /\ ~accessLoading
       \/ kind = "create" /\ of = "none" /\ ~OnVouchers
    /\ askFor' = [kind |-> kind, of |-> of]
    /\ UNCHANGED <<accessPage, accessLoading, atServer, shownRows, nas, genBundle, handlers, loadsBegun>>

\* The dialog of a voucher only shows it; saving says that this is yet to come.
CloseDialog ==
    /\ askFor # NoDialog /\ askFor' = NoDialog
    /\ UNCHANGED <<accessPage, accessLoading, atServer, shownRows, nas, genBundle, handlers, loadsBegun>>

ConfirmDelete ==
    /\ askFor.kind \in {"delete", "delete package"} /\ ~accessLoading
    /\ Begin(askFor.kind, askFor.of) /\ UNCHANGED askFor

-----------------------------------------------------------------------------
(* The page of secrets *)

OnSecrets == accessPage = "secrets"

\* The effect of another router: a load of its own, whatever is under way.
SelectRouter(r) ==
    /\ OnSecrets /\ askFor = NoDialog /\ r # nas /\ nas' = r
    /\ Run("load", "none", "lists", r)
    /\ UNCHANGED <<accessPage, atServer, shownRows, genBundle, askFor>>

\* Neither button of a row is disabled.
ToggleSecret(s) ==
    /\ OnSecrets /\ askFor = NoDialog /\ s \in DOMAIN itemRows.status
    /\ Begin("toggle", s) /\ UNCHANGED askFor

SyncSecret(s) ==
    /\ OnSecrets /\ askFor = NoDialog /\ s \in DOMAIN itemRows.status
    /\ Begin("sync", s) /\ UNCHANGED askFor

CreateSecret ==
    /\ OnSecrets /\ askFor.kind = "create" /\ ~accessLoading
    /\ Begin("create", "none") /\ UNCHANGED askFor

-----------------------------------------------------------------------------
AccessNext ==
    \/ Load \/ CreatePackage \/ Generate \/ CloseDialog \/ ConfirmDelete \/ CreateSecret
    \/ \E h \in handlers, ok \in BOOLEAN : ListsArrive(h, ok)
    \/ \E h \in handlers, times \in 0..MaxDeliveries, ok \in BOOLEAN : Answered(h, times, ok)
    \/ \E i \in Items : ToggleStatus(i) \/ ToggleIsolate(i) \/ ToggleSecret(i) \/ SyncSecret(i)
    \/ \E b \in Bundles : SyncPackage(b)
    \/ \E b \in Bundles \cup {"none"} : ChooseBundle(b)
    \/ \E kind \in {"delete", "edit", "delete package", "create"}, of \in Items \cup Bundles \cup {"none"} :
         AskFor(kind, of)
    \/ \E r \in Nases \cup {"all"} : SelectRouter(r)

AccessSpec == AccessInit /\ [][AccessNext]_access

-----------------------------------------------------------------------------
(* Properties *)

\* The voucher page runs one handler at a time: a toggle begun during another
\* would undo it, although the reload of the first resets the flag on its way
\* (VouchersPage, disabled={loading}).
OneHandlerAtATime == OnVouchers => Cardinality(handlers) <= 1

\* A toggle ends in the status that the page announces, the other one than shown.
ToggleKeepsItsWord ==
    [][\A h \in handlers : h.op = "toggle" /\ h.phase = "request" /\ [h EXCEPT !.phase = "lists"] \in handlers'
          => items'[h.of] = Toggled(itemRows.status[h.of])]_access

\* The package to generate vouchers of is one that is listed.
ChosenBundleIsListed == genBundle \in bundleRows \cup {"none"}

\* Once nothing is running, the secrets listed are those of the router chosen.
SecretsAreTheRouters == OnSecrets /\ handlers = {} => itemRows.of = nas

\* One creation of a secret at a time.
OneCreationAtATime == Cardinality({h \in handlers : h.op = "create" /\ h.phase = "request"}) <= 1
=============================================================================
