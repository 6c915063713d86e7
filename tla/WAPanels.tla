------------------------------ MODULE WAPanels ------------------------------
(***************************************************************************)
(* The other tabs of the WhatsApp page, of which one exists at a time: the *)
(* linked device, whose status is polled until it is connected; the log of *)
(* messages, read page by page under its filters; and the templates.       *)
(***************************************************************************)
EXTENDS Naturals, Sequences, FiniteSets

CONSTANTS
    LogPages,       \* pages the log has under any filter
    LogQueries,     \* bound: filters the user sets one after the other
    MaxPanelAsked   \* bound: requests begun

ASSUME WAPanelsAssumption == LogPages \in Nat \ {0} /\ LogQueries \in Nat \ {0} /\ MaxPanelAsked \in Nat

VARIABLES
    panel,          \* the tab that is open
    linkStatus, qrShown, rateLimited, linking,  \* device tab: status and code shown, 429 not yet over, button flag
    gateway,        \* the status the gateway has
    logQuery, logTimer,     \* log tab: the filters, the 300 ms timer
    logRows, logNext,       \* the pages held, each with its filters; the page to ask for next, 0 for none
    logLoading, logMore,    \* flags
    drafted,        \* templates tab: what the fields hold
    editingId,      \* the template edited, 0 for a new one
    listedTpl, keptTpl,     \* the templates listed and those the server has
    tplLoading,     \* flag of every button
    panelCalls,     \* requests: what, its argument, the answer once served, order
    panelAsked      \* requests begun so far (numbers them)

deviceVars == <<linkStatus, qrShown, rateLimited, linking, gateway>>
logVars == <<logQuery, logTimer, logRows, logNext, logLoading, logMore>>
templateVars == <<drafted, editingId, listedTpl, keptTpl, tplLoading>>
panelVars == <<panel, deviceVars, logVars, templateVars, panelCalls, panelAsked>>

Asking(op, arg) == [op |-> op, arg |-> arg, answer |-> "none", n |-> panelAsked]
Begins(op, arg) ==
    /\ panelAsked < MaxPanelAsked /\ panelAsked' = panelAsked + 1
    /\ panelCalls' = panelCalls \cup {Asking(op, arg)}
\* The request of a handler is answered and its next one is sent.
Continues(c, op, arg) == panelCalls' = (panelCalls \ {c}) \cup {[c EXCEPT !.op = op, !.arg = arg, !.answer = "none"]}
Over(c) == panelCalls' = panelCalls \ {c}

-----------------------------------------------------------------------------
(* The device. *)
Links == {"connected", "needs_qr", "disconnected"}
DeviceInit == linkStatus = "disconnected" /\ qrShown = FALSE /\ rateLimited = FALSE /\ linking = FALSE /\ gateway \in Links

\* The card shows a code that is held, whatever the status beside it.
QrVisible == qrShown

GatewayMoves(g) ==
    /\ panel = "device" /\ g # gateway /\ gateway' = g
    /\ UNCHANGED <<panel, linkStatus, qrShown, rateLimited, linking, logVars, templateVars, panelCalls, panelAsked>>

\* By its button or by the interval that runs until the device is connected.
RefreshDevice(byHand) ==
    /\ panel = "device" /\ ~rateLimited /\ (IF byHand THEN ~linking ELSE linkStatus # "connected")
    /\ Begins("status", 0) /\ UNCHANGED <<panel, deviceVars, logVars, templateVars>>

MayConnect == ~rateLimited /\ ~linking

ConnectDevice ==
    /\ panel = "device" /\ MayConnect /\ Begins("connect", 0) /\ linking' = TRUE
    /\ UNCHANGED <<panel, linkStatus, qrShown, rateLimited, gateway, logVars, templateVars>>

RateLimitEnds ==
    /\ panel = "device" /\ rateLimited /\ rateLimited' = FALSE
    /\ UNCHANGED <<panel, linkStatus, qrShown, linking, gateway, logVars, templateVars, panelCalls, panelAsked>>

\* The gateway answers with what it is now; the limiter or a fault may answer instead.
ServeDevice(c) ==
    /\ c \in panelCalls /\ panel = "device" /\ c.answer = "none"
    /\ \E a \in {gateway, "limited", "failed"} : panelCalls' = (panelCalls \ {c}) \cup {[c EXCEPT !.answer = a]}
    /\ UNCHANGED <<panel, deviceVars, logVars, templateVars, panelAsked>>

StatusArrives(c) ==
    /\ c.op = "status" /\ c.answer \in Links /\ linkStatus' = c.answer /\ UNCHANGED <<rateLimited, linking>>
    /\ IF c.answer = "needs_qr" THEN Continues(c, "qr", 0) /\ UNCHANGED qrShown ELSE Over(c) /\ qrShown' = FALSE

QrArrives(c) ==
    /\ c.op = "qr" /\ c.answer \in Links /\ qrShown' = (c.answer = "needs_qr") /\ Over(c)
    /\ UNCHANGED <<linkStatus, rateLimited, linking>>

ConnectArrives(c) ==
    /\ c.op = "connect" /\ Over(c) /\ linking' = FALSE /\ UNCHANGED rateLimited
    /\ IF c.answer \in Links THEN linkStatus' = c.answer /\ qrShown' = (c.answer = "needs_qr")
       ELSE UNCHANGED <<linkStatus, qrShown>>

\* A 429 stops the refreshes for a while; connect only says that it failed.
RefreshFails(c) ==
    /\ c.op # "connect" /\ c.answer \in {"limited", "failed"} /\ Over(c)
    /\ rateLimited' = (rateLimited \/ c.answer = "limited") /\ UNCHANGED <<linkStatus, qrShown, linking>>

DeviceArrives(c) ==
    /\ c \in panelCalls /\ c.answer # "none" /\ UNCHANGED <<panel, gateway, logVars, templateVars, panelAsked>>
    /\ StatusArrives(c) \/ QrArrives(c) \/ ConnectArrives(c) \/ RefreshFails(c)

DeviceNext ==
    \/ \E g \in Links : GatewayMoves(g)
    \/ \E b \in BOOLEAN : RefreshDevice(b)
    \/ \E c \in panelCalls : ServeDevice(c) \/ DeviceArrives(c)
    \/ ConnectDevice \/ RateLimitEnds

-----------------------------------------------------------------------------
(* The log.  At the start the first load is under way and the timer runs. *)
LogInit == logQuery = 1 /\ logTimer = TRUE /\ logRows = <<>> /\ logNext = 0 /\ logLoading = TRUE /\ logMore = FALSE

\* The text of the search is always open, the two lists of values are not while it loads.
SetFilter(bySearch) ==
    /\ panel = "logs" /\ (bySearch \/ ~logLoading) /\ logQuery < LogQueries
    /\ logQuery' = logQuery + 1 /\ logTimer' = TRUE
    /\ UNCHANGED <<panel, deviceVars, logRows, logNext, logLoading, logMore, templateVars, panelCalls, panelAsked>>

LoadLog(byHand) ==
    /\ panel = "logs" /\ (IF byHand THEN ~logLoading ELSE logTimer) /\ Begins("log", <<logQuery, 1>>)
    /\ logLoading' = TRUE /\ logTimer' = (logTimer /\ byHand)
    /\ UNCHANGED <<panel, deviceVars, logQuery, logRows, logNext, logMore, templateVars>>

MayLoadMore == logNext # 0 /\ ~logMore

LoadMore ==
    /\ panel = "logs" /\ MayLoadMore /\ Begins("more", <<logQuery, logNext>>) /\ logMore' = TRUE
    /\ UNCHANGED <<panel, deviceVars, logQuery, logTimer, logRows, logNext, logLoading, templateVars>>

PageAfter(page) == IF page[2] < LogPages THEN page[2] + 1 ELSE 0

LogArrives(c, ok) ==
    /\ c \in panelCalls /\ panel = "logs" /\ Over(c)
    /\ logLoading' = (logLoading /\ c.op = "more") /\ logMore' = (logMore /\ c.op = "log")
    /\ IF ok THEN logRows' = (IF c.op = "log" THEN <<c.arg>> ELSE Append(logRows, c.arg)) /\ logNext' = PageAfter(c.arg)
       ELSE UNCHANGED <<logRows, logNext>>
    /\ UNCHANGED <<panel, deviceVars, logQuery, logTimer, templateVars, panelAsked>>

LogNext ==
    \/ \E b \in BOOLEAN : SetFilter(b) \/ LoadLog(b)
    \/ LoadMore
    \/ \E c \in panelCalls, ok \in BOOLEAN : LogArrives(c, ok)

-----------------------------------------------------------------------------
(* The templates, at most two of them; the fields are empty, as stored, or typed. *)
Templates == {1, 2}
TemplatesInit == drafted = "empty" /\ editingId = 0 /\ listedTpl = {} /\ keptTpl \in SUBSET Templates /\ tplLoading = TRUE

TypeTemplate ==
    /\ panel = "templates" /\ drafted' = "typed"
    /\ UNCHANGED <<panel, deviceVars, logVars, editingId, listedTpl, keptTpl, tplLoading, panelCalls, panelAsked>>

\* To choose a template is to fill the fields with it.
EditTemplate(t) ==
    /\ panel = "templates" /\ ~tplLoading /\ t \in listedTpl /\ t # editingId /\ editingId' = t /\ drafted' = "stored"
    /\ UNCHANGED <<panel, deviceVars, logVars, listedTpl, keptTpl, tplLoading, panelCalls, panelAsked>>

ResetTemplate ==
    /\ panel = "templates" /\ ~tplLoading /\ editingId' = 0 /\ drafted' = "empty"
    /\ UNCHANGED <<panel, deviceVars, logVars, listedTpl, keptTpl, tplLoading, panelCalls, panelAsked>>

MaySaveTemplate == drafted # "empty" /\ ~tplLoading

SaveTemplate ==
    /\ panel = "templates" /\ MaySaveTemplate /\ Begins("save", editingId) /\ tplLoading' = TRUE
    /\ UNCHANGED <<panel, deviceVars, logVars, drafted, editingId, listedTpl, keptTpl>>

DeleteTemplate(t) ==
    /\ panel = "templates" /\ ~tplLoading /\ t \in listedTpl /\ Begins("delete", t) /\ tplLoading' = TRUE
    /\ UNCHANGED <<panel, deviceVars, logVars, drafted, editingId, listedTpl, keptTpl>>

ReloadTemplates ==
    /\ panel = "templates" /\ ~tplLoading /\ Begins("list", 0) /\ tplLoading' = TRUE
    /\ UNCHANGED <<panel, deviceVars, logVars, drafted, editingId, listedTpl, keptTpl>>

\* An update needs the template to be there; a list is asked for after every success.
TemplateSaved(c) ==
    /\ c.op = "save" /\ (c.arg = 0 \/ c.arg \in keptTpl) /\ drafted' = "empty" /\ editingId' = 0
    /\ keptTpl' \in (IF c.arg = 0 THEN {keptTpl \cup {t} : t \in Templates \ keptTpl} ELSE {keptTpl})
    /\ Continues(c, "list", 0) /\ UNCHANGED <<listedTpl, tplLoading>>

\* Only the deletion of the template that was being edited at the click clears the fields.
TemplateDeleted(c) ==
    /\ c.op = "delete" /\ c.arg \in keptTpl /\ keptTpl' = keptTpl \ {c.arg}
    /\ IF editingId = c.arg THEN drafted' = "empty" /\ editingId' = 0 ELSE UNCHANGED <<drafted, editingId>>
    /\ Continues(c, "list", 0) /\ UNCHANGED <<listedTpl, tplLoading>>

\* The rows are new objects: the template that is edited fills the fields again.
TemplatesListed(c) ==
    /\ c.op = "list" /\ listedTpl' = keptTpl /\ Over(c) /\ tplLoading' = FALSE
    /\ drafted' = (IF editingId \in keptTpl THEN "stored" ELSE drafted) /\ UNCHANGED <<editingId, keptTpl>>

TemplateFails(c) == Over(c) /\ tplLoading' = FALSE /\ UNCHANGED <<drafted, editingId, listedTpl, keptTpl>>

TemplateArrives(c) ==
    /\ c \in panelCalls /\ panel = "templates" /\ UNCHANGED <<panel, deviceVars, logVars, panelAsked>>
    /\ TemplateSaved(c) \/ TemplateDeleted(c) \/ TemplatesListed(c) \/ TemplateFails(c)

TemplatesNext ==
    \/ \E t \in Templates : EditTemplate(t) \/ DeleteTemplate(t)
    \/ \E c \in panelCalls : TemplateArrives(c)
    \/ TypeTemplate \/ ResetTemplate \/ SaveTemplate \/ ReloadTemplates

-----------------------------------------------------------------------------
FirstCall == [op |-> "status", arg |-> 0, answer |-> "none", n |-> 0]
WAPanelsInit ==
    /\ panel \in {"device", "logs", "templates"} /\ DeviceInit /\ LogInit /\ TemplatesInit /\ panelAsked = 1
    /\ panelCalls = {CASE panel = "device" -> FirstCall
                       [] panel = "logs" -> [FirstCall EXCEPT !.op = "log", !.arg = <<1, 1>>]
                       [] OTHER -> [FirstCall EXCEPT !.op = "list"]}
    \* What a tab that is not open holds does not matter.
    /\ (panel # "device" => gateway = "disconnected") /\ (panel # "templates" => keptTpl = {})

WAPanelsNext == DeviceNext \/ LogNext \/ TemplatesNext
WAPanelsSpec == WAPanelsInit /\ [][WAPanelsNext]_panelVars

-----------------------------------------------------------------------------
\* One connection is asked for at a time, though polls and refreshes go on meanwhile.
OneConnectAtATime == Cardinality({c \in panelCalls : c.op = "connect"}) <= 1

\* No page of the log is held twice, however loads under other filters come in between.
NoPageTwice == \A i, j \in 1..Len(logRows) : logRows[i] = logRows[j] => i = j

\* One save, deletion or reload of templates at a time, over the load that follows each.
OneTemplateOpAtATime == panel = "templates" => Cardinality(panelCalls) <= 1

\* Fails: the code a slow refresh asked for arrives after another found the device connected.
QrOnlyWhenNeeded == QrVisible => linkStatus = "needs_qr"

\* Fails: "load more" of filters changed since, or of a page a reload has taken away.
RowsAreOneQuery == \A i \in 1..Len(logRows) : logRows[i][1] = logRows[1][1] /\ logRows[i][2] = i

\* Fails: a reload fills the fields of the template that is edited again.
TypedTextStays == [][drafted = "typed" /\ drafted' = "stored" => editingId' # editingId]_panelVars
=============================================================================
