------------------------------- MODULE WADesk -------------------------------
(***************************************************************************)
(* Two tabs of the WhatsApp page: the one that sends a single message to a *)
(* client or a number, and the one that creates campaigns, follows the     *)
(* chosen one and retries its failed recipients.  Only the tab that is     *)
(* open exists, and opening it again starts it again.                      *)
(***************************************************************************)
EXTENDS Naturals, FiniteSets

CONSTANTS
    Contacts,       \* clients
    PhoneOf,        \* client -> the number, 0 when he has none
    MaxCampaigns,   \* bound: campaigns on the server
    MaxWAAsked      \* bound: what the user asks for

ASSUME WADeskAssumption ==
    /\ PhoneOf \in [Contacts -> Nat] /\ MaxCampaigns \in Nat /\ MaxWAAsked \in Nat /\ "none" \notin Contacts

VARIABLES
    waTab,          \* the tab that is open
    contact,        \* the client chosen, "none"
    sendTo,         \* the number in the field, 0 for none that is valid
    sendText,       \* the field has a text
    sendingNow,     \* the button's flag
    sends,          \* messages on their way: number, client, order
    campaignsOn,    \* the server: campaign -> its status
    campaignRows,   \* the campaigns listed, with their status then
    chosen,         \* the campaign chosen, 0 for none
    detailOf,       \* the campaign whose detail is held, 0 for none
    detailLoading, campaignsLoading, campaignCreating, campaignRetrying,   \* flags
    campaignCalls,  \* handlers: what, campaign, the requests left of it
    waAsked         \* what the user has asked for so far (numbers messages and handlers)

singleVars == <<contact, sendTo, sendText, sendingNow, sends>>
flagVars == <<detailLoading, campaignsLoading, campaignCreating, campaignRetrying>>
campaignVars == <<campaignsOn, campaignRows, chosen, detailOf, flagVars, campaignCalls>>
waDeskVars == <<waTab, singleVars, campaignVars, waAsked>>

WAAsks == waAsked < MaxWAAsked /\ waAsked' = waAsked + 1

-----------------------------------------------------------------------------
SingleInit == contact = "none" /\ sendTo = 0 /\ sendText = FALSE /\ sendingNow = FALSE /\ sends = {}

\* The number of a client who has one goes into the field; one who has none leaves it.
ChooseContact(c) ==
    /\ waTab = "single" /\ contact' = c
    /\ sendTo' = (IF c # "none" /\ PhoneOf[c] # 0 THEN PhoneOf[c] ELSE sendTo)
    /\ UNCHANGED <<waTab, sendText, sendingNow, sends, campaignVars, waAsked>>

EnterNumber(n) ==
    /\ waTab = "single" /\ sendTo' = n
    /\ UNCHANGED <<waTab, contact, sendText, sendingNow, sends, campaignVars, waAsked>>

\* Typed, or the content of a template.
EnterText(b) ==
    /\ waTab = "single" /\ sendText' = b
    /\ UNCHANGED <<waTab, contact, sendTo, sendingNow, sends, campaignVars, waAsked>>

CanSend == sendTo # 0 /\ sendText /\ ~sendingNow

SendSingle ==
    /\ waTab = "single" /\ CanSend /\ WAAsks /\ sendingNow' = TRUE
    /\ sends' = sends \cup {[to |-> sendTo, client |-> contact, n |-> waAsked]}
    /\ UNCHANGED <<waTab, contact, sendTo, sendText, campaignVars>>

SingleAnswered(s) ==
    /\ s \in sends /\ sends' = sends \ {s} /\ sendingNow' = FALSE
    /\ UNCHANGED <<waTab, contact, sendTo, sendText, campaignVars, waAsked>>

-----------------------------------------------------------------------------
Campaigns == 1..MaxCampaigns
Handler(op, k, steps) == [op |-> op, of |-> k, steps |-> steps, n |-> waAsked']

CampaignInit ==
    /\ campaignsOn \in [Campaigns -> {"none", "queued", "completed"}]
    /\ campaignRows = [k \in Campaigns |-> "none"] /\ chosen = 0 /\ detailOf = 0
    /\ detailLoading = FALSE /\ campaignsLoading = TRUE /\ campaignCreating = FALSE /\ campaignRetrying = FALSE
    /\ campaignCalls = {[op |-> "load", of |-> 0, steps |-> {"load"}, n |-> 0]}

\* The queue, and its worker, at work.
CampaignMoves(k) ==
    /\ waTab = "campaigns" /\ campaignsOn[k] \in {"queued", "running"}
    /\ campaignsOn' = [campaignsOn EXCEPT ![k] = IF @ = "queued" THEN "running" ELSE "completed"]
    /\ UNCHANGED <<waTab, singleVars, campaignRows, chosen, detailOf, flagVars, campaignCalls, waAsked>>

\* To choose a campaign is to load its detail.
Choosing(calls, k) ==
    /\ chosen' = k
    /\ IF k = chosen THEN campaignCalls' = calls /\ UNCHANGED detailLoading
       ELSE detailLoading' = TRUE /\ campaignCalls' = calls \cup {Handler("detail", k, {"detail"})}

Choose(k) ==
    /\ waTab = "campaigns" /\ campaignRows[k] # "none" /\ WAAsks /\ Choosing(campaignCalls, k)
    /\ UNCHANGED <<waTab, singleVars, campaignsOn, campaignRows, detailOf, campaignsLoading, campaignCreating, campaignRetrying>>

RefreshCampaigns ==
    /\ waTab = "campaigns" /\ ~campaignsLoading /\ WAAsks /\ campaignsLoading' = TRUE
    /\ campaignCalls' = campaignCalls \cup {Handler("load", chosen, {"load"})}
    /\ UNCHANGED <<waTab, singleVars, campaignsOn, campaignRows, chosen, detailOf, detailLoading, campaignCreating, campaignRetrying>>

RefreshDetail ==
    /\ waTab = "campaigns" /\ chosen # 0 /\ ~detailLoading /\ WAAsks /\ detailLoading' = TRUE
    /\ campaignCalls' = campaignCalls \cup {Handler("detail", chosen, {"detail"})}
    /\ UNCHANGED <<waTab, singleVars, campaignsOn, campaignRows, chosen, detailOf, campaignsLoading, campaignCreating, campaignRetrying>>

\* While the chosen campaign runs, its detail and the list are read again and again.
Poll ==
    /\ waTab = "campaigns" /\ chosen # 0 /\ campaignRows[chosen] \in {"queued", "running"} /\ WAAsks
    /\ detailLoading' = TRUE
    /\ campaignCalls' = campaignCalls \cup {Handler("detail", chosen, {"detail"}), Handler("list", 0, {"list"})}
    /\ UNCHANGED <<waTab, singleVars, campaignsOn, campaignRows, chosen, detailOf, campaignsLoading, campaignCreating, campaignRetrying>>

MayCreate == ~campaignsLoading /\ ~campaignCreating

CreateCampaign ==
    /\ waTab = "campaigns" /\ MayCreate /\ WAAsks /\ campaignCreating' = TRUE
    /\ campaignCalls' = campaignCalls \cup {Handler("create", 0, {"post"})}
    /\ UNCHANGED <<waTab, singleVars, campaignsOn, campaignRows, chosen, detailOf, detailLoading, campaignsLoading, campaignRetrying>>

\* The panel shows whatever detail is held, once a campaign is chosen and nothing loads.
DetailShown == IF chosen = 0 \/ detailLoading THEN 0 ELSE detailOf

RetryFailed ==
    /\ waTab = "campaigns" /\ chosen # 0 /\ ~campaignRetrying /\ WAAsks /\ campaignRetrying' = TRUE
    /\ campaignCalls' = campaignCalls \cup {Handler("retry", chosen, {"post"})}
    /\ UNCHANGED <<waTab, singleVars, campaignsOn, campaignRows, chosen, detailOf, detailLoading, campaignsLoading, campaignCreating>>

-----------------------------------------------------------------------------
\* Answers.  A step of a handler ends and the next one begins, or the handler is over.
NextStep(h, step) == (campaignCalls \ {h}) \cup {[h EXCEPT !.steps = {step}]}
FlagsAfter(h) ==
    /\ campaignCreating' = (campaignCreating /\ h.op # "create")
    /\ campaignRetrying' = (campaignRetrying /\ h.op # "retry")

Free == {k \in Campaigns : campaignsOn[k] = "none"}

CreateAnswered(h, kept, ok) ==
    /\ h.op = "create" /\ h.steps = {"post"} /\ (ok => kept)
    /\ IF kept THEN \E k \in Free : campaignsOn' = [campaignsOn EXCEPT ![k] = "queued"] ELSE UNCHANGED campaignsOn
    /\ IF ok
       THEN /\ campaignsLoading' = TRUE /\ UNCHANGED <<campaignCreating, campaignRetrying>>
            /\ \E k \in Free : campaignsOn'[k] # "none"
                 /\ campaignCalls' = (campaignCalls \ {h}) \cup {[h EXCEPT !.steps = {"load"}, !.of = k]}
       ELSE campaignCalls' = campaignCalls \ {h} /\ FlagsAfter(h) /\ UNCHANGED campaignsLoading
    /\ UNCHANGED <<campaignRows, chosen, detailOf, detailLoading>>

RetryAnswered(h, ok) ==
    /\ h.op = "retry" /\ h.steps = {"post"}
    /\ campaignsOn' = IF ok THEN [campaignsOn EXCEPT ![h.of] = "running"] ELSE campaignsOn
    /\ IF ok THEN detailLoading' = TRUE /\ campaignCalls' = NextStep(h, "detail") /\ UNCHANGED <<campaignCreating, campaignRetrying>>
       ELSE campaignCalls' = campaignCalls \ {h} /\ FlagsAfter(h) /\ UNCHANGED detailLoading
    /\ UNCHANGED <<campaignRows, chosen, detailOf, campaignsLoading>>

\* A load asked for when no campaign was chosen (h.of is 0) chooses the first; that of a creation is followed
\* by the choice of the new one.
FirstOf(rows) == IF \A k \in Campaigns : rows[k] = "none" THEN 0
                 ELSE CHOOSE k \in Campaigns : rows[k] # "none" /\ \A j \in 1..(k - 1) : rows[j] = "none"

LoadAnswered(h, ok) ==
    /\ h.steps = {"load"} /\ campaignsLoading' = FALSE
    /\ campaignRows' = (IF ok THEN campaignsOn ELSE campaignRows)
    /\ LET rest == IF h.op = "create" THEN NextStep(h, "detail") ELSE campaignCalls \ {h}
           k == IF h.op = "create" THEN h.of ELSE IF h.of = 0 /\ ok THEN FirstOf(campaignsOn) ELSE chosen
       IN Choosing(rest, k)
    /\ UNCHANGED <<campaignsOn, detailOf, campaignCreating, campaignRetrying>>

ListAnswered(h, ok) ==
    /\ h.steps = {"list"} /\ campaignCalls' = campaignCalls \ {h}
    /\ campaignRows' = (IF ok THEN campaignsOn ELSE campaignRows)
    /\ UNCHANGED <<campaignsOn, chosen, detailOf, flagVars>>

DetailAnswered(h, ok) ==
    /\ h.steps = {"detail"} /\ campaignCalls' = campaignCalls \ {h} /\ detailLoading' = FALSE
    /\ detailOf' = (IF ok THEN h.of ELSE 0) /\ FlagsAfter(h)
    /\ UNCHANGED <<campaignsOn, campaignRows, chosen, campaignsLoading>>

CampaignAnswered(h) ==
    /\ h \in campaignCalls /\ UNCHANGED <<waTab, singleVars, waAsked>>
    /\ \/ \E kept, ok \in BOOLEAN : CreateAnswered(h, kept, ok)
       \/ \E ok \in BOOLEAN : RetryAnswered(h, ok) \/ LoadAnswered(h, ok) \/ ListAnswered(h, ok) \/ DetailAnswered(h, ok)

-----------------------------------------------------------------------------
WADeskInit == waTab \in {"single", "campaigns"} /\ SingleInit /\ CampaignInit /\ waAsked = 0

WADeskNext ==
    \/ \E c \in Contacts \cup {"none"} : ChooseContact(c)
    \/ \E n \in {0, 1} : EnterNumber(n)
    \/ \E b \in BOOLEAN : EnterText(b)
    \/ \E s \in sends : SingleAnswered(s)
    \/ \E k \in Campaigns : CampaignMoves(k) \/ Choose(k)
    \/ \E h \in campaignCalls : CampaignAnswered(h)
    \/ SendSingle \/ RefreshCampaigns \/ RefreshDetail \/ Poll \/ CreateCampaign \/ RetryFailed

WADeskSpec == WADeskInit /\ [][WADeskNext]_waDeskVars

-----------------------------------------------------------------------------
\* One message at a time leaves the tab, whatever is changed in its fields meanwhile.
OneSendAtATime == Cardinality(sends) <= 1

\* One campaign is created at a time, though the load that follows a creation shares its
\* flag with every other load.
OneCampaignAtATime == Cardinality({h \in campaignCalls : h.op = "create"}) <= 1

\* Fails: a client without a number leaves the number of the one chosen before him, and
\* his name is logged with it.
MessageIsToItsClient ==
    \A s \in sends : s.client # "none" => PhoneOf[s.client] = s.to

\* Fails: the detail of the campaign chosen before arrives last.
DetailIsOfTheChosen == DetailShown \in {0, chosen}
=============================================================================
