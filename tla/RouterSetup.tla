---------------------------- MODULE RouterSetup ----------------------------
(***************************************************************************)
(* Putting a router into service: the form in three steps (provision the   *)
(* VPN, apply the script, connect and save) on the page of a new router or *)
(* of one to edit, and the card of a router's page that installs and       *)
(* removes the firewall of isolated customers.                             *)
(***************************************************************************)
EXTENDS Naturals, FiniteSets

CONSTANTS
    MaxFleet,           \* bound: routers on the server
    MaxSetupEdits,      \* bound: changes of the connection's fields
    MaxSetupAsked,      \* bound: requests of the form
    MaxFirewallAsked,   \* bound: requests for the firewall
    HotspotIPs          \* addresses of a hotspot

ASSUME SetupFormAssumption ==
    MaxFleet \in Nat /\ MaxSetupEdits \in Nat /\ MaxSetupAsked \in Nat /\ MaxFirewallAsked \in Nat /\ 0 \notin HotspotIPs

VARIABLES
    fleet,          \* the server: number -> its status, its tunnel and what it was saved with
    setupOf,        \* the router the form edits, 0 for a new one, -1 when no form is shown
    openedAt,       \* the requests made when the form was opened
    setupStep,      \* the step of the form
    setupConfig,    \* the connection's fields: tunnel (0: empty) and credentials (0: empty)
    provisionedId,  \* the router provisioned from this form, or the one it edits, 0 for none
    isProvisioning, isVerifying,    \* the flags of the form's buttons
    isVerified,     \* the form takes the connection for tried
    isLoading,      \* the store's flag
    setupTried,     \* the fields a test has passed with, since the form was opened
    setupEdits,     \* changes so far
    setupCalls,     \* requests: what, the router edited, the fields, the router provisioned
    setupAsked,     \* requests so far (numbers them)
    firewall,       \* the router's firewall: the address it redirects to, 0 when there is none
    firewallShown,  \* the address the card shows, 0 for none
    firewallMode,   \* "wait" for the first status, "shown", "update"
    firewallIP,     \* the address entered
    installing, uninstalling,   \* the flags of the card
    firewallCalls,  \* requests: what, address, what has been answered
    firewallAsked   \* requests so far (numbers them)

formState == <<setupOf, openedAt, setupStep, setupConfig, provisionedId, isProvisioning, isVerifying, isVerified,
               isLoading, setupTried, setupEdits, setupCalls, setupAsked>>
cardState == <<firewall, firewallShown, firewallMode, firewallIP, installing, uninstalling, firewallCalls, firewallAsked>>
setupVars == <<fleet, formState, cardState>>

EmptyConfig == [tunnel |-> 0, cred |-> 0]

SetupFormInit ==
    /\ fleet = <<>> /\ setupOf = 0 - 1 /\ openedAt = 0 /\ setupStep = 1 /\ setupConfig = EmptyConfig /\ provisionedId = 0
    /\ isProvisioning = FALSE /\ isVerifying = FALSE /\ isVerified = FALSE /\ isLoading = FALSE
    /\ setupTried = {} /\ setupEdits = 0 /\ setupCalls = {} /\ setupAsked = 0

-----------------------------------------------------------------------------
\* The form.  A new router begins at the first step; one with an address at the last
\* one, its connection taken for tried.  The tunnel of a router is named by its number.
\* The server never shows the credentials.  Other pages lower the flag of the store; the
\* form of an edition appears when it is down.
OpenForm(n) ==
    /\ setupOf < 0 /\ (n = 0 \/ n \in DOMAIN fleet) /\ setupOf' = n /\ openedAt' = setupAsked
    /\ LET host == IF n = 0 THEN 0 ELSE fleet[n].config.tunnel
       IN /\ setupConfig' = [tunnel |-> host, cred |-> 0]
          /\ setupStep' = (IF host # 0 THEN 3 ELSE 1) /\ isVerified' = (host # 0)
    /\ provisionedId' = n /\ isProvisioning' = FALSE /\ isVerifying' = FALSE /\ setupTried' = {}
    /\ isLoading' \in {FALSE} \cup (IF n = 0 THEN {isLoading} ELSE {})
    /\ UNCHANGED <<fleet, setupEdits, setupCalls, setupAsked, cardState>>

OnForm == setupOf >= 0

\* Leaving drops the form; what is under way goes on without it.
LeaveForm ==
    /\ OnForm /\ setupOf' = 0 - 1
    /\ UNCHANGED <<fleet, openedAt, setupStep, setupConfig, provisionedId, isProvisioning, isVerifying, isVerified,
                   isLoading, setupTried, setupEdits, setupCalls, setupAsked, cardState>>
Mine(c) == OnForm /\ c.n > openedAt

Ask(op) ==
    /\ OnForm /\ setupAsked < MaxSetupAsked /\ setupAsked' = setupAsked + 1
    /\ setupCalls' = setupCalls \cup
         {[op |-> op, of |-> setupOf, config |-> setupConfig, vpn |-> provisionedId, n |-> setupAsked']}
    /\ UNCHANGED <<fleet, openedAt, setupStep, setupConfig, provisionedId, isVerified, setupTried, setupEdits, cardState>>

\* The first step: a name, and the button that provisions.
Provision ==
    /\ setupStep = 1 /\ ~isProvisioning /\ Ask("provision") /\ isProvisioning' = TRUE
    /\ UNCHANGED <<setupOf, isVerifying, isLoading>>

NewRouter == 1 + Cardinality(DOMAIN fleet)
WithRouter(n, status, config) ==
    [x \in DOMAIN fleet \cup {n} |-> IF x = n THEN [status |-> status, config |-> config] ELSE fleet[x]]

\* The server records the router before it answers.
Provisioned(c, kept, ok) ==
    /\ c.op = "provision" /\ setupCalls' = setupCalls \ {c} /\ (ok => kept) /\ (kept => NewRouter <= MaxFleet)
    /\ fleet' = IF kept THEN WithRouter(NewRouter, "provisioning", [tunnel |-> NewRouter, cred |-> 0]) ELSE fleet
    /\ IF ok /\ Mine(c)
       THEN /\ provisionedId' = NewRouter /\ setupStep' = 2
            /\ setupConfig' = [setupConfig EXCEPT !.tunnel = NewRouter]
       ELSE UNCHANGED <<provisionedId, setupStep, setupConfig>>
    /\ isProvisioning' = (isProvisioning /\ ~Mine(c))
    /\ UNCHANGED <<setupOf, openedAt, isVerifying, isVerified, isLoading, setupTried, setupEdits, setupAsked, cardState>>

Walks(from, to) ==
    /\ OnForm /\ setupStep = from /\ setupStep' = to
    /\ UNCHANGED <<fleet, setupOf, openedAt, setupConfig, provisionedId, isProvisioning, isVerifying, isVerified,
                   isLoading, setupTried, setupEdits, setupCalls, setupAsked, cardState>>

\* The second step shows the script, and leads back and on.
FromScript(step) == step \in {1, 3} /\ Walks(2, step)
BackToScript == Walks(3, 2)

\* The third step: the fields of the connection.  A change leaves the mark of the test.
EditConfig(c) ==
    /\ OnForm /\ setupStep = 3 /\ setupEdits < MaxSetupEdits /\ setupEdits' = setupEdits + 1
    /\ setupConfig' = c
    /\ UNCHANGED <<fleet, setupOf, openedAt, setupStep, provisionedId, isProvisioning, isVerifying, isVerified,
                   isLoading, setupTried, setupCalls, setupAsked, cardState>>

Verify ==
    /\ setupStep = 3 /\ ~isVerifying /\ Ask("verify") /\ isVerifying' = TRUE
    /\ UNCHANGED <<setupOf, isProvisioning, isLoading>>

Verified(c, ok) ==
    /\ c.op = "verify" /\ setupCalls' = setupCalls \ {c} /\ isVerifying' = (isVerifying /\ ~Mine(c))
    /\ IF ok /\ Mine(c)
       THEN isVerified' = TRUE /\ setupTried' = setupTried \cup {c.config}
       ELSE UNCHANGED <<isVerified, setupTried>>
    /\ UNCHANGED <<fleet, setupOf, openedAt, setupStep, setupConfig, provisionedId, isProvisioning, isLoading,
                   setupEdits, setupAsked, cardState>>

\* The fields that must not be empty.
ConfigComplete(c) == c.cred # 0

\* The form's own submit sends every field, and does not say which router was provisioned.
\* On the page of an edition a spinner takes the place of the form.
Save ==
    /\ ConfigComplete(setupConfig) /\ Ask("save") /\ isLoading' = TRUE
    /\ setupOf' = (IF setupOf = 0 THEN 0 ELSE 0 - 1) /\ UNCHANGED <<isProvisioning, isVerifying>>

\* The button at the end of the third step; and the first step, which has one input and no
\* button that submits: the enter key submits there, also twice.
Complete == setupStep = 3 /\ isVerified /\ ~isLoading /\ Save
CompleteByKey == setupStep = 1 /\ Save

\* A new router gets the tunnel of the account it names, when that is had; an empty field
\* leaves what a router has.
SavedConfigs(c) ==
    IF c.of = 0 THEN {[c.config EXCEPT !.tunnel = t] : t \in {c.config.tunnel, c.vpn}}
    ELSE {IF c.config.tunnel # 0 THEN c.config ELSE [c.config EXCEPT !.tunnel = fleet[c.of].config.tunnel]}

\* Done: from the page of a new router, if it is still there, a dialog leads to the list; an
\* update leads to the router's page from wherever the user is.  A failure leaves the
\* form of a new router as it is, and an error takes the place of any other.
RouterSaved(c, kept, ok) ==
    /\ c.op = "save" /\ setupCalls' = setupCalls \ {c} /\ isLoading' = FALSE
    /\ (ok => kept) /\ (kept /\ c.of = 0 => NewRouter <= MaxFleet)
    /\ \E config \in SavedConfigs(c) :
          fleet' = IF kept THEN WithRouter(IF c.of = 0 THEN NewRouter ELSE c.of, "offline", config) ELSE fleet
    /\ setupOf' = IF \/ ok /\ (c.of # 0 \/ Mine(c))
                     \/ ~ok /\ setupOf > 0
                  THEN 0 - 1 ELSE setupOf
    /\ UNCHANGED <<openedAt, setupStep, setupConfig, provisionedId, isProvisioning, isVerifying, isVerified, setupTried,
                   setupEdits, setupAsked, cardState>>

-----------------------------------------------------------------------------
\* The card of the firewall.  It waits for the first status; then it offers to install,
\* or to update and to remove.
CardInit ==
    /\ firewall \in {0} \cup HotspotIPs /\ firewallShown = 0 /\ firewallMode = "wait" /\ firewallIP = 0
    /\ installing = FALSE /\ uninstalling = FALSE
    /\ firewallCalls = {[op |-> "first", ip |-> 0, done |-> FALSE, n |-> 0]} /\ firewallAsked = 0

EnterIP(ip) ==
    /\ firewallShown = 0 \/ firewallMode = "update"
    /\ ~installing /\ ~uninstalling /\ firewallIP' = ip
    /\ UNCHANGED <<fleet, formState, firewall, firewallShown, firewallMode, installing, uninstalling, firewallCalls, firewallAsked>>

FirewallCall(op, ip) ==
    /\ firewallAsked < MaxFirewallAsked /\ firewallAsked' = firewallAsked + 1
    /\ firewallCalls' = firewallCalls \cup {[op |-> op, ip |-> ip, done |-> FALSE, n |-> firewallAsked']}

\* Both buttons that install wait for an installation that is running.
MayInstall == firewallMode # "wait" /\ ~installing

\* The router's own address is taken when none is entered.
Install(host) ==
    /\ firewallShown = 0 /\ MayInstall /\ installing' = TRUE
    /\ FirewallCall("install", IF firewallIP # 0 THEN firewallIP ELSE host)
    /\ UNCHANGED <<fleet, formState, firewall, firewallShown, firewallMode, firewallIP, uninstalling>>

Reinstall ==
    /\ firewallShown # 0 /\ firewallMode = "update" /\ MayInstall /\ firewallIP # 0 /\ installing' = TRUE
    /\ FirewallCall("reinstall", firewallIP)
    /\ UNCHANGED <<fleet, formState, firewall, firewallShown, firewallMode, firewallIP, uninstalling>>

UpdateMode ==
    /\ firewallShown # 0 /\ firewallMode = "shown" /\ firewallMode' = "update"
    /\ UNCHANGED <<fleet, formState, firewall, firewallShown, firewallIP, installing, uninstalling, firewallCalls, firewallAsked>>

CancelUpdate ==
    /\ firewallShown # 0 /\ firewallMode = "update" /\ ~installing /\ firewallMode' = "shown" /\ firewallIP' = 0
    /\ UNCHANGED <<fleet, formState, firewall, firewallShown, installing, uninstalling, firewallCalls, firewallAsked>>

Uninstall ==
    /\ firewallShown # 0 /\ firewallMode = "shown" /\ ~uninstalling /\ uninstalling' = TRUE
    /\ FirewallCall("uninstall", 0)
    /\ UNCHANGED <<fleet, formState, firewall, firewallShown, firewallMode, firewallIP, installing>>

\* The router does what is asked, or the call is lost before that.
RouterDoes(c) ==
    /\ c \in firewallCalls /\ ~c.done /\ c.op # "first"
    /\ firewall' = c.ip /\ firewallCalls' = (firewallCalls \ {c}) \cup {[c EXCEPT !.done = TRUE]}
    /\ UNCHANGED <<fleet, formState, firewallShown, firewallMode, firewallIP, installing, uninstalling, firewallAsked>>

\* An installation answers with the status it leaves; the others ask for the status.
FirstStatus(c, ok) ==
    /\ c.op = "first" /\ firewallMode' = "shown" /\ firewallShown' = (IF ok THEN firewall ELSE firewallShown)
    /\ UNCHANGED <<firewallIP, installing, uninstalling>>
Installed(c, ok) ==
    /\ c.op = "install" /\ (ok => c.done) /\ installing' = FALSE
    /\ firewallShown' = (IF ok THEN c.ip ELSE firewallShown) /\ firewallIP' = (IF ok THEN 0 ELSE firewallIP)
    /\ UNCHANGED <<firewallMode, uninstalling>>
Reinstalled(c, ok) ==
    /\ c.op = "reinstall" /\ (ok => c.done) /\ installing' = FALSE
    /\ firewallShown' = (IF ok THEN firewall ELSE firewallShown) /\ firewallIP' = (IF ok THEN 0 ELSE firewallIP)
    /\ firewallMode' = (IF ok THEN "shown" ELSE firewallMode)
    /\ UNCHANGED uninstalling
Uninstalled(c, ok) ==
    /\ c.op = "uninstall" /\ (ok => c.done) /\ uninstalling' = FALSE
    /\ firewallShown' = (IF ok THEN firewall ELSE firewallShown)
    /\ UNCHANGED <<firewallMode, firewallIP, installing>>

FirewallAnswered(c, ok) ==
    /\ c \in firewallCalls /\ firewallCalls' = firewallCalls \ {c}
    /\ FirstStatus(c, ok) \/ Installed(c, ok) \/ Reinstalled(c, ok) \/ Uninstalled(c, ok)
    /\ UNCHANGED <<fleet, formState, firewall, firewallAsked>>

-----------------------------------------------------------------------------
SetupPageInit == SetupFormInit /\ CardInit

FormSteps ==
    \/ \E n \in {0} \cup DOMAIN fleet : OpenForm(n)
    \/ \E c \in setupCalls, kept, ok \in BOOLEAN : Provisioned(c, kept, ok) \/ RouterSaved(c, kept, ok)
    \/ \E step \in {1, 3} : FromScript(step)
    \/ \E cred \in {1, 2} : EditConfig([setupConfig EXCEPT !.cred = cred])
    \/ \E t \in 0..MaxFleet : EditConfig([setupConfig EXCEPT !.tunnel = t])
    \/ \E c \in setupCalls, ok \in BOOLEAN : Verified(c, ok)
    \/ LeaveForm \/ Provision \/ BackToScript \/ Verify \/ Complete \/ CompleteByKey

CardSteps ==
    \/ \E ip \in HotspotIPs : EnterIP(ip) \/ Install(ip)
    \/ \E c \in firewallCalls, ok \in BOOLEAN : RouterDoes(c) \/ FirewallAnswered(c, ok)
    \/ Reinstall \/ UpdateMode \/ CancelUpdate \/ Uninstall

SetupFormSpec == SetupPageInit /\ [][FormSteps]_setupVars
SetupCardSpec == SetupPageInit /\ [][CardSteps]_setupVars

-----------------------------------------------------------------------------
\* No two installations run at once, through all the modes of the card: the answer of a
\* removal or of an update changes which button there is while another request runs.
OneInstallAtATime == Cardinality({c \in firewallCalls : c.op \in {"install", "reinstall"}}) <= 1

Saves == {c \in setupCalls : c.op = "save"}

\* RouterForm.tsx:306 "Connection Test Passed!  You can now complete the setup": fails, the
\* form of a router with an address says so before any test.
VerifiedMeansTried == OnForm /\ isVerified => setupTried # {}

\* Fails as well: what is saved need not be what was tried.  The fields can be changed, or
\* another router provisioned, after the test; and the enter key saves from the first step.
VerifiedIsWhatIsSaved == [][\A c \in Saves' \ Saves : c.config \in setupTried]_setupVars

\* RouterForm.tsx:93 "If we already have a provisioned ID, we should UPDATE the router
\* instead of creating it": the form's submit does not, so a router set up in one form
\* is two routers, one of them provisioning for ever.
OneRouterPerSetup == \A c \in Saves : c.of = 0 => c.vpn = 0

\* Fails: the first step's key is not held back while a save is under way.
OneRouterSaveAtATime == Cardinality({c \in Saves : Mine(c)}) <= 1

\* Fails: when the first status is not had, the card offers to install what is there; and a
\* removal and a reinstallation may run together, with the last status asked for not the
\* last one there is.
FirewallShownIsThere == firewallCalls = {} /\ firewallMode # "wait" => firewallShown = firewall
=============================================================================
