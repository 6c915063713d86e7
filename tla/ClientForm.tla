----------------------------- MODULE ClientForm -----------------------------
(***************************************************************************)
(* The form by which a client is created or edited: its category and the    *)
(* packages offered for it, the credentials a category needs, the lists it  *)
(* looks up one after the other, and the day of the month payments fall due. *)
(***************************************************************************)
EXTENDS Naturals, FiniteSets

CONSTANTS
    Categories,     \* categories, "lite" among them
    Packages,       \* packages on sale
    CategoryOf,     \* package -> category
    Tempos,         \* templates of due days
    DayOf,          \* template -> day
    Days,           \* days of the month
    MaxPackageAsked, \* bound: lists of packages waited for at one time
    MaxEdits,       \* bound: changes to one form
    MaxSubmissions  \* bound: submissions of one form

ASSUME ClientFormAssumption ==
    /\ "lite" \in Categories /\ CategoryOf \in [Packages -> Categories]
    /\ DayOf \in [Tempos -> Days] /\ Days \subseteq 1..31
    /\ {"none"} \cap (Packages \cup Tempos \cup Categories) = {}
    /\ MaxPackageAsked \in Nat /\ MaxEdits \in Nat /\ MaxSubmissions \in Nat

VARIABLES
    stored,         \* the server: the client edited, or what was created; "none" before
    category, package,
    packagesOf,     \* the category whose packages are listed
    packagesLoading,
    packagesFailed, \* the last list that mattered could not be loaded
    packageAsked,   \* lists waited for: category, and whether the effect is alive
    fields,         \* what is filled in
    lookedUp,       \* the request for the templates has ended
    tempos,         \* templates the form knows
    tempo,          \* how the due day is chosen: option, template, manual day
    edits,          \* changes so far
    sending,        \* the submission in flight
    submissions     \* submissions so far

clientForm == <<stored, category, package, packagesOf, packagesLoading, packagesFailed, packageAsked,
                fields, lookedUp, tempos, tempo, edits, sending, submissions>>
packageVars == <<category, package, packagesOf, packagesLoading, packagesFailed, packageAsked>>
filling == <<fields, lookedUp, tempos, tempo>>
submission == <<stored, sending, submissions>>

Options == {"default", "template", "manual"}
Fields == {"contact", "credentials", "devices"}
Nothing == [category |-> "none"]

\* What an edited client has: a default or manual due day, or a template's.
SomeClient(p, o, t, d) ==
    [category |-> CategoryOf[p], package |-> p, option |-> o, template |-> t, day |-> d]

\* The form begins with the client's values, the password excepted, and with
\* today as the manual day when there is no client.
ClientFormInit ==
    /\ stored \in {Nothing} \cup {SomeClient(p, "default", "none", d) : p \in Packages, d \in Days}
                            \cup {SomeClient(p, "template", t, DayOf[t]) : p \in Packages, t \in Tempos}
    /\ category = IF stored = Nothing THEN "regular" ELSE stored.category
    /\ package = IF stored = Nothing THEN "none" ELSE stored.package
    /\ packagesOf = "none" /\ packagesLoading = TRUE /\ packagesFailed = FALSE
    /\ packageAsked = {[of |-> category, alive |-> TRUE]}
    /\ fields = IF stored = Nothing THEN {} ELSE Fields
    /\ lookedUp = FALSE /\ tempos = {} /\ edits = 0
    /\ \E today \in Days :
         tempo = IF stored = Nothing THEN [option |-> "default", template |-> "none", manual |-> today]
                 ELSE [option |-> stored.option, template |-> stored.template, manual |-> stored.day]
    /\ sending = Nothing /\ submissions = 0

\* Nothing but the buttons is disabled while a submission is in flight.
Edit == edits < MaxEdits /\ edits' = edits + 1

-----------------------------------------------------------------------------
(* Packages *)

\* The effect of a category: the cleanup of the earlier one, and a request.
\* Mutant: answers of an earlier category are not told apart.
StillWanted(asked) == asked
Unwanted(asked) == {[r EXCEPT !.alive = FALSE] : r \in asked}

ChangeCategory(c) ==
    /\ Edit /\ c # category /\ Cardinality(packageAsked) < MaxPackageAsked
    /\ category' = c /\ packagesLoading' = TRUE
    /\ packageAsked' = Unwanted(packageAsked) \cup {[of |-> c, alive |-> TRUE]}
    /\ UNCHANGED <<submission, package, packagesOf, packagesFailed, filling>>

Sold(c) == {p \in Packages : CategoryOf[p] = c}

\* The package chosen is dropped when the list does not have it.
PackagesArrive(r, ok) ==
    /\ r \in packageAsked /\ packageAsked' = packageAsked \ {r}
    /\ IF r.alive
       THEN /\ packagesLoading' = FALSE /\ packagesFailed' = ~ok
            /\ packagesOf' = IF ok THEN r.of ELSE packagesOf
            /\ package' = IF ok /\ package \notin Sold(r.of) THEN "none" ELSE package
       ELSE UNCHANGED <<packagesLoading, packagesFailed, packagesOf, package>>
    /\ UNCHANGED <<submission, category, filling, edits>>

\* The options: packages listed that are of the category.
VisiblePackages == Sold(packagesOf) \cap Sold(category)

ChoosePackage(p) ==
    /\ Edit /\ ~packagesLoading /\ p \in VisiblePackages \cup {"none"} /\ package' = p
    /\ UNCHANGED <<submission, category, packagesOf, packagesLoading, packagesFailed, packageAsked, filling>>

-----------------------------------------------------------------------------
(* The rest of the form *)

\* The connection's fields are shown for the categories other than lite.
Shown(f) == CASE f = "devices" -> category = "lite"
              [] f = "credentials" -> category # "lite"
              [] OTHER -> TRUE

Fill(f) ==
    /\ Edit /\ Shown(f) /\ f \notin fields /\ fields' = fields \cup {f}
    /\ UNCHANGED <<submission, packageVars, lookedUp, tempos, tempo>>

\* Groups, discounts, templates, routers and vouchers are fetched one after the
\* other; those that fail stay empty, and only the templates are looked at again.
LookUp(ok) ==
    /\ ~lookedUp /\ lookedUp' = TRUE
    /\ tempos' = IF ok THEN Tempos ELSE {}
    /\ UNCHANGED <<submission, packageVars, fields, tempo, edits>>


\* Choosing the default again sets the manual day to today as well.
ChooseOption(o, today) ==
    /\ Edit /\ o # tempo.option
    /\ tempo' = [tempo EXCEPT !.option = o, !.manual = IF o = "default" THEN today ELSE @]
    /\ UNCHANGED <<submission, packageVars, fields, lookedUp, tempos>>

ChooseTempo(t) ==
    /\ Edit /\ tempo.option = "template" /\ t \in tempos \cup {"none"} /\ tempo' = [tempo EXCEPT !.template = t]
    /\ UNCHANGED <<submission, packageVars, fields, lookedUp, tempos>>

SetManualDay(d) ==
    /\ Edit /\ tempo.option = "manual" /\ tempo' = [tempo EXCEPT !.manual = d]
    /\ UNCHANGED <<submission, packageVars, fields, lookedUp, tempos>>

-----------------------------------------------------------------------------
(* Submission *)

SchemaAccepts == "contact" \in fields /\ package # "none"

CategoryAccepts ==
    IF category = "lite" THEN "devices" \in fields
    ELSE "credentials" \in fields

TempoAccepts == tempo.option = "template" => tempo.template \in tempos

DueDay(today) ==
    CASE tempo.option = "default" -> today
      [] tempo.option = "manual" -> tempo.manual
      [] tempo.option = "template" -> DayOf[tempo.template]

Payload(today) ==
    [category |-> category, package |-> package, option |-> tempo.option,
     template |-> IF tempo.option = "template" THEN tempo.template ELSE "none", day |-> DueDay(today)]

\* The buttons are disabled while a submission is in flight.
Submit(today) ==
    /\ sending = Nothing /\ submissions < MaxSubmissions
    /\ SchemaAccepts /\ CategoryAccepts /\ TempoAccepts
    /\ sending' = Payload(today) /\ submissions' = submissions + 1
    /\ UNCHANGED <<stored, packageVars, filling, edits>>

\* A success leaves the page; a failure, also one after the server has stored
\* the client, leaves the form as it is.
FormAnswered(kept, ok) ==
    /\ sending # Nothing /\ (ok => kept) /\ sending' = Nothing
    /\ stored' = IF kept THEN sending ELSE stored
    /\ submissions' = IF ok THEN MaxSubmissions ELSE submissions
    /\ UNCHANGED <<packageVars, filling, edits>>

-----------------------------------------------------------------------------
ClientFormNext ==
    \/ \E c \in Categories : ChangeCategory(c)
    \/ \E r \in packageAsked, ok \in BOOLEAN : PackagesArrive(r, ok)
    \/ \E p \in Packages \cup {"none"} : ChoosePackage(p)
    \/ \E f \in Fields : Fill(f)
    \/ \E ok \in BOOLEAN : LookUp(ok)
    \/ \E o \in Options, today \in Days : ChooseOption(o, today)
    \/ \E t \in Tempos \cup {"none"} : ChooseTempo(t)
    \/ \E d \in Days : SetManualDay(d)
    \/ \E today \in Days : Submit(today)
    \/ \E kept, ok \in BOOLEAN : FormAnswered(kept, ok)

ClientFormSpec == ClientFormInit /\ [][ClientFormNext]_clientForm

-----------------------------------------------------------------------------
(* Properties *)

\* Once the packages are loaded they are those of the category shown, and the
\* package chosen is one of them, whatever order the lists of two categories
\* arrived in (ClientForm, the alive flag of the packages' effect).
ChosenPackageIsOffered ==
    ~packagesLoading /\ ~packagesFailed =>
        packagesOf = category /\ package \in Sold(category) \cup {"none"}

\* The package submitted is of the category submitted.
PackageFitsCategory == sending # Nothing => sending.package \in Sold(sending.category)

\* An edit that leaves the option as it was leaves the due day as it was, unless
\* a manual day or a template was chosen.
EditKeepsDueDay ==
    [][sending' # sending /\ sending' # Nothing /\ stored # Nothing /\ stored.option = "default"
          /\ sending'.option = "default" => sending'.day = stored.day]_clientForm
=============================================================================
