---------------------------- MODULE ServiceSetup ----------------------------
(***************************************************************************)
(* The page where service packages, discounts and client groups are set up: *)
(* a list with a dialog for each of them.  A save has a flag of its own, a  *)
(* deletion has none, and both load all the lists again.                    *)
(***************************************************************************)
EXTENDS Naturals, FiniteSets

CONSTANTS
    MaxEntries,     \* bound: entries on the server
    MaxSetupRequests, \* bound: saves and deletions
    Percents        \* values of a discount

ASSUME SetupAssumption == MaxEntries \in Nat /\ MaxSetupRequests \in Nat /\ Percents \subseteq Nat

VARIABLES
    entries,        \* the server: number -> entry
    setupRows,      \* the entries listed
    setupLoading,   \* a spinner in the place of the lists
    setupDialog,    \* kind and number of what is edited, 0 for a new one; kind "none" when closed
    setupForm,      \* the entry in the dialog
    setupSaving,    \* kinds with a save in flight, as the page knows
    setupSaves,     \* saves that are running: kind, number, entry, and whether they reload
    setupDeletes,   \* deletions that are running: number, and whether they reload
    setupOpening,   \* the first reload is running
    setupRequests   \* saves and deletions so far (numbers them)

setup == <<entries, setupRows, setupLoading, setupDialog, setupForm, setupSaving,
           setupSaves, setupDeletes, setupOpening, setupRequests>>
inDialog == <<setupDialog, setupForm>>

Kinds == {"package", "discount", "group"}
Blank == [kind |-> "blank"]
NoSetup == [kind |-> "none", of |-> 0]
NewEntry(k) ==
    CASE k = "package" -> [kind |-> k, lite |-> FALSE]
      [] k = "discount" -> [kind |-> k, percent |-> TRUE, value |-> 0]
      [] k = "group" -> [kind |-> k]

SetupInit ==
    /\ entries = <<>> /\ setupRows = <<>> /\ setupLoading = TRUE /\ setupOpening = TRUE
    /\ setupDialog = NoSetup /\ setupForm = Blank /\ setupSaving = {} /\ setupSaves = {} /\ setupDeletes = {}
    /\ setupRequests = 0

SetupQuiet == ~setupOpening /\ setupSaves = {} /\ setupDeletes = {}

Request == setupRequests < MaxSetupRequests /\ setupRequests' = setupRequests + 1

-----------------------------------------------------------------------------
\* reload: all the lists or, when one of them fails, none.  The flag of a save is
\* reset when its reload has ended.
Reload(ok) ==
    /\ setupLoading' = FALSE /\ setupRows' = (IF ok THEN entries ELSE <<>>)
    /\ UNCHANGED <<entries, inDialog, setupRequests>>

FirstReload(ok) ==
    /\ setupOpening /\ setupOpening' = FALSE /\ Reload(ok)
    /\ UNCHANGED <<setupSaving, setupSaves, setupDeletes>>

ReloadAfterSave(s, ok) ==
    /\ s \in setupSaves /\ s.reloads /\ setupSaves' = setupSaves \ {s} /\ Reload(ok)
    /\ setupSaving' = setupSaving \ {s.kind}
    /\ UNCHANGED <<setupDeletes, setupOpening>>

ReloadAfterDelete(d, ok) ==
    /\ d \in setupDeletes /\ d.reloads /\ setupDeletes' = setupDeletes \ {d} /\ Reload(ok)
    /\ UNCHANGED <<setupSaving, setupSaves, setupOpening>>

OpenNew(k) ==
    /\ setupDialog = NoSetup /\ setupDialog' = [kind |-> k, of |-> 0] /\ setupForm' = NewEntry(k)
    /\ UNCHANGED <<entries, setupRows, setupLoading, setupOpening, setupSaving, setupSaves, setupDeletes, setupRequests>>

\* The buttons of a row, which a spinner replaces while the lists are loaded.
RowOffered(n) == setupDialog = NoSetup /\ ~setupLoading /\ n \in DOMAIN setupRows

OpenEdit(n) ==
    /\ RowOffered(n)
    /\ setupDialog' = [kind |-> setupRows[n].kind, of |-> n] /\ setupForm' = setupRows[n]
    /\ UNCHANGED <<entries, setupRows, setupLoading, setupOpening, setupSaving, setupSaves, setupDeletes, setupRequests>>

\* The category of a package decides which of its prices counts.
FillPackage(lite) ==
    /\ setupDialog.kind = "package" /\ setupForm' = [setupForm EXCEPT !.lite = lite]
    /\ UNCHANGED <<entries, setupRows, setupLoading, setupOpening, setupDialog, setupSaving, setupSaves, setupDeletes, setupRequests>>

\* A change of a discount's type leaves its value, rounded.
FillDiscount(percent, value) ==
    /\ setupDialog.kind = "discount"
    /\ setupForm' = [setupForm EXCEPT !.percent = percent, !.value = IF percent # setupForm.percent THEN @ ELSE value]
    /\ UNCHANGED <<entries, setupRows, setupLoading, setupOpening, setupDialog, setupSaving, setupSaves, setupDeletes, setupRequests>>

\* The cross and the key close the dialog also while it is saving.
CloseSetup ==
    /\ setupDialog # NoSetup /\ setupDialog' = NoSetup /\ setupForm' = Blank
    /\ UNCHANGED <<entries, setupRows, setupLoading, setupOpening, setupSaving, setupSaves, setupDeletes, setupRequests>>

-----------------------------------------------------------------------------
DiscountValid(e) == e.percent => e.value <= 100

\* Names, a package's profile and signs are given as the page asks for them.
SetupValid(e) == e.kind = "discount" => DiscountValid(e)

\* The button.
MaySave(k) == setupDialog.kind = k /\ k \notin setupSaving

SaveEntry(k) ==
    /\ MaySave(k) /\ SetupValid(setupForm) /\ Request
    /\ setupSaving' = setupSaving \cup {k}
    /\ setupSaves' = setupSaves \cup {[kind |-> k, of |-> setupDialog.of, entry |-> setupForm, reloads |-> FALSE,
                                       n |-> setupRequests]}
    /\ UNCHANGED <<entries, setupRows, setupLoading, setupOpening, inDialog, setupDeletes>>

Created(e) ==
    LET free == (1..MaxEntries) \ DOMAIN entries IN
    IF free = {} THEN entries
    ELSE LET n == CHOOSE x \in free : \A y \in free : x <= y IN
         [x \in DOMAIN entries \cup {n} |-> IF x = n THEN e ELSE entries[x]]
Stored(s) ==
    CASE s.of = 0 -> Created(s.entry)
      [] s.of # 0 /\ s.of \in DOMAIN entries -> [entries EXCEPT ![s.of] = s.entry]
      [] OTHER -> entries

\* A success closes the dialog of its kind, whatever is in it by then.
SaveAnswered(s, kept, ok) ==
    /\ s \in setupSaves /\ ~s.reloads /\ (ok => kept)
    /\ entries' = IF kept THEN Stored(s) ELSE entries
    /\ IF ok
       THEN /\ setupSaves' = (setupSaves \ {s}) \cup {[s EXCEPT !.reloads = TRUE]} /\ setupLoading' = TRUE
            /\ setupDialog' = IF setupDialog.kind = s.kind THEN NoSetup ELSE setupDialog
            /\ setupForm' = IF setupDialog.kind = s.kind THEN Blank ELSE setupForm
            /\ UNCHANGED setupSaving
       ELSE setupSaves' = setupSaves \ {s} /\ setupSaving' = setupSaving \ {s.kind} /\ UNCHANGED <<setupLoading, inDialog>>
    /\ UNCHANGED <<setupRows, setupDeletes, setupOpening, setupRequests>>

\* Nothing disables the button of a row while the deletion is under way.
DeleteEntry(n) ==
    /\ RowOffered(n) /\ Request
    /\ setupDeletes' = setupDeletes \cup {[of |-> n, reloads |-> FALSE, n |-> setupRequests]}
    /\ UNCHANGED <<entries, setupRows, setupLoading, setupOpening, inDialog, setupSaving, setupSaves>>

DeleteAnswered(d, kept, ok) ==
    /\ d \in setupDeletes /\ ~d.reloads /\ (ok => kept)
    /\ entries' = IF kept THEN [x \in DOMAIN entries \ {d.of} |-> entries[x]] ELSE entries
    /\ setupDeletes' = (setupDeletes \ {d}) \cup (IF ok THEN {[d EXCEPT !.reloads = TRUE]} ELSE {})
    /\ setupLoading' = (ok \/ setupLoading)
    /\ UNCHANGED <<setupRows, inDialog, setupSaving, setupSaves, setupOpening, setupRequests>>

-----------------------------------------------------------------------------
SetupNext ==
    \/ \E ok \in BOOLEAN : FirstReload(ok)
    \/ \E s \in setupSaves, ok \in BOOLEAN : ReloadAfterSave(s, ok)
    \/ \E d \in setupDeletes, ok \in BOOLEAN : ReloadAfterDelete(d, ok)
    \/ \E k \in Kinds : OpenNew(k) \/ SaveEntry(k)
    \/ \E n \in 1..MaxEntries : OpenEdit(n) \/ DeleteEntry(n)
    \/ \E lite \in BOOLEAN : FillPackage(lite)
    \/ \E percent \in BOOLEAN, value \in Percents : FillDiscount(percent, value)
    \/ \E s \in setupSaves, kept, ok \in BOOLEAN : SaveAnswered(s, kept, ok)
    \/ \E d \in setupDeletes, kept, ok \in BOOLEAN : DeleteAnswered(d, kept, ok)
    \/ CloseSetup

SetupSpec == SetupInit /\ [][SetupNext]_setup

-----------------------------------------------------------------------------
(* Properties *)

\* Each kind has one save under way, however its dialog is closed and opened
\* meanwhile: a second one would create the entry twice (packageSaving,
\* discountSaving, groupSaving).
OneSavePerKind == \A k \in Kinds : Cardinality({s \in setupSaves : s.kind = k /\ ~s.reloads}) <= 1

\* A save that ends closes no dialog but its own.
SaveClosesItsOwn ==
    [][\A s \in setupSaves \ setupSaves' : ~s.reloads /\ setupDialog.kind = s.kind /\ setupDialog' = NoSetup
          => setupDialog.of = s.of]_setup

\* With nothing in flight the lists are the server's.
SetupIsCurrent == SetupQuiet => setupRows = entries
=============================================================================
