------------------------------ MODULE PlanForm ------------------------------
(***************************************************************************)
(* The form of a plan: its limits, some of which it does not show, and its *)
(* features, typed or chosen in a catalogue; what it sends, what the       *)
(* server makes of it, and what the comparison of the plans says then.     *)
(***************************************************************************)
EXTENDS Integers, FiniteSets

CONSTANTS
    PlanCodes,      \* the features of the catalogue, which are those the server takes
    ResellerCodes,  \* those that come with resellers: "rbac_client_reseller" and "*"
    MaxPlanEdits    \* bound: changes the user makes between two savings

ASSUME PlanFormAssumption == ResellerCodes \subseteq PlanCodes /\ "unknown" \notin PlanCodes /\ MaxPlanEdits \in Nat

\* A limit is a number, -1 for no limit; it may be absent.
Absent == -2
LimitValues == {Absent, -1, 0, 5}
\* "hidden" stands for the limits a plan has and the form does not know.
LimitKeys == {"clients", "client_maps", "rbac", "hidden"}
FormKeys == LimitKeys \ {"hidden"}
Plans == [limits : [LimitKeys -> LimitValues \ {0}], features : SUBSET PlanCodes]
NoPlan == [limits |-> [k \in LimitKeys |-> Absent], features |-> {}]

VARIABLES
    planEdited,     \* the form is of a plan, and not of a new one
    planKept,       \* the plan, as the server has it
    planLimits, planFeatures,       \* the fields
    catalogOpen, catalogFound, catalogChosen,   \* the catalogue: open, the features its search finds, those ticked
    planSent,       \* what is being saved, NoPlan for nothing
    planSaving,
    planEdits       \* changes made so far

catalogVars == <<catalogOpen, catalogFound, catalogChosen>>
planVars == <<planEdited, planKept, planLimits, planFeatures, catalogVars, planSent, planSaving, planEdits>>

HasReseller(features) == features \cap ResellerCodes # {}
OrZero(v) == IF v = Absent THEN 0 ELSE v

\* The fields of a plan: what it lacks is 0, but for the maps of clients, which are as many as the clients.
FieldsOf(plan) ==
    [k \in FormKeys |-> IF k = "client_maps" /\ plan.limits[k] = Absent THEN OrZero(plan.limits["clients"])
                        ELSE OrZero(plan.limits[k])]

PlanFormInit ==
    /\ planEdited \in BOOLEAN /\ planKept \in (IF planEdited THEN Plans ELSE {NoPlan})
    /\ planLimits = FieldsOf(planKept) /\ planFeatures = planKept.features
    /\ catalogOpen = FALSE /\ catalogFound = PlanCodes /\ catalogChosen = {}
    /\ planSent = NoPlan /\ planSaving = FALSE /\ planEdits = 0

\* The fields of a new plan stay open to changes while it is saved.
EditsPlan == planEdits < MaxPlanEdits /\ planEdits' = planEdits + 1 /\ (planSaving => ~planEdited) /\ ~catalogOpen

-----------------------------------------------------------------------------
\* A field that is cleared is absent.  That of the resellers is there with their feature only.
FieldOffered(k) == k = "rbac" => HasReseller(planFeatures)

SetLimit(k, v) ==
    /\ EditsPlan /\ FieldOffered(k) /\ planLimits' = [planLimits EXCEPT ![k] = v]
    /\ UNCHANGED <<planEdited, planKept, planFeatures, catalogVars, planSent, planSaving>>

TypeFeatures(codes) ==
    /\ EditsPlan /\ planFeatures' = codes
    /\ UNCHANGED <<planEdited, planKept, planLimits, catalogVars, planSent, planSaving>>

RemoveFeature(code) ==
    /\ EditsPlan /\ code \in planFeatures /\ planFeatures' = planFeatures \ {code}
    /\ UNCHANGED <<planEdited, planKept, planLimits, catalogVars, planSent, planSaving>>

OpenCatalog ==
    /\ EditsPlan /\ catalogOpen' = TRUE /\ catalogChosen' = planFeatures /\ catalogFound' = PlanCodes
    /\ UNCHANGED <<planEdited, planKept, planLimits, planFeatures, planSent, planSaving>>

SearchCatalog(found) ==
    /\ catalogOpen /\ catalogFound' = found
    /\ UNCHANGED <<planEdited, planKept, planLimits, planFeatures, catalogOpen, catalogChosen, planSent, planSaving, planEdits>>

\* One feature of those found, all of those found and no other, or none.
TickCatalog(chosen) ==
    /\ catalogOpen
    /\ \/ chosen \in {catalogFound, {}}
       \/ \E code \in catalogFound :
            chosen = IF code \in catalogChosen THEN catalogChosen \ {code} ELSE catalogChosen \cup {code}
    /\ catalogChosen' = chosen
    /\ UNCHANGED <<planEdited, planKept, planLimits, planFeatures, catalogOpen, catalogFound, planSent, planSaving, planEdits>>

\* What is ticked is added to the features there are; nothing is taken from them.
Merged == planFeatures \cup catalogChosen

CloseCatalog(apply) ==
    /\ catalogOpen /\ catalogOpen' = FALSE /\ planFeatures' = (IF apply THEN Merged ELSE planFeatures)
    /\ UNCHANGED <<planEdited, planKept, planLimits, catalogFound, catalogChosen, planSent, planSaving, planEdits>>

-----------------------------------------------------------------------------
\* The fields, but for that of the resellers when their feature is not there.
FromFields == [k \in LimitKeys |-> IF k \in FormKeys /\ FieldOffered(k) THEN planLimits[k] ELSE Absent]

\* Mutant: every limit of the plan that the fields lack is kept.
KeepsAny(k) == planEdited
\* Mutant: none is.
KeepsNone(k) == FALSE
\* What the plan has and the fields lack is kept, with the same exception.
Keeps(k) == planEdited /\ FieldOffered(k)

Body == [limits |-> [k \in LimitKeys |-> IF FromFields[k] = Absent /\ Keeps(k) THEN planKept.limits[k] ELSE FromFields[k]],
         features |-> planFeatures]

SubmitPlan ==
    /\ ~planSaving /\ ~catalogOpen /\ planSaving' = TRUE /\ planSent' = Body
    /\ UNCHANGED <<planEdited, planKept, planLimits, planFeatures, catalogVars, planEdits>>

\* The server takes what it is sent, if it knows the features.  The plan is then opened again.
PlanSaved ==
    /\ planSaving /\ planSent.features \subseteq PlanCodes
    /\ planSaving' = FALSE /\ planSent' = NoPlan /\ planEdits' = 0 /\ planEdited' = TRUE /\ planKept' = planSent
    /\ planLimits' = FieldsOf(planSent) /\ planFeatures' = planSent.features
    /\ catalogOpen' = FALSE /\ UNCHANGED <<catalogFound, catalogChosen>>

\* The form of a plan is gone while it is saved, and starts again from the plan; that of a new one stays.
PlanRefused ==
    /\ planSaving /\ planSaving' = FALSE /\ planSent' = NoPlan
    /\ IF planEdited THEN planLimits' = FieldsOf(planKept) /\ planFeatures' = planKept.features
       ELSE UNCHANGED <<planLimits, planFeatures>>
    /\ UNCHANGED <<planEdited, planKept, catalogVars, planEdits>>

PlanFormNext ==
    \/ \E k \in FormKeys, v \in LimitValues : SetLimit(k, v)
    \/ \E codes \in SUBSET (PlanCodes \cup {"unknown"}) : TypeFeatures(codes)
    \/ \E code \in PlanCodes \cup {"unknown"} : RemoveFeature(code)
    \/ \E codes \in SUBSET PlanCodes : SearchCatalog(codes) \/ TickCatalog(codes)
    \/ \E apply \in BOOLEAN : CloseCatalog(apply)
    \/ OpenCatalog \/ SubmitPlan \/ PlanSaved \/ PlanRefused

PlanFormSpec == PlanFormInit /\ [][PlanFormNext]_planVars

-----------------------------------------------------------------------------
\* What the comparison says of a limit, and the page of the plan, which hides that of resellers.
Compared(plan, k) ==
    IF k = "rbac" /\ ~HasReseller(plan.features) THEN Absent
    ELSE IF plan.limits[k] \in {Absent, -1} THEN -1 ELSE plan.limits[k]
ListedLimits(plan) ==
    {k \in LimitKeys : plan.limits[k] # Absent /\ (k = "rbac" => HasReseller(plan.features))}

\* What the server allows: a limit that is absent is 0.
Allowed(plan, k) == OrZero(plan.limits[k])

\* "If feature is not enabled, we intentionally don't include rbac_client_reseller in limits",
\* whatever the plan had, was given and was taken from in the form: a plan that is sent has no
\* limit its page would hide.
SentLimitsAreListed == planSaving => ListedLimits(planSent) = {k \in LimitKeys : planSent.limits[k] # Absent}

\* "Preserve any other limits from initial data that weren't in the form": what the plan has
\* and the form does not show goes through any number of changes and savings.
UnseenLimitsSurvive == [][planEdited => planKept'.limits["hidden"] = planKept.limits["hidden"]]_planVars

\* Fails: a field that is cleared is sent with the value the plan had.
ClearedIsCleared == planSaving => \A k \in FormKeys : planLimits[k] = Absent => planSent.limits[k] = Absent

\* Fails: a feature that was unticked in the catalogue stays.
UntickedIsDropped == [][catalogOpen /\ planFeatures' # planFeatures => planFeatures' = catalogChosen]_planVars

\* Fails: a limit that is absent is none to the comparison and 0 to the server.
ComparisonIsTrue == \A k \in {"clients", "client_maps"} : Compared(planKept, k) = -1 => Allowed(planKept, k) = -1
=============================================================================
