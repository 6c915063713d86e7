------------------------- MODULE MCInvoiceGeneration -------------------------
(***************************************************************************)
(* An instance of InvoiceGeneration: the scheduler and a request by hand    *)
(* meet on the template client t, whose first two invoices they are, a      *)
(* second one by hand and a form on the ordinary client c.                 *)
(***************************************************************************)
EXTENDS InvoiceGeneration

CONSTANTS c, t, jan, feb, job, hand, hand2, form

MCKind == [r \in Request |-> CASE r = job -> "job" [] r = form -> "form" [] OTHER -> "hand"]

MCClientOf == [r \in Request |-> IF r \in {hand2, form} THEN c ELSE t]
MCPeriodIn == [r \in Request |-> feb]
MCCreation == [x \in Client |-> jan]

\* Both generators for the ordinary client.
MCOrdinary == [r \in Request |-> c]

=============================================================================
