---------------------------- MODULE InvoiceAccount ----------------------------
(***************************************************************************)
(* What the billing tables promise about an invoice to whoever reads them, *)
(* with no requests and no program counters: money only comes in, an       *)
(* invoice is settled only when the money covers it, it never becomes       *)
(* payable again, and the displayed paid_amount is some amount that had    *)
(* been received.  InvoicePayments implements this specification.          *)
(***************************************************************************)
EXTENDS Integers

CONSTANTS
  Invoice,
  Total,    \* what an invoice asks for
  Amount    \* what a payment may bring

VARIABLES
  status,      \* "pending", "paid" or "cancelled"
  received,    \* the money received for an invoice
  displayed    \* the paid_amount that is shown

acct == <<status, received, displayed>>

Init ==
  /\ status = [i \in Invoice |-> "pending"]
  /\ received = [i \in Invoice |-> 0]
  /\ displayed = [i \in Invoice |-> 0]

\* Money arrives.  It may arrive after the invoice was closed: the payer's
\* check of the status and the insertion of the payment are not one step.
Receive(i, a) ==
  /\ received' = [received EXCEPT ![i] = @ + a]
  /\ UNCHANGED <<status, displayed>>

Settle(i) ==
  /\ received[i] >= Total[i]
  /\ status' = [status EXCEPT ![i] = "paid"]
  /\ UNCHANGED <<received, displayed>>

Cancel(i) ==
  /\ status' = [status EXCEPT ![i] = "cancelled"]
  /\ UNCHANGED <<received, displayed>>

\* The display is refreshed with an amount that may be out of date.
Display(i) ==
  /\ \E s \in 1..received[i] : displayed' = [displayed EXCEPT ![i] = s]
  /\ UNCHANGED <<status, received>>

Next ==
  \E i \in Invoice :
    \/ \E a \in Amount : Receive(i, a)
    \/ Settle(i)
    \/ Cancel(i)
    \/ Display(i)

Spec == Init /\ [][Next]_acct

=============================================================================
