-------------------------- MODULE MCInvoicePayments --------------------------
(***************************************************************************)
(* A small instance of InvoicePayments.  i1 takes two payments to cover,   *)
(* so that three fall short of, meet and exceed its total; the discount of  *)
(* i2 exceeds its subtotal (total_amount < 0), the boundary at which any   *)
(* payment covers the invoice.                                             *)
(***************************************************************************)
EXTENDS InvoicePayments, TLC

CONSTANTS i1, i2, r1, r2, r3

MCInvoice == {i1, i2}
MCTotal   == (i1 :> 2) @@ (i2 :> -1)
MCOne     == {i1}
MCOneTotal == i1 :> 2

\* Amounts that never exceed the invoice, so that only a race overpays it.
MCExactTotal == i1 :> 1

=============================================================================
