-------------------------- MODULE MCInvoiceScheduler --------------------------
(***************************************************************************)
(* Instances of InvoiceScheduler: the last days of every kind of month and  *)
(* the first of the next, between two Februaries, one of a leap year.       *)
(***************************************************************************)
EXTENDS InvoiceScheduler, TLC

CONSTANTS due1, due2, due3, due31

\* Due days at both ends of a month and in between.
MCDueDay == [c \in Client |-> CASE c = due1 -> 1 [] c = due2 -> 2 [] c = due3 -> 3 [] c = due31 -> 31]

MCCreated == [c \in Client |-> Day(2027, 12, 20)]

\* Turns to a shorter month (January, in a leap year, and March), to a longer
\* one (both Februaries) and of the year.
TurnFirsts == {Day(2028, 1, 30), Day(2028, 2, 28), Day(2028, 3, 30),
               Day(2028, 12, 30), Day(2029, 2, 27)}
TurnLasts  == {Day(2028, 2, 3), Day(2028, 3, 3), Day(2028, 4, 3),
               Day(2029, 1, 3), Day(2029, 3, 3)}

\* The turn to the February of a leap year alone.
JanuaryFirst == {Day(2028, 1, 30)}
FebruaryLast == {Day(2028, 2, 3)}

=============================================================================
