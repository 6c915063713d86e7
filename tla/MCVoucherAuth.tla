----------------------------- MODULE MCVoucherAuth -----------------------------
(***************************************************************************)
(* Instances of VoucherAuth: two or three login requests and a toggle.      *)
(***************************************************************************)
EXTENDS VoucherAuth, TLC

CONSTANTS s1, s2, s3, t1, t2

\* Requests are alike.
MCSymmetry == Permutations(Session)

=============================================================================
