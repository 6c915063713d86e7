-------------------------- MODULE MCRadiusAccounting --------------------------
(***************************************************************************)
(* Instances of RadiusAccounting: one or two sessions.                      *)
(***************************************************************************)
EXTENDS RadiusAccounting

CONSTANTS s1, s2

=============================================================================
