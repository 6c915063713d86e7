----------------------------- MODULE MCWACampaign -----------------------------
(***************************************************************************)
(* Instances of WACampaign: two recipients, one or two retries and worker  *)
(* processes.                                                              *)
(***************************************************************************)
EXTENDS WACampaign

CONSTANTS r1, r2, q1, q2, w1, w2, post

=============================================================================
