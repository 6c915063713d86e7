---------------------------- MODULE MCWAGateway ----------------------------
(* One tenant: a request that connects and one that sends two messages. *)
EXTENDS WAGateway
MCMessages == [r \in Sends |-> 2]
=============================================================================
