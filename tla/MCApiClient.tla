----------------------------- MODULE MCApiClient -----------------------------
EXTENDS ApiClient
MCCallOf == [r \in Requests |-> CASE r = "list" -> "get" [] r = "pay" -> "post" [] OTHER -> "dash"]
=============================================================================
