--------------------------- MODULE RadiusAccounting ---------------------------
(***************************************************************************)
(* RADIUS accounting: RadiusHandler.Acct over the table "radius_sessions",  *)
(* fed by the access servers (NAS) through FreeRADIUS.                      *)
(*                                                                         *)
(* A NAS reports the start, the traffic so far and the end of a session.   *)
(* A report that is not answered in time is sent again, one the server     *)
(* never answers is given up, and every report is handled by a goroutine   *)
(* of its own: reports are duplicated, lost and handled in any order.       *)
(* A session's reports differ from one another in type or octets, so that   *)
(* those under way are a set.                                              *)
(***************************************************************************)
EXTENDS Integers

CONSTANTS
  Session,        \* acct_session_id values
  MaxInterim,     \* bound on the Interim-Updates of a session
  MaxDuplicates,  \* bound on the reports handled twice
  MaxLosses       \* bound on the reports that are lost

ASSUME BoundAssumption ==
  MaxInterim \in Nat /\ MaxDuplicates \in Nat /\ MaxLosses \in Nat

VARIABLES
  nas,         \* what the session really is: "off", "on" or "ended"
  octets,      \* what the NAS has counted for it
  net,         \* its reports under way
  row,         \* its row of "radius_sessions"
  duplicates,
  losses,
  overtaken    \* history: the sessions whose Stop was handled before an older report

acctVars == <<nas, octets, net, row, duplicates, losses, overtaken>>

Report == [type : {"Start", "Interim-Update", "Stop"}, octets : Nat]

NoRow == [status |-> "none", started |-> FALSE, octets |-> 0]
Row   == [status : {"active", "stopped"}, started : BOOLEAN, octets : Nat] \union {NoRow}

AcctInit ==
  /\ nas = [s \in Session |-> "off"]
  /\ octets = [s \in Session |-> 0]
  /\ net = [s \in Session |-> {}]
  /\ row = [s \in Session |-> NoRow]
  /\ duplicates = 0
  /\ losses = 0
  /\ overtaken = {}

-----------------------------------------------------------------------------
(***************************************************************************)
(* The NAS.                                                                *)
(***************************************************************************)

Send(s, type, n) == net' = [net EXCEPT ![s] = @ \union {[type |-> type, octets |-> n]}]

Login(s) ==
  /\ nas[s] = "off"
  /\ nas' = [nas EXCEPT ![s] = "on"]
  /\ Send(s, "Start", 0)
  /\ UNCHANGED <<octets, row, duplicates, losses, overtaken>>

Traffic(s) ==
  /\ nas[s] = "on"
  /\ octets[s] < MaxInterim
  /\ octets' = [octets EXCEPT ![s] = @ + 1]
  /\ Send(s, "Interim-Update", octets[s] + 1)
  /\ UNCHANGED <<nas, row, duplicates, losses, overtaken>>

Logout(s) ==
  /\ nas[s] = "on"
  /\ nas' = [nas EXCEPT ![s] = "ended"]
  /\ Send(s, "Stop", octets[s])
  /\ UNCHANGED <<octets, row, duplicates, losses, overtaken>>

-----------------------------------------------------------------------------
(***************************************************************************)
(* The server.                                                             *)
(***************************************************************************)

\* Mutant of the statement that follows: a Stop leaves the status.
UpsertActive(old, m) ==
  [ status  |-> "active",
    started |-> IF old = NoRow THEN m.type = "Start" ELSE old.started,
    octets  |-> m.octets ]

\* Mutant of the statement that follows: a Stop changes the status alone.
UpsertStatus(old, m) ==
  [ status  |-> IF m.type = "Stop" THEN "stopped" ELSE "active",
    started |-> IF old = NoRow THEN m.type = "Start" ELSE old.started,
    octets  |-> IF m.type = "Stop" THEN old.octets ELSE m.octets ]

\* UpsertSession: what is written over an existing row.  The start time is not.
Upsert(old, m) ==
  [ status  |-> IF m.type = "Stop" THEN "stopped" ELSE "active",
    started |-> IF old = NoRow THEN m.type = "Start" ELSE old.started,
    octets  |-> m.octets ]

\* A report that is handled is answered, or the answer is late and it is sent again.
Answered(s, m) ==
  /\ \/ net' = [net EXCEPT ![s] = @ \ {m}] /\ UNCHANGED duplicates
     \/ /\ duplicates < MaxDuplicates
        /\ duplicates' = duplicates + 1
        /\ UNCHANGED net
  /\ overtaken' = IF m.type = "Stop" /\ net[s] # {m} THEN overtaken \union {s} ELSE overtaken

\* Mutant of the handler: it adds up the traffic it is told.
AcctAdds(s, m) ==
  /\ m \in net[s]
  /\ row' = [row EXCEPT ![s] = [Upsert(@, m) EXCEPT !.octets = @ + row[s].octets]]
  /\ Answered(s, m)
  /\ UNCHANGED <<nas, octets, losses>>

\* Acct, for any report under way: nothing keeps them in the order they were sent in.
Acct(s, m) ==
  /\ m \in net[s]
  /\ row' = [row EXCEPT ![s] = Upsert(@, m)]
  /\ Answered(s, m)
  /\ UNCHANGED <<nas, octets, losses>>

Lose(s) ==
  /\ losses < MaxLosses
  /\ losses' = losses + 1
  /\ \E m \in net[s] : net' = [net EXCEPT ![s] = @ \ {m}]
  /\ UNCHANGED <<nas, octets, row, duplicates, overtaken>>

\* A NAS has nothing more to report and everything is handled.
AcctOver ==
  /\ \A s \in Session : nas[s] = "ended" /\ net[s] = {}
  /\ UNCHANGED acctVars

AcctNext ==
  \/ \E s \in Session : Login(s) \/ Traffic(s) \/ Logout(s) \/ Lose(s)
  \/ \E s \in Session : \E m \in net[s] : Acct(s, m)
  \/ AcctOver

AcctSpec == AcctInit /\ [][AcctNext]_acctVars

\* FreeRADIUS passes on a report it has, and the server handles it.
AcctFairSpec ==
  AcctSpec /\ \A s \in Session : WF_acctVars(\E m \in net[s] : Acct(s, m))

-----------------------------------------------------------------------------
(***************************************************************************)
(* Properties.                                                             *)
(***************************************************************************)

AcctTypeOK ==
  /\ nas \in [Session -> {"off", "on", "ended"}]
  /\ octets \in [Session -> 0..MaxInterim]
  /\ net \in [Session -> SUBSET Report]
  /\ row \in [Session -> Row]
  /\ duplicates \in 0..MaxDuplicates
  /\ losses \in 0..MaxLosses
  /\ overtaken \subseteq Session

\* HasActiveSession, for one session
IsActive(s) == row[s].status = "active"

\* A row that is stopped tells the truth: the session has ended, and what is
\* billed is all it transferred - whatever the order in which its reports were
\* handled, how often, and which were lost (UpsertSession).
StoppedIsTrue ==
  \A s \in Session :
    row[s].status = "stopped" => nas[s] = "ended" /\ row[s].octets = octets[s]

\* A stopped row is final once no other report than the Stop can come: a Stop
\* handled again changes nothing (UpsertSession).  An older report that the Stop
\* overtook does change it, see StoppedIsFinal.
SettledIsFinal ==
  [][\A s \in Session :
       (row[s].status = "stopped" /\ \A m \in net[s] : m.type = "Stop")
       => row'[s] = row[s]]_acctVars

\* A session that ended comes to be stopped and stays so - else its voucher is
\* "currently in use" for ever - unless a report was lost or the Stop was handled
\* before an older one.
EndedIsStopped ==
  \A s \in Session :
    nas[s] = "ended" ~> row[s].status = "stopped" \/ losses # 0 \/ s \in overtaken

-----------------------------------------------------------------------------
(***************************************************************************)
(* What the plan says and the code does not guarantee.                     *)
(***************************************************************************)

\* plan_build_1.2.md: "acct_stop: finalize bytes, mark user offline".  Refuted by
\* an Interim-Update that the Stop overtakes: it makes the session active again,
\* for good, for no report is left that would stop it.
StoppedIsFinal ==
  [][\A s \in Session : row[s].status = "stopped" => row'[s] = row[s]]_acctVars

=============================================================================
