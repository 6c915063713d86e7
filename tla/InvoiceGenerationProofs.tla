------------------------ MODULE InvoiceGenerationProofs ------------------------
(***************************************************************************)
(* Theorems about InvoiceGeneration, for any clients, periods and requests. *)
(*                                                                         *)
(* NumbersAreDense is not inductive: a request that counted the invoices   *)
(* inserts what it counted later.  Dense adds that a pending number is at   *)
(* most one past the numbers in use; since the UNIQUE constraint refuses   *)
(* the others, only the next one can enter.                                *)
(***************************************************************************)
EXTENDS InvoiceGeneration, FiniteSetTheorems, TLAPS

FiniteNumbers == IsFiniteSet(Numbers)

TypeInv == TypeOK /\ FiniteNumbers

Dense ==
  ~purged => \E k \in Nat :
    /\ Numbers = 1..k
    /\ \A r \in Request : pc[r] = "insert" => number[r] \in 1..(k + 1)

\* The number a request counts is a natural number.
LEMMA CountIsNatural ==
  ASSUME FiniteNumbers
  PROVE  GenerateInvoiceNumber \in Nat
  BY FS_CardinalityType DEF GenerateInvoiceNumber, FiniteNumbers

\* TypeInv holds of an empty month.
LEMMA InitType == Init => TypeInv
  <1> SUFFICES ASSUME Init PROVE TypeInv
    OBVIOUS
  <1>1. Numbers = {}
    BY DEF Init, Numbers
  <1>2. FiniteNumbers
    BY <1>1, FS_EmptySet DEF FiniteNumbers
  <1>3. TypeOK
    BY <1>1, RequestAssumption DEF Init, TypeOK, Done, InFlight
  <1> QED
    BY <1>2, <1>3 DEF TypeInv

\* The steps that change nothing but a request's own variables.
LEMMA StepType ==
  ASSUME TypeInv, NEW r \in Request,
         Arrive(r) \/ Step(r) \/ Abort(r)
  PROVE  TypeInv'
  <1> USE RequestAssumption, ClientAssumption
  <1> USE DEF TypeInv, TypeOK, FiniteNumbers, Numbers, Goto, InFlight, Done
  <1>1. CASE Arrive(r)
    BY <1>1 DEF Arrive
  <1>2. CASE JobChecks(r)
    BY <1>2 DEF JobChecks
  <1>3. CASE ReadClient(r)
    BY <1>3 DEF ReadClient
  <1>4. CASE ChooseDueDate(r)
    BY <1>4 DEF ChooseDueDate
  <1>5. CASE CheckExists(r)
    BY <1>5 DEF CheckExists
  <1>6. CASE CountInvoices(r)
    BY <1>6, CountIsNatural DEF CountInvoices
  <1>7. CASE InsertInvoice(r)
    <2>1. CASE number[r] \in Numbers \/ client[ClientOf[r]] = "gone"
      BY <1>7, <2>1 DEF InsertInvoice
    <2>2. CASE ~(number[r] \in Numbers \/ client[ClientOf[r]] = "gone")
      <3>1. DOMAIN invoice' = Numbers \union {number[r]}
        BY <1>7, <2>2 DEF InsertInvoice
      <3>2. IsFiniteSet(DOMAIN invoice')
        BY <3>1, FS_AddElement
      <3>3. \A n \in DOMAIN invoice' : invoice'[n] \in Row
        <4> TAKE n \in DOMAIN invoice'
        <4>1. CASE n = number[r]
          <5>1. ClientOf[r] \in Client /\ period[r] \in Period
            OBVIOUS
          <5>2. invoice'[n] = [client |-> ClientOf[r], period |-> period[r]]
            BY <1>7, <2>2, <4>1 DEF InsertInvoice
          <5> QED
            BY <5>1, <5>2 DEF Row
        <4>2. CASE n # number[r]
          <5>1. n \in Numbers
            BY <3>1, <4>2
          <5> QED
            BY <1>7, <2>2, <4>2, <5>1 DEF InsertInvoice
        <4> QED
          BY <4>1, <4>2
      <3> QED
        BY <1>7, <2>2, <3>1, <3>2, <3>3 DEF InsertInvoice
    <2> QED
      BY <2>1, <2>2
  <1>8. CASE Abort(r)
    BY <1>8 DEF Abort
  <1> QED
    BY <1>1, <1>2, <1>3, <1>4, <1>5, <1>6, <1>7, <1>8 DEF Step

\* The clean-up removes rows and leaves the rest of the type.
LEMMA HardDeleteType ==
  ASSUME TypeInv, NEW C \in SUBSET Client, HardDelete(C)
  PROVE  TypeInv'
  <1>1. DOMAIN invoice' = {m \in Numbers : invoice[m].client \notin C}
    BY DEF HardDelete
  <1>2. IsFiniteSet(DOMAIN invoice')
    BY <1>1, FS_Subset DEF TypeInv, FiniteNumbers
  <1>3. \A n \in DOMAIN invoice' : invoice'[n] \in Row
    BY <1>1 DEF HardDelete, TypeInv, TypeOK, Numbers
  <1>4. client' \in [Client -> {"present", "deleted", "gone"}]
    BY DEF HardDelete, TypeInv, TypeOK
  <1>5. purged' \in BOOLEAN
    BY DEF HardDelete, TypeInv, TypeOK
  <1>6. UNCHANGED <<pc, period, number, late>>
    BY DEF HardDelete, requests
  <1> QED
    BY <1>1, <1>2, <1>3, <1>4, <1>5, <1>6 DEF TypeInv, TypeOK, FiniteNumbers, Numbers

\* TypeInv is inductive.
LEMMA NextType == TypeInv /\ [Next]_vars => TypeInv'
  <1> SUFFICES ASSUME TypeInv, [Next]_vars PROVE TypeInv'
    OBVIOUS
  <1>1. ASSUME NEW r \in Request, Arrive(r) \/ Step(r) \/ Abort(r) PROVE TypeInv'
    BY <1>1, StepType
  <1>2. ASSUME NEW c \in Client, SoftDelete(c) PROVE TypeInv'
    BY <1>2 DEF SoftDelete, requests, TypeInv, TypeOK, FiniteNumbers, Numbers
  <1>3. ASSUME NEW C \in SUBSET Client, HardDelete(C) PROVE TypeInv'
    BY <1>3, HardDeleteType
  <1>4. CASE UNCHANGED vars
    BY <1>4 DEF vars, requests, TypeInv, TypeOK, FiniteNumbers, Numbers
  <1> QED
    BY <1>1, <1>2, <1>3, <1>4 DEF Next, AllDone

\* The month has finitely many invoices besides.
LEMMA TypeAlways == Spec => []TypeInv
  BY InitType, NextType, PTL DEF Spec

\* The rows and the requests are always of the expected types.
THEOREM TypeCorrect == Spec => []TypeOK
  BY TypeAlways, PTL DEF TypeInv

-----------------------------------------------------------------------------
(***************************************************************************)
(* Invoice numbers.                                                        *)
(***************************************************************************)

\* Dense holds of an empty month.
LEMMA InitDense == Init => Dense
  <1> SUFFICES ASSUME Init PROVE Dense
    OBVIOUS
  <1>1. Numbers = 1..0
    BY DEF Init, Numbers
  <1>2. \A r \in Request : pc[r] # "insert"
    BY DEF Init
  <1> QED
    BY <1>1, <1>2 DEF Dense

\* Steps after which the same requests, or fewer, are about to insert.
LEMMA QuietDense ==
  ASSUME Dense, UNCHANGED <<invoice, number, purged>>,
         \A r \in Request : pc'[r] = "insert" => pc[r] = "insert"
  PROVE  Dense'
  BY DEF Dense, Numbers

\* A request counts the number after the last.
LEMMA CountDense ==
  ASSUME TypeInv, Dense, NEW r \in Request, CountInvoices(r)
  PROVE  Dense'
  <1> SUFFICES ASSUME ~purged'
               PROVE  \E k \in Nat :
                        /\ Numbers' = 1..k
                        /\ \A q \in Request : pc'[q] = "insert" => number'[q] \in 1..(k + 1)
    BY DEF Dense
  <1>1. PICK k \in Nat :
          /\ Numbers = 1..k
          /\ \A q \in Request : pc[q] = "insert" => number[q] \in 1..(k + 1)
    BY DEF Dense, CountInvoices
  <1>2. GenerateInvoiceNumber = k + 1
    <2>1. Cardinality(1..k) = k
      BY FS_Interval
    <2> QED
      BY <1>1, <2>1 DEF GenerateInvoiceNumber
  <1>3. number'[r] = k + 1
    BY <1>2 DEF CountInvoices, TypeInv, TypeOK
  <1>4. \A q \in Request \ {r} : pc'[q] = pc[q] /\ number'[q] = number[q]
    BY DEF CountInvoices, Goto, TypeInv, TypeOK
  <1>5. \A q \in Request : pc'[q] = "insert" => number'[q] \in 1..(k + 1)
    BY <1>1, <1>3, <1>4
  <1>6. Numbers' = 1..k
    BY <1>1 DEF CountInvoices, Numbers
  <1> QED
    BY <1>5, <1>6

\* Of the requests that counted it, one inserts that number; the others are refused.
LEMMA InsertDense ==
  ASSUME TypeInv, Dense, NEW r \in Request, InsertInvoice(r)
  PROVE  Dense'
  <1>1. CASE number[r] \in Numbers \/ client[ClientOf[r]] = "gone"
    <2>1. UNCHANGED <<invoice, number, purged>>
      BY <1>1 DEF InsertInvoice
    <2>2. \A q \in Request : pc'[q] = "insert" => pc[q] = "insert"
      BY <1>1 DEF InsertInvoice, Goto, TypeInv, TypeOK
    <2> QED
      BY <2>1, <2>2, QuietDense
  <1>2. CASE ~(number[r] \in Numbers \/ client[ClientOf[r]] = "gone")
    <2> SUFFICES ASSUME ~purged'
                 PROVE  \E k \in Nat :
                          /\ Numbers' = 1..k
                          /\ \A q \in Request : pc'[q] = "insert" => number'[q] \in 1..(k + 1)
      BY DEF Dense
    <2>1. PICK k \in Nat :
            /\ Numbers = 1..k
            /\ \A q \in Request : pc[q] = "insert" => number[q] \in 1..(k + 1)
      BY DEF Dense, InsertInvoice
    <2>2. number[r] = k + 1
      BY <1>2, <2>1 DEF InsertInvoice
    <2>3. Numbers' = Numbers \union {number[r]}
      BY <1>2 DEF InsertInvoice, Numbers
    <2>4. Numbers' = 1..(k + 1)
      BY <2>1, <2>2, <2>3
    <2>5. UNCHANGED number
      BY DEF InsertInvoice
    <2>6. \A q \in Request : pc'[q] = "insert" => pc[q] = "insert"
      BY <1>2 DEF InsertInvoice, Goto, TypeInv, TypeOK
    <2>7. \A q \in Request : pc'[q] = "insert" => number'[q] \in 1..(k + 2)
      BY <2>1, <2>5, <2>6
    <2>8. k + 1 \in Nat /\ (k + 1) + 1 = k + 2
      OBVIOUS
    <2> QED
      BY <2>4, <2>7, <2>8
  <1> QED
    BY <1>1, <1>2

\* A clean-up that removes no invoice leaves the numbers as they are.
LEMMA HardDeleteDense ==
  ASSUME TypeInv, Dense, NEW C \in SUBSET Client, HardDelete(C)
  PROVE  Dense'
  <1> SUFFICES ASSUME ~purged' PROVE Dense'
    BY DEF Dense
  <1>1. ~purged /\ \A n \in Numbers : invoice[n].client \notin C
    BY DEF HardDelete
  <1>2. Numbers' = Numbers
    BY <1>1 DEF HardDelete, Numbers
  <1>3. UNCHANGED <<pc, number>>
    BY DEF HardDelete, requests
  <1> QED
    BY <1>1, <1>2, <1>3 DEF Dense

\* Dense is inductive.
LEMMA NextDense == TypeInv /\ Dense /\ [Next]_vars => Dense'
  <1> SUFFICES ASSUME TypeInv, Dense, [Next]_vars PROVE Dense'
    OBVIOUS
  <1> USE DEF TypeInv, TypeOK, Goto
  <1>1. ASSUME NEW r \in Request, CountInvoices(r) PROVE Dense'
    BY <1>1, CountDense
  <1>2. ASSUME NEW r \in Request, InsertInvoice(r) PROVE Dense'
    BY <1>2, InsertDense
  <1>3. ASSUME NEW r \in Request,
               \/ Arrive(r) \/ JobChecks(r) \/ ReadClient(r)
               \/ ChooseDueDate(r) \/ CheckExists(r) \/ Abort(r)
        PROVE  Dense'
    <2>1. UNCHANGED <<invoice, number, purged>>
      BY <1>3 DEF Arrive, JobChecks, ReadClient, ChooseDueDate, CheckExists, Abort
    <2>2. \A q \in Request : pc'[q] = "insert" => pc[q] = "insert"
      BY <1>3, RequestAssumption
         DEF Arrive, JobChecks, ReadClient, ChooseDueDate, CheckExists, Abort
    <2> QED
      BY <2>1, <2>2, QuietDense
  <1>4. ASSUME NEW c \in Client, SoftDelete(c) PROVE Dense'
    BY <1>4 DEF SoftDelete, requests, Dense, Numbers
  <1>5. ASSUME NEW C \in SUBSET Client, HardDelete(C) PROVE Dense'
    BY <1>5, HardDeleteDense
  <1>6. CASE UNCHANGED vars
    BY <1>6 DEF vars, requests, Dense, Numbers
  <1> QED
    BY <1>1, <1>2, <1>3, <1>4, <1>5, <1>6 DEF Next, Step, AllDone

\* Dense is what NumbersAreDense says and more.
LEMMA DenseMeansNumbersAreDense == Dense => NumbersAreDense
  <1> SUFFICES ASSUME Dense, ~purged PROVE Numbers = 1..Cardinality(Numbers)
    BY DEF NumbersAreDense
  <1>1. PICK k \in Nat : Numbers = 1..k
    BY DEF Dense
  <1>2. Cardinality(1..k) = k
    BY FS_Interval
  <1> QED
    BY <1>1, <1>2

\* As long as no clean-up removed one, the invoices of a month are numbered
\* 1, 2, 3, ... without a gap, for any number of concurrent requests.
THEOREM InvoiceNumbersAreDense == Spec => []NumbersAreDense
  <1>1. Init => TypeInv /\ Dense
    BY InitType, InitDense
  <1>2. TypeInv /\ Dense /\ [Next]_vars => (TypeInv /\ Dense)'
    BY NextType, NextDense
  <1> QED
    BY <1>1, <1>2, DenseMeansNumbersAreDense, PTL DEF Spec

-----------------------------------------------------------------------------
(***************************************************************************)
(* The foreign key.                                                        *)
(***************************************************************************)

\* NoOrphans is inductive: the foreign key refuses an insertion, the cascade removes the rows.
LEMMA NextOrphans == TypeInv /\ NoOrphans /\ [Next]_vars => NoOrphans'
  <1> SUFFICES ASSUME TypeInv, NoOrphans, [Next]_vars PROVE NoOrphans'
    OBVIOUS
  <1> USE DEF TypeInv, TypeOK, NoOrphans, Numbers
  <1>1. ASSUME NEW r \in Request, InsertInvoice(r) PROVE NoOrphans'
    BY <1>1 DEF InsertInvoice
  <1>2. ASSUME NEW r \in Request,
               \/ Arrive(r) \/ JobChecks(r) \/ ReadClient(r)
               \/ ChooseDueDate(r) \/ CheckExists(r) \/ CountInvoices(r) \/ Abort(r)
        PROVE  NoOrphans'
    <2>1. UNCHANGED <<client, invoice>>
      BY <1>2 DEF Arrive, JobChecks, ReadClient, ChooseDueDate, CheckExists,
                  CountInvoices, Abort
    <2> QED
      BY <2>1
  <1>3. ASSUME NEW c \in Client, SoftDelete(c) PROVE NoOrphans'
    BY <1>3 DEF SoftDelete, requests, Row
  <1>4. ASSUME NEW C \in SUBSET Client, HardDelete(C) PROVE NoOrphans'
    BY <1>4 DEF HardDelete, Row
  <1>5. CASE UNCHANGED vars
    BY <1>5 DEF vars
  <1> QED
    BY <1>1, <1>2, <1>3, <1>4, <1>5 DEF Next, Step, AllDone

\* No invoice outlives the row of its client, whenever the clean-up runs.
THEOREM InvoicesHaveClients == Spec => []NoOrphans
  <1>1. Init => NoOrphans
    BY DEF Init, NoOrphans, Numbers
  <1> QED
    BY <1>1, InitType, NextType, NextOrphans, PTL DEF Spec

-----------------------------------------------------------------------------
(***************************************************************************)
(* Races for a number.                                                     *)
(***************************************************************************)

\* Without a clean-up every row was inserted by a request that ended so, under the
\* number it had counted.
RowsHaveRequests ==
  ~purged => \A n \in Numbers : \E q \in Request : pc[q] = "created" /\ number[q] = n

WinnerInv == RowsHaveRequests /\ ConflictHasWinner

\* A request that inserted keeps what it has: steps that add no row and no conflict.
LEMMA QuietWinner ==
  ASSUME WinnerInv, ~purged' => ~purged /\ Numbers' = Numbers,
         \A q \in Request : pc[q] = "created" => pc'[q] = "created" /\ number'[q] = number[q],
         \A q \in Request : pc'[q] = "conflict" => pc[q] = "conflict" /\ number'[q] = number[q],
         \A c \in Client : client'[c] # "gone" => client[c] # "gone"
  PROVE  WinnerInv'
  <1>1. RowsHaveRequests'
    BY DEF WinnerInv, RowsHaveRequests
  <1>2. ConflictHasWinner'
    <2> SUFFICES ASSUME NEW r \in Request,
                        pc'[r] = "conflict", ~purged', client'[ClientOf[r]] # "gone"
                 PROVE  \E q \in Request : pc'[q] = "created" /\ number'[q] = number'[r]
      BY DEF ConflictHasWinner
    <2>1. ClientOf[r] \in Client
      BY RequestAssumption
    <2>2. PICK q \in Request : pc[q] = "created" /\ number[q] = number[r]
      BY <2>1 DEF WinnerInv, ConflictHasWinner
    <2> QED
      BY <2>2
  <1> QED
    BY <1>1, <1>2 DEF WinnerInv

\* An insertion adds a row and its winner, or loses to the winner of a row.
LEMMA InsertWinner ==
  ASSUME TypeInv, WinnerInv, NEW r \in Request, InsertInvoice(r)
  PROVE  WinnerInv'
  <1>0. /\ UNCHANGED <<client, number, purged>> /\ pc[r] = "insert"
        /\ \A q \in Request \ {r} : pc'[q] = pc[q]
    BY DEF InsertInvoice, Goto, TypeInv, TypeOK
  <1>1. CASE number[r] \in Numbers \/ client[ClientOf[r]] = "gone"
    <2>1. Numbers' = Numbers /\ pc'[r] = "conflict"
      BY <1>1 DEF InsertInvoice, Goto, TypeInv, TypeOK, Numbers
    <2>2. RowsHaveRequests'
      BY <1>0, <2>1 DEF WinnerInv, RowsHaveRequests
    <2>3. ASSUME NEW q \in Request,
                 pc'[q] = "conflict", ~purged', client'[ClientOf[q]] # "gone"
          PROVE  \E w \in Request : pc'[w] = "created" /\ number'[w] = number'[q]
      <3>1. CASE q = r
        <4>1. number[r] \in Numbers'
          BY <1>0, <1>1, <2>1, <2>3, <3>1
        <4> QED
          BY <1>0, <2>2, <2>3, <3>1, <4>1 DEF RowsHaveRequests
      <3>2. CASE q # r
        <4>1. PICK w \in Request : pc[w] = "created" /\ number[w] = number[q]
          BY <1>0, <2>3, <3>2 DEF WinnerInv, ConflictHasWinner
        <4> QED
          BY <1>0, <4>1
      <3> QED
        BY <3>1, <3>2
    <2> QED
      BY <2>2, <2>3 DEF WinnerInv, ConflictHasWinner
  <1>2. CASE ~(number[r] \in Numbers \/ client[ClientOf[r]] = "gone")
    <2>1. Numbers' = Numbers \union {number[r]} /\ pc'[r] = "created"
      BY <1>2 DEF InsertInvoice, Goto, TypeInv, TypeOK, Numbers
    <2>2. RowsHaveRequests'
      BY <1>0, <2>1 DEF WinnerInv, RowsHaveRequests
    <2>3. ConflictHasWinner'
      BY <1>0, <2>1 DEF WinnerInv, ConflictHasWinner
    <2> QED
      BY <2>2, <2>3 DEF WinnerInv
  <1> QED
    BY <1>1, <1>2

\* The clean-up that removes a row is remembered; another one takes clients away, no more.
LEMMA HardDeleteWinner ==
  ASSUME TypeInv, WinnerInv, NEW C \in SUBSET Client, HardDelete(C)
  PROVE  WinnerInv'
  <1>1. UNCHANGED <<pc, number>>
    BY DEF HardDelete, requests
  <1>2. \A c \in Client : client'[c] # "gone" => client[c] # "gone"
    BY DEF HardDelete
  <1>3. ~purged' => ~purged /\ Numbers' = Numbers
    BY DEF HardDelete, Numbers
  <1> QED
    BY <1>1, <1>2, <1>3, QuietWinner

\* WinnerInv is inductive.
LEMMA NextWinner == TypeInv /\ WinnerInv /\ [Next]_vars => WinnerInv'
  <1> SUFFICES ASSUME TypeInv, WinnerInv, [Next]_vars PROVE WinnerInv'
    OBVIOUS
  <1>1. ASSUME NEW r \in Request, InsertInvoice(r) PROVE WinnerInv'
    BY <1>1, InsertWinner
  <1>2. ASSUME NEW r \in Request,
               \/ Arrive(r) \/ JobChecks(r) \/ ReadClient(r)
               \/ ChooseDueDate(r) \/ CheckExists(r) \/ CountInvoices(r) \/ Abort(r)
        PROVE  WinnerInv'
    <2>1. UNCHANGED <<client, invoice, purged>> /\ \A q \in Request \ {r} : number'[q] = number[q]
      BY <1>2 DEF Arrive, JobChecks, ReadClient, ChooseDueDate, CheckExists, CountInvoices, Abort,
                  TypeInv, TypeOK
    <2>2. /\ pc[r] \notin {"created", "conflict"} /\ pc'[r] # "conflict"
          /\ \A q \in Request \ {r} : pc'[q] = pc[q]
      BY <1>2, RequestAssumption
         DEF Arrive, JobChecks, ReadClient, ChooseDueDate, CheckExists, CountInvoices, Abort,
             Goto, InFlight, TypeInv, TypeOK
    <2>3. Numbers' = Numbers
      BY <2>1 DEF Numbers
    <2> QED
      BY <2>1, <2>2, <2>3, QuietWinner
  <1>3. ASSUME NEW c \in Client, SoftDelete(c) PROVE WinnerInv'
    <2>1. UNCHANGED <<invoice, pc, number, purged>>
      BY <1>3 DEF SoftDelete, requests
    <2>2. \A d \in Client : client'[d] # "gone" => client[d] # "gone"
      BY <1>3 DEF SoftDelete, TypeInv, TypeOK
    <2>3. Numbers' = Numbers
      BY <2>1 DEF Numbers
    <2> QED
      BY <2>1, <2>2, <2>3, QuietWinner
  <1>4. ASSUME NEW C \in SUBSET Client, HardDelete(C) PROVE WinnerInv'
    BY <1>4, HardDeleteWinner
  <1>5. CASE UNCHANGED vars
    <2>1. UNCHANGED <<client, invoice, pc, number, purged>> /\ Numbers' = Numbers
      BY <1>5 DEF vars, requests, Numbers
    <2> QED
      BY <2>1, QuietWinner
  <1> QED
    BY <1>1, <1>2, <1>3, <1>4, <1>5 DEF Next, Step, AllDone

\* Without a clean-up, a request loses its insert only to one that inserted the number
\* both had counted, however many requests race for it: no number is lost (CreateInvoice
\* under the UNIQUE constraint).
THEOREM LosersHaveAWinner == Spec => []ConflictHasWinner
  <1>1. Init => WinnerInv
    BY DEF Init, WinnerInv, RowsHaveRequests, ConflictHasWinner, Numbers
  <1>2. WinnerInv => ConflictHasWinner
    BY DEF WinnerInv
  <1> QED
    BY <1>1, <1>2, InitType, NextType, NextWinner, PTL DEF Spec

-----------------------------------------------------------------------------
(***************************************************************************)
(* Requests that come after the invoice.                                   *)
(***************************************************************************)

\* A request works with its own period until it has chosen a due date.
OwnPeriod ==
  \A r \in Request : pc[r] \in {"idle", "job", "client", "due"} => period[r] = PeriodIn[r]

\* The places of a request that finds its client billed.
Harmless == {"job", "client", "due", "exists", "existing", "skipped", "failed"}

\* Without a clean-up, a request that came after its invoice still works for that period,
\* the invoice is there, and it has not passed the check.
LateRequests ==
  ~purged => \A r \in late :
    /\ pc[r] \in Harmless
    /\ period[r] = PeriodIn[r]
    /\ ExistsForClientPeriod(ClientOf[r], PeriodIn[r])

LateInv == OwnPeriod /\ LateRequests

\* Without a clean-up an invoice that exists stays.
LEMMA InvoicesStay ==
  ASSUME [Next]_vars, ~purged', NEW c, NEW p, ExistsForClientPeriod(c, p)
  PROVE  ~purged /\ ExistsForClientPeriod(c, p)'
  <1> USE DEF ExistsForClientPeriod, Numbers
  <1>1. ASSUME NEW r \in Request, InsertInvoice(r) PROVE ~purged /\ ExistsForClientPeriod(c, p)'
    BY <1>1 DEF InsertInvoice
  <1>2. ASSUME NEW C \in SUBSET Client, HardDelete(C) PROVE ~purged /\ ExistsForClientPeriod(c, p)'
    BY <1>2 DEF HardDelete
  <1>3. CASE UNCHANGED <<invoice, purged>>
    BY <1>3
  <1> QED
    BY <1>1, <1>2, <1>3
       DEF Next, Step, Arrive, JobChecks, ReadClient, ChooseDueDate, CheckExists, CountInvoices,
           Abort, SoftDelete, AllDone, requests, vars

\* A step of one request keeps the requests at their periods and the late ones before the insert.
LEMMA RequestLate ==
  ASSUME TypeInv, LateInv, NEW r \in Request, Arrive(r) \/ Step(r) \/ Abort(r), [Next]_vars
  PROVE  LateInv'
  <1> USE RequestAssumption DEF TypeInv, TypeOK, Goto
  <1>0. \A q \in Request \ {r} : pc'[q] = pc[q] /\ period'[q] = period[q]
    BY DEF Arrive, Step, JobChecks, ReadClient, ChooseDueDate, CheckExists, CountInvoices,
           InsertInvoice, Abort
  <1>1. OwnPeriod'
    <2>1. pc'[r] \in {"idle", "job", "client", "due"} => period'[r] = PeriodIn[r]
      BY DEF LateInv, OwnPeriod, Arrive, Step, JobChecks, ReadClient, ChooseDueDate, CheckExists,
             CountInvoices, InsertInvoice, Abort
    <2> QED
      BY <1>0, <2>1 DEF LateInv, OwnPeriod
  <1>2. ASSUME ~purged' PROVE ~purged
    BY <1>2 DEF Arrive, Step, JobChecks, ReadClient, ChooseDueDate, CheckExists, CountInvoices,
                InsertInvoice, Abort
  <1>3. ASSUME ~purged', NEW q \in late
        PROVE  /\ pc'[q] \in Harmless
               /\ period'[q] = PeriodIn[q]
               /\ ExistsForClientPeriod(ClientOf[q], PeriodIn[q])'
    <2>1. /\ q \in Request /\ pc[q] \in Harmless /\ period[q] = PeriodIn[q]
          /\ ExistsForClientPeriod(ClientOf[q], PeriodIn[q])
      BY <1>2, <1>3 DEF LateInv, LateRequests
    <2>2. ExistsForClientPeriod(ClientOf[q], PeriodIn[q])'
      BY <1>3, <2>1, InvoicesStay
    <2>3. HasAnyInvoiceForClient(ClientOf[q])
      BY <2>1 DEF ExistsForClientPeriod, HasAnyInvoiceForClient
    <2>4. CASE q = r
      <3>1. ~Arrive(r) /\ ~CountInvoices(r) /\ ~InsertInvoice(r)
        BY <2>1, <2>4 DEF Harmless, Arrive, CountInvoices, InsertInvoice
      <3>2. CASE JobChecks(r) \/ ReadClient(r) \/ CheckExists(r) \/ Abort(r)
        BY <2>1, <2>2, <2>4, <3>2 DEF Harmless, JobChecks, ReadClient, CheckExists, Abort
      <3>3. CASE ChooseDueDate(r)
        BY <2>1, <2>2, <2>3, <2>4, <3>3 DEF Harmless, ChooseDueDate
      <3> QED
        BY <3>1, <3>2, <3>3 DEF Step
    <2> QED
      BY <1>0, <2>1, <2>2, <2>4
  <1>4. ASSUME ~purged', Arrive(r), r \in late', r \notin late
        PROVE  /\ pc'[r] \in Harmless
               /\ period'[r] = PeriodIn[r]
               /\ ExistsForClientPeriod(ClientOf[r], PeriodIn[r])'
    <2>1. Kind[r] \in {"job", "hand"} /\ ExistsForClientPeriod(ClientOf[r], PeriodIn[r])
      BY <1>4 DEF Arrive
    <2>2. pc'[r] \in {"job", "client"} /\ period'[r] = PeriodIn[r]
      BY <1>4, <2>1 DEF Arrive, LateInv, OwnPeriod
    <2> QED
      BY <1>4, <2>1, <2>2, InvoicesStay DEF Harmless
  <1>5. \A q \in late' : q \in late \/ (q = r /\ Arrive(r))
    BY DEF Arrive, Step, JobChecks, ReadClient, ChooseDueDate, CheckExists, CountInvoices,
           InsertInvoice, Abort
  <1>6. LateRequests'
    BY <1>3, <1>4, <1>5 DEF LateRequests
  <1> QED
    BY <1>1, <1>6 DEF LateInv

\* LateInv is inductive.
LEMMA NextLate == TypeInv /\ LateInv /\ [Next]_vars => LateInv'
  <1> SUFFICES ASSUME TypeInv, LateInv, [Next]_vars PROVE LateInv'
    OBVIOUS
  <1>1. ASSUME NEW r \in Request, Arrive(r) \/ Step(r) \/ Abort(r) PROVE LateInv'
    BY <1>1, RequestLate
  <1>2. CASE UNCHANGED <<pc, period, late>>
    <2>1. OwnPeriod'
      BY <1>2 DEF LateInv, OwnPeriod
    <2>2. purged => purged'
      BY DEF Next, Step, Arrive, JobChecks, ReadClient, ChooseDueDate, CheckExists, CountInvoices,
             InsertInvoice, Abort, SoftDelete, HardDelete, AllDone, vars
    <2>3. ASSUME ~purged', NEW r \in late PROVE ExistsForClientPeriod(ClientOf[r], PeriodIn[r])'
      BY <2>2, <2>3, InvoicesStay DEF LateInv, LateRequests
    <2>4. LateRequests'
      BY <1>2, <2>2, <2>3 DEF LateInv, LateRequests
    <2> QED
      BY <2>1, <2>4 DEF LateInv
  <1> QED
    BY <1>1, <1>2 DEF Next, SoftDelete, HardDelete, AllDone, requests, vars

\* However many requests overlap, one that begins when its client has an invoice of the
\* period makes no other, as long as no clean-up removed invoices (GenerateMonthlyInvoice).
THEOREM LateRequestsCreateNothing == Spec => []NoRegeneration
  <1>1. Init => LateInv
    BY DEF Init, LateInv, OwnPeriod, LateRequests
  <1>2. LateInv => NoRegeneration
    BY DEF LateInv, LateRequests, NoRegeneration, Harmless
  <1> QED
    BY <1>1, <1>2, InitType, NextType, NextLate, PTL DEF Spec

=============================================================================
