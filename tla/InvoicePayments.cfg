SPECIFICATION FairSpec
CONSTANTS
  i1 = i1
  i2 = i2
  r1 = r1
  r2 = r2
  r3 = r3
  Invoice <- MCInvoice
  Request = {r1, r2, r3}
  Total <- MCTotal
  Amount = {1}
INVARIANTS
  PaidIsCovered
  PaidAmountIsBacked
  CoveredIsSettled
PROPERTIES
  CoveredEventuallySettled
  ImplementsAccount
