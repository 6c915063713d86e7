SPECIFICATION Spec
CONSTANTS
  c = c
  t = t
  jan = jan
  feb = feb
  job = job
  hand2 = hand2
  hand = hand
  form = form
  Client = {c, t}
  Period = {jan, feb}
  Request = {job, hand, hand2, form}
  Kind <- MCKind
  ClientOf <- MCClientOf
  PeriodIn <- MCPeriodIn
  Template = {t}
  Creation <- MCCreation
INVARIANTS
  NumbersAreDense
  NoRegeneration
  ConflictHasWinner
