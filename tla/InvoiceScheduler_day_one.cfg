SPECIFICATION Spec
CONSTANTS
  due1 = due1
  due2 = due2
  due3 = due3
  due31 = due31
  Client = {due1, due2, due3, due31}
  DueDay <- MCDueDay
  Template = {due2}
  Created <- MCCreated
  FirstDays <- JanuaryFirst
  LastDays <- FebruaryLast
  MaxFaults = 0
  MaxManual = 0
INVARIANT
  InvoicedADayBefore
