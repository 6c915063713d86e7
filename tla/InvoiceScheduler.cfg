SPECIFICATION Spec
CONSTANTS
  due1 = due1
  due2 = due2
  due3 = due3
  due31 = due31
  Client = {due1, due2, due3, due31}
  DueDay <- MCDueDay
  Template = {due2}
  Created <- MCCreated
  FirstDays <- TurnFirsts
  LastDays <- TurnLasts
  MaxFaults = 1
  MaxManual = 1
INVARIANTS
  ComputesNextDueDate
  NotOverdueWhenMade
  InvoicedBeforeDueDay
