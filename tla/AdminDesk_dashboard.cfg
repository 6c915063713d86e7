\* The dashboard of an administrator who has just come to it.
SPECIFICATION AdminSpec
CONSTANTS
  AdminKinds = {"tenants", "plans"}
  AdminIds = {1}
  MaxAdminAsked = 4
INVARIANT DashboardIsWhole
CHECK_DEADLOCK FALSE
