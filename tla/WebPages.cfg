\* Each area on the instance its own state space allows; a user stays in one area.
CONSTANTS
  Tenants = {"full", "small"}
  PlanFeatures <- MCPlanFeatures
  FeatureMap <- MCFeatureMap
  Bills = {"b1"}
  MaxVisitFetches = 2
  Customers = {"c1", "c2"}
  Owed = 2
  Months = {"m1"}
  MaxRoundPosts = 1
  MaxDeposits = 1
  Settlements = {"s1", "s2"}
  Deposits = {"d1", "d2", "d3"}
  MaxClosing = 2
  Accounts = {"i0", "i1"}
  MaxDeskPages = 2
  MaxDeskPayments = 2
  MaxDeskAsked = 0
  Years = {1, 2, 3}
  DataYears = {1, 2}
  MaxTemplates = 2
  MaxMatrixAsked = 3
  Categories = {"regular", "lite"}
  Packages = {"p1", "p2"}
  CategoryOf <- MCCategoryOf
  Tempos = {"t1"}
  DayOf <- MCDayOf
  Days = {5, 20}
  MaxPackageAsked = 2
  MaxEdits = 3
  MaxSubmissions = 1
  Clients = {"c1"}
  Totals = {0, 7}
  MaxClientAsked = 0
  Items = {"v1"}
  Bundles = {"k1", "k2"}
  Nases = {"n1"}
  MaxDeliveries = 1
  MaxHandlers = 2
  MaxLoads = 3
  MaxEntries = 1
  MaxSetupRequests = 2
  Percents = {150}
  MaxFleet = 2
  MaxSetupEdits = 1
  MaxSetupAsked = 3
  MaxFirewallAsked = 3
  HotspotIPs = {1, 2}
  Devices = {"r1", "r2"}
  Profiles = {"p1"}
  Existing = {"r1", "p1"}
  MaxNetworkAsked = 3
  Contacts = {"a", "b"}
  PhoneOf <- MCPhoneOf
  MaxCampaigns = 2
  MaxWAAsked = 2
  LogPages = 3
  LogQueries = 2
  MaxPanelAsked = 3
  AdminKinds = {"tenants", "plans"}
  AdminIds = {1}
  MaxAdminAsked = 4
  PlanCodes = {"rbac_client_reseller", "x"}
  ResellerCodes = {"rbac_client_reseller"}
  MaxPlanEdits = 1
  TaskIds = {1, 2}
  OwnTasks = {1}
  MaxTaskAsked = 4
  OwnItems = {1}
  OwnStatuses = {"pending"}
  MaxOwnAsked = 4
SPECIFICATION WebSpec
INVARIANTS
  MenuKeepsItsWord
  PartialIsBacked
  MatrixIsCurrent
  ChosenPackageIsOffered
  PagesOfferedExist
  OneRequestAtATime
  DialogNamesItsItem
  SpinnersEnd
  SentLimitsAreListed
PROPERTIES
  DecisionsAreFinal
  UnseenLimitsSurvive
CHECK_DEADLOCK FALSE
