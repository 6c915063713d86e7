\* A dashboard read and a write while the token expires: every call settles
\* unless the refresh waits for itself.
CONSTANTS
  Requests = {"stats", "pay"}
  CallOf <- MCCallOf
  MaxTokens = 2
  MaxLogins = 0
SPECIFICATION Spec
PROPERTY SettlesUnlessStuck
CHECK_DEADLOCK FALSE
