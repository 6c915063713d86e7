\* Two page requests, a read and a write, a user who logs in or out once, and a
\* session whose token and refresh token may be alive or dead.
CONSTANTS
  Requests = {"list", "pay"}
  CallOf <- MCCallOf
  MaxTokens = 2
  MaxLogins = 1
SPECIFICATION Spec
INVARIANTS
  RefreshHasOneOwner
  WaitersHaveAWaker
  TokensAgree
  WriteAtMostTwice
CHECK_DEADLOCK FALSE
