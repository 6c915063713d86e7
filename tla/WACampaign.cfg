SPECIFICATION FairSpec
CONSTANTS
  r1 = r1
  r2 = r2
  q1 = q1
  q2 = q2
  w1 = w1
  w2 = w2
  post = post
  Recipient = {r1, r2}
  Retry = {q1, q2}
  Create = post
  Worker = {w1, w2}
  MaxRetry = 1
  ListLimit = 1
  MaxTrouble = 2
INVARIANTS
  CompletedIsDone
  SentOnce
  NobodyIsStranded
PROPERTY
  CampaignCompletes
