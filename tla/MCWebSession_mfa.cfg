SPECIFICATION Spec
CONSTANTS
  t1 = t1
  admin = admin
  orga = orga
  nobody = nobody
  Tabs <- OneTab
  Users <- Accounts
  MfaUsers <- Enrolled
  MaxSessions = 2
  Nobody = nobody
CHECK_DEADLOCK FALSE
INVARIANT SecondFactorJudged
