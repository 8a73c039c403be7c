SPECIFICATION FairSpec
CONSTANTS
  Tabs = {t1, t2}
  Emails = {e1, e2}
  NoMail = NoMail
  MaxUsers = 3
  Faults = {"db", "lost", "link", "lookup", "open", "revoke"}
  MaxSpent = 4
CHECK_DEADLOCK FALSE
INVARIANTS
  
  CookieIsLive
  TokenOpensOnce
PROPERTIES
  TabRecovers
