\* Two tabs, two accounts, any two of: logins, OAuth returns, logouts, expired
\* tokens, page loads, lost requests.  Nothing is enabled once all tabs rest.
SPECIFICATION FairSpec
CONSTANTS
  Tabs = {t1, t2}
  Users = {u1, u2}
  NoUser = NoUser
  Savers = {t1}
  Nobody = Nobody
  Tokens = {1, 2, 3, 4, 5, 6, 7}
  None = None
  MaxEvents = 2
CHECK_DEADLOCK FALSE
INVARIANTS ShowsTokenOwner NeverReusesRotated
PROPERTIES LoadingEnds ImplementsTab
