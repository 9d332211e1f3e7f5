CONSTANTS
  None = None
  Anon = Anon
  s1 = s1
  s2 = s2
  h1 = h1
  h2 = h2
  e1 = e1
  e2 = e2
  t1 = t1
  t2 = t2
  u1 = u1
  u2 = u2
  Servers = {s1, s2}
  Hosts = {h1, h2}
  Endpoints = {e1, e2}
  Tokens = {t1, t2}
  Users = {u1, u2}
  Me = u1
  Urls = {0, 1, 2}
  NewUrl = 0
  f1 = f1
  Filters = {f1}
  Settings = {0, 1}
  Default = 0
  FirstFile <- MCFile
  FirstRow <- MCRow
  DefaultServers <- MCDefaultServers
  Visits <- MCVisits
  MaxCalls = 2
  MaxFaults = 1
SPECIFICATION FairSpec
INVARIANT SettingsInv
INVARIANT PanelMatches
INVARIANT RowFollowsPage
INVARIANT UsersMatch
PROPERTY RequestsReport
CHECK_DEADLOCK FALSE
