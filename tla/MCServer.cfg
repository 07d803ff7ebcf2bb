SPECIFICATION ServerSpec
CONSTANTS
  Tickers = {t1, t2}
  Hands = {n1}
  Editors = {e1}
  Interval = 2
  MaxTime = 3
  MaxTasks = 2
  Files = {f1}
  Posts = {p1, p2}
  MaxPerPost = 1
  Letters = {l1, l2}
  Changes = {c1, c2}
  Servers = {s1, s2}
  Builds <- Releases
  Sockets = {k1, k2, k3}
  AgentCalls = {a1, a2}
  Replies = {y1}
  Asks = {y2}
  Starts = {h1}
  Steers = {m1}
  Runs = {r1, r2}
  People = {b1, b2}
  Names = {w1, w2}
  Calls = {q1, q2}
  Inquiries = {i1, i2}
  Permits = {j1}
  Options <- Offered
  Remarks <- Said
CHECK_DEADLOCK FALSE
INVARIANTS ServerTypeOK FilesKeepTheirBytes DMsShowWhatIsThere SchemaIsOfABuild ViewersAreUpToDate RepliesReachAgents RosterIsTrue PeopleDecide
PROPERTIES FiresOncePerInterval OnlyPeoplePileUp StartsEnd ReportsLand
