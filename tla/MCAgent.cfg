SPECIFICATION AgentSpec
CONSTANTS
  Output <- Chatter
  SinkBuffer = 2
  CoalesceBytes = 2
  Messages = {m1, m2}
  Interrupts = {m2}
  Builds = {b1, b2}
  Merges = {g1, g2}
  MaxCommits = 4
  Procs = {a1, a2}
  Jobs = {j1, j2}
  MaxTokens = 3
CHECK_DEADLOCK FALSE
INVARIANTS AgentTypeOK WaitsForSomething OneTurnAtATime ReportsStayTrue
PROPERTIES SessionEnds OutputInOrder CloseReturns OnlyApprovedLands LoginFollows
