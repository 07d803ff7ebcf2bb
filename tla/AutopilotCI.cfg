SPECIFICATION Spec
CONSTANTS
  Team = {"builder", "sentry"}
  Checks = {k1}
  Statuses = {"canceled"}
  AutoRuns = {TRUE}
  Policies = {"auto", "approval"}
  MaxRounds = 2
  MaxRuns = 4
  MaxCommits = 1
INVARIANT TaskMergesOnce
PROPERTIES ReadyWorkIsTakenUp ClosedTasksRest
