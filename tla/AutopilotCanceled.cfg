SPECIFICATION Spec
CONSTANTS
  Team = {"builder", "sentry"}
  Checks = {}
  Statuses = {"canceled"}
  AutoRuns = {TRUE}
  Policies = {"auto"}
  MaxRounds = 3
  MaxRuns = 4
  MaxCommits = 2
PROPERTY CanceledTasksAreNotMerged
