SPECIFICATION Spec
CONSTANTS
  Team = {"builder", "sentry"}
  Checks = {k1}
  Statuses = {}
  AutoRuns = {TRUE}
  Policies = {"auto"}
  MaxRounds = 3
  MaxRuns = 5
  MaxCommits = 2
PROPERTY OldFailuresSendNothingBack
