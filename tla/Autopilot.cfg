SPECIFICATION Spec
CONSTANTS
  Team = {"scout", "builder", "sentry"}
  Checks = {}
  Statuses = {}
  AutoRuns = {TRUE}
  Policies = {"auto"}
  MaxRounds = 1
  MaxRuns = 4
  MaxCommits = 3
INVARIANTS TypeOK LandedWorkWasAgreed
PROPERTY WorkIsNotOverwritten
