SPECIFICATION Spec
CONSTANTS
  p1 = p1  b1 = b1  b2 = b2  s1 = s1  s2 = s2  w1 = w1  w2 = w2
  Runs = {1, 2}
  Projects = {p1}
  Bots = {b1, b2}
  Questions = {q1}
  Slots = {s1, s2}
  Workers = {w1, w2}
  Limits = {0, 1}
  NoProject = NoProject  NoBot = NoBot  NoWorker = NoWorker  NoRun = NoRun
  BotProject <- OneProject
  SlotBot <- TwoBots
  SlotWorker <- TwoWorkers
PROPERTY RemovedBotTakesNoWork
