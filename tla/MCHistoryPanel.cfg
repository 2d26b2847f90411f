\* Two processes that ingest, files that change, faults, and a panel.
SPECIFICATION PanelFairSpec
CONSTANTS
  p1 = p1
  p2 = p2
  sig1 = sig1
  sig2 = sig2
  calm = calm
  urgent = urgent
  Malformed = Malformed
  None = None
  Policy = {p1, p2}
  Wording = {calm, urgent, Malformed}
  Signal = {sig1, sig2}
  Dataset <- EveryFile
  Job = {"boot", "post", "cli"}
  IngestOnStart = TRUE
  ReingestOnStart = FALSE
  GithubRepo = TRUE
  seed1 = seed1
  SeedIssue = {seed1}
  FetchLimit = 2
  Budgets <- EveryBudget
CHECK_DEADLOCK FALSE
INVARIANTS
  RevisionsTellTheChange
  EveryRevisionIsAlerted
  ShownIsStored
PROPERTIES
  NothingIsRewritten
  JobsConverge
  TablesFill
