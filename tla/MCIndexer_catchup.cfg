\* A fault between the commit and the rebuilds.
SPECIFICATION FairSpec
CONSTANTS
  submit = submit
  admin = admin
  cli = cli
  ServerPass = {submit}
  CliPass = {}
  StartLedger = 1
  Window = 1
  PageLimit = 2
  LastTable = 2
  Batches <- Plain
  MaxLedger = 2
  MaxCliRuns = 0
  MaxFaults = 1
CHECK_DEADLOCK FALSE
PROPERTY
  TablesCatchUp
