\* The server's overlapping passes, one run of the command line beside them, no
\* start ledger, and one fault anywhere.
SPECIFICATION FairSpec
CONSTANTS
  submit = submit
  admin = admin
  cli = cli
  ServerPass = {submit, admin}
  CliPass = {cli}
  StartLedger = 0
  Window = 2
  PageLimit = 2
  LastTable = 2
  Batches <- Mixed
  MaxLedger = 2
  MaxCliRuns = 1
  MaxFaults = 1
CHECK_DEADLOCK FALSE
INVARIANTS
  NothingSkipped
  TablesFollowLog
PROPERTIES
  TablesNeverGoBack
  EveryEventIndexed
