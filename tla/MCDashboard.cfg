\* Every action through every client, two colliding requests, and a dashboard.
SPECIFICATION MCSpec
CONSTANTS
  alice = alice
  bob = bob
  rrd = rrd
  issue1 = issue1
  issue2 = issue2
  titles = titles
  two = two
  nobody = nobody
  Approve = Approve
  Reject = Reject
  Absent = Absent
  Account = {alice, bob}
  Address = {alice, bob, rrd}
  Scripts <- EveryScript
  WordBits = 2
  MaxSafeInteger = 2
  Issue = {issue1, issue2}
  MaxRuns = 2
  MaxClicks = 1
  None = None
CHECK_DEADLOCK FALSE
INVARIANTS
  ExecutedAsAsked
  VerifiedViewsKeepUp
PROPERTIES
  KeepsItsPromise
  SubmissionsAreSettled
  DashboardComesBack
