\* The registry initialised late, rotated to another contract that writes what it
\* likes, and back; its i128 totals saturate at the second payout.
SPECIFICATION EscrowSpec
CONSTANTS
  alice = alice
  bob = bob
  carol = carol
  dave = dave
  issue1 = issue1
  issue2 = issue2
  Other = Other
  NoOne = NoOne
  ThisBounty = ThisBounty
  Token = {rrd}
  Address = {alice, bob}
  Issue = {issue1}
  MaxMilestones = 2
  Caller = {ThisBounty, Other}
  Deployers = {alice}
  Amount = {1}
  MaxI128 = 1
  Funders = {alice}
  Workers = {bob}
  Wallet = 1
  MilestoneLists <- Single
  Proposable <- FunderReviews
  RegistryChoices = {TRUE, FALSE}
  MaxDisputes = 0
CHECK_DEADLOCK FALSE
INVARIANTS
  PayoutsAreCredited
  RegistryConsistent
PROPERTIES
  HistoryKept
