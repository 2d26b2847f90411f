\* A reclaim after a refunded dispute, with a second bounty in the escrow.
SPECIFICATION EscrowSpec
CONSTANTS
  alice = alice
  bob = bob
  carol = carol
  dave = dave
  issue1 = issue1
  issue2 = issue2
  Other = Other
  NoOne = NoOne
  ThisBounty = ThisBounty
  Token = {rrd}
  Address = {alice, bob}
  Issue = {issue1, issue2}
  MaxMilestones = 2
  Caller = {ThisBounty}
  Deployers = {alice}
  Amount = {1}
  MaxI128 = 9
  Funders = {alice}
  Workers = {alice, bob}
  Wallet = 6
  MilestoneLists <- OneAndTwo
  Proposable <- UnreviewedBounty
  RegistryChoices = {FALSE}
  MaxDisputes = 3
CHECK_DEADLOCK FALSE
INVARIANT
  NoOverdraft
