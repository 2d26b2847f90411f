\* One bounty of two milestones with a panel of reviewers and a registry.
SPECIFICATION EscrowSpec
CONSTANTS
  alice = alice
  bob = bob
  carol = carol
  dave = dave
  issue1 = issue1
  issue2 = issue2
  Other = Other
  NoOne = NoOne
  ThisBounty = ThisBounty
  Token = {rrd}
  Address = {alice, bob, carol, dave}
  Issue = {issue1}
  MaxMilestones = 2
  Caller = {ThisBounty}
  Deployers = {alice}
  Amount = {1}
  MaxI128 = 9
  Funders = {alice}
  Workers = {bob}
  Wallet = 3
  MilestoneLists <- OneAndTwo
  Proposable <- ReviewedBounty
  RegistryChoices = {TRUE}
  MaxDisputes = 1
CHECK_DEADLOCK FALSE
INVARIANTS
  EscrowTypeOK
  VotesMatchBallots
  ReputationIsEarned
