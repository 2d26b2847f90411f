\* Two proposals over a reviewed bounty of two milestones, indexed late.
SPECIFICATION ReadSpec
CONSTANTS
  alice = alice
  bob = bob
  carol = carol
  dave = dave
  issue1 = issue1
  NoOne = NoOne
  ThisBounty = ThisBounty
  Token = {rrd}
  Address = {alice, bob, carol, dave}
  Issue = {issue1}
  MaxMilestones = 2
  Caller = {ThisBounty}
  Deployers = {carol}
  Amount = {1}
  MaxI128 = 9
  Funders = {alice}
  Workers = {bob}
  Wallet = 7
  MilestoneLists <- TwoLists
  Proposable <- Proposed
  RegistryChoices = {TRUE}
  MaxDisputes = 1
  MaxProposals = 2
  MaxPending = 1
  MaxExact = 4
  Number <- Doubles
CHECK_DEADLOCK FALSE
INVARIANTS
  BountyRowsFollowTheLedger
  SettlementsAreReconstructible
  DecisionsAreKnown
  ReputationIsNeverOverstated
  AnswersAreNeverAhead
  AnswersAgree
PROPERTY
  ImplementsEscrow
