\* A signer approves, leaves the signer set, and the approval still counts.
SPECIFICATION Spec
CONSTANTS
  alice = alice
  bob = bob
  carol = carol
  dave = dave
  erin = erin
  issue1 = issue1
  issue2 = issue2
  NoOne = NoOne
  ThisBounty = ThisBounty
  Token = {rrd}
  Address = {alice, bob, carol, dave, erin}
  Issue = {issue1}
  MaxMilestones = 1
  Caller = {ThisBounty}
  Deployers = {carol}
  Amount = {1}
  MaxI128 = 9
  Funders = {alice}
  Workers = {bob}
  Wallet = 1
  MilestoneLists <- Single
  Proposable <- Replacing
  RegistryChoices = {FALSE}
  MaxDisputes = 1
  MaxProposals = 3
CHECK_DEADLOCK FALSE
PROPERTY
  NoStaleApprovals
