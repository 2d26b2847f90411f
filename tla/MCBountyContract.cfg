\* Three proposals over two bounties, their panels and the signers.
SPECIFICATION Spec
CONSTANTS
  alice = alice
  bob = bob
  carol = carol
  dave = dave
  erin = erin
  issue1 = issue1
  issue2 = issue2
  NoOne = NoOne
  ThisBounty = ThisBounty
  Token = {rrd}
  Address = {alice, bob, carol}
  Issue = {issue1, issue2}
  MaxMilestones = 1
  Caller = {ThisBounty}
  Deployers = {alice}
  Amount = {1}
  MaxI128 = 9
  Funders = {alice}
  Workers = {bob}
  Wallet = 2
  MilestoneLists <- Single
  Proposable <- Governance
  RegistryChoices = {FALSE}
  MaxDisputes = 1
  MaxProposals = 3
SYMMETRY Interchangeable
CHECK_DEADLOCK FALSE
INVARIANTS
  NobodyIsLockedOut
PROPERTIES
  ProposalsDecideOnce
  DecisionsNeedProposals
