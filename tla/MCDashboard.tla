---------------------------- MODULE MCDashboard ----------------------------
(***************************************************************************)
(* TxRelay and Dashboard for TLC: every action once through every client   *)
(* that offers it, pairs of requests of one account that collide, and      *)
(* without a script a dashboard on the promise of the relay.               *)
(***************************************************************************)
EXTENDS TxRelay, Dashboard

CONSTANTS alice, bob, rrd, issue1, issue2, titles, two, nobody

Ask(action, extra) == [action |-> action, extra |-> extra]

VoteToPay == Ask("voteDispute", [reviewer |-> alice, disputeId |-> 1, payContributor |-> 1])
VoteToRefund == Ask("voteDispute", [reviewer |-> alice, disputeId |-> 1, payContributor |-> 0])
ApproveIt == Ask("approve", [signer |-> alice, proposalId |-> 1])
RevokeIt == Ask("revoke", [signer |-> alice, proposalId |-> 1])
ProposeIt == Ask("proposeRelease", [proposer |-> alice, issueId |-> issue1, milestone |-> 2])

Fund(n) == Ask("create", [funder |-> alice, token |-> rrd, amount |-> n, issueId |-> issue1])

Asked ==
  {VoteToPay, VoteToRefund, ApproveIt, RevokeIt, ProposeIt,
   Fund(7), Fund(9), Fund(-9),
   Ask("createBounty", [funder |-> alice, token |-> rrd, issueId |-> issue1, milestones |-> titles]),
   Ask("claim", [issueId |-> issue1, contributor |-> alice]),
   Ask("claim", [issueId |-> issue1, contributor |-> nobody]),
   Ask("reclaim", [issueId |-> issue1]),
   Ask("proposeReclaim", [proposer |-> alice, issueId |-> issue1]),
   Ask("proposeSetSigners", [proposer |-> alice, signers |-> two, threshold |-> 2]),
   Ask("proposeSetReviewers", [proposer |-> alice, issueId |-> issue1, reviewers |-> two, quorum |-> 1]),
   Ask("proposeResolveDispute", [proposer |-> alice, disputeId |-> 1, payContributor |-> 0]),
   Ask("cancel", [proposer |-> alice, proposalId |-> 1]),
   Ask("submitReview", [reviewer |-> alice, issueId |-> issue1, milestone |-> 1, decision |-> Reject]),
   Ask("submitReview", [reviewer |-> alice, issueId |-> issue1, milestone |-> 1, decision |-> Approve]),
   Ask("openDispute", [opener |-> alice, issueId |-> issue1, milestone |-> 1])}

\* What only a direct request sends: numbers that are cut, and too few fields.
Odd ==
  {Ask("approve", [signer |-> alice, proposalId |-> -1]),
   Ask("approve", [signer |-> alice, proposalId |-> 3]),
   Ask("create", [funder |-> alice, token |-> rrd, issueId |-> issue1]),
   Ask("proposeSetReviewers", [proposer |-> alice, issueId |-> issue1])}

Single == {<<<<alice, client, asked>>>> : client \in {"panel", "sdk", "direct"}, asked \in Asked}
            \cup {<<<<alice, "direct", asked>>>> : asked \in Odd}

Pairs == {<<<<alice, "panel", a>>, <<who, "panel", b>>>> :
            who \in {alice, bob}, a \in {VoteToPay}, b \in {VoteToPay, VoteToRefund}}
         \cup {<<<<alice, "panel", ApproveIt>>, <<alice, "panel", RevokeIt>>>>}

\* Without a script, a dashboard is opened.
EveryScript == Single \cup Pairs \cup {<<>>}

Builders == {<<<<alice, "lib", asked>>>> : asked \in Asked}

MCInit == RelayInit /\ DashInit

MCNext ==
  \/ RelayNext /\ UNCHANGED dashVars
  \/ script = <<>> /\ DashNext /\ UNCHANGED relayVars

MCSpec == MCInit /\ [][MCNext]_<<relayVars, dashVars>> /\ RelayFairness /\ DashFairness
=============================================================================
