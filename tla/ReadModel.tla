----------------------------- MODULE ReadModel -----------------------------
(***************************************************************************)
(* The derived tables of src/backend/src/services/indexer.ts and the       *)
(* answers that src/backend/src/routes/api.ts composes from them and from  *)
(* reads of the ledger, over the contracts of BountyContract.tla.          *)
(*                                                                         *)
(* A transaction emits its events; `pending` are those not yet indexed.    *)
(* The code rebuilds a table by folding over the whole log; the fold is    *)
(* kept here as the table itself, advanced by the events that are indexed. *)
(* That the log misses nothing and that the rebuilds happen is the subject *)
(* of Indexer.tla.                                                         *)
(*                                                                         *)
(* Left out: transaction hashes and timestamps; bounty_released, an event  *)
(* of the first contract version that this one never emits; and writes to  *)
(* the registry by other contracts, although its admin may let them write. *)
(***************************************************************************)
EXTENDS BountyContract

CONSTANTS
  MaxPending,  \* bound: events not yet indexed when a transaction is made
  MaxExact,    \* the largest integer below which doubles are exact, scaled down
  Number       \* external: the double nearest to an i128

ASSUME MaxPendingIsNat == MaxPending \in Nat

ASSUME NumberAssumption ==
  /\ MaxExact \in 0..(MaxI128 - 1)
  /\ Number \in [0..MaxI128 -> Nat]
  /\ \A n \in 0..MaxExact : Number[n] = n
  /\ \A n, k \in 0..MaxI128 : n <= k => Number[n] <= Number[k]

VARIABLES
  view,     \* the derived tables
  pending   \* events of the contracts that no pass has stored yet

readVars == <<vars, view, pending>>

NoRow ==
  [funder |-> NoOne, contributor |-> NoOne, token |-> NoOne, amount |-> 0,
   released |-> FALSE, refunded |-> FALSE, released_amount |-> 0]

NoProposalRow ==
  [proposer |-> NoOne, approvals |-> <<>>, executed |-> FALSE, cancelled |-> FALSE]

Empty == [k \in {} |-> NoOne]

Lookup(table, key, default) == IF key \in DOMAIN table THEN table[key] ELSE default

-----------------------------------------------------------------------------
(* Events, in the order in which the contracts publish them.               *)

Event(topic, issue, m, who, n) ==
  [topic |-> topic, issue |-> issue, milestone |-> m, who |-> who, value |-> n]

\* record, then one record_review per approving reviewer.
PayoutEvents(issue, m) ==
  IF config # "with registry" THEN <<>>
  ELSE <<Event("contributor_recorded", issue, m, bounty[issue].contributor,
               bounty[issue].amounts[m])>>
       \o [k \in 1..Cardinality(Reviewed(issue, m, "Approve")) |->
             Event("review_recorded", issue, m,
                   SetToSeq(Reviewed(issue, m, "Approve"))[k], 1)]

LossEvents(d, pay) ==
  IF config # "with registry" \/ Loser(d, pay) = NoOne THEN <<>>
  ELSE <<Event("dispute_recorded", d.issue, d.milestone, Loser(d, pay), TRUE)>>

\* What execute_action publishes for an action that succeeds.
ActionEvents(a) ==
  CASE a.kind = "Release" ->
         PayoutEvents(a.issue, a.milestone)
           \o <<Event("milestone_released", a.issue, a.milestone,
                      bounty[a.issue].contributor,
                      [amount |-> bounty[a.issue].amounts[a.milestone],
                       released_amount |-> bounty'[a.issue].released_amount])>>
    [] a.kind = "Reclaim" ->
         <<Event("bounty_refunded", a.issue, 0, bounty[a.issue].funder, 0)>>
    [] a.kind = "SetReviewers" ->
         <<Event("reviewers_set", a.issue, 0, a.reviewers, a.quorum)>>
    [] a.kind = "ResolveDispute" ->
         (IF a.pay THEN PayoutEvents(dispute[a.id].issue, dispute[a.id].milestone)
          ELSE <<>>)
           \o LossEvents(dispute[a.id], a.pay)
           \o <<Event("dispute_resolved", dispute[a.id].issue, a.id, NoOne, a.pay)>>
    [] a.kind = "SetSigners" -> <<Event("signers_updated", NoOne, 0, NoOne, 0)>>

Execution(id) ==
  IF proposal'[id].executed
  THEN Append(ActionEvents(proposal'[id].action),
              Event("proposal_executed", NoOne, id, NoOne, 0))
  ELSE <<>>

-----------------------------------------------------------------------------
(* The rebuilds: each table after one more event.                          *)

ReleasedSoFar(row, e) == e.value.released_amount

Refunded_Open(row) == [row EXCEPT !.refunded = TRUE]   \* mutant of Refunded

Refunded(row) == [row EXCEPT !.released = TRUE, !.refunded = TRUE]

rebuildBountyState(t, e) ==
  LET row == Lookup(t, e.issue, NoRow)
  IN  CASE e.topic = "bounty_created" ->
             Put(t, e.issue, [row EXCEPT !.funder = e.who, !.token = e.value.token,
                                         !.amount = e.value.amount])
        [] e.topic = "contributor_claimed" ->
             Put(t, e.issue, [row EXCEPT !.contributor = e.who])
        [] e.topic = "milestone_released" ->
             Put(t, e.issue,
                 [row EXCEPT !.contributor = e.who,
                             !.released_amount = ReleasedSoFar(row, e),
                             !.released =
                               (Number[ReleasedSoFar(row, e)] >= Number[row.amount])])
        [] e.topic \in {"bounty_reclaimed", "bounty_refunded"} ->
             Put(t, e.issue, Refunded(row))
        [] OTHER -> t

\* Mutant of rebuildMilestones: every release under the first milestone.
rebuildMilestones_First(t, e) ==
  IF e.topic = "milestone_released" THEN Put(t, <<e.issue, 1>>, e.value.amount) ELSE t

rebuildMilestones(t, e) ==
  IF e.topic = "milestone_released"
  THEN Put(t, <<e.issue, e.milestone>>, e.value.amount) ELSE t

\* Rows are added and updated, and never removed when a panel is replaced.
rebuildReviewers(t, e) ==
  LET named == IF e.topic = "reviewers_set" THEN {e.issue} \X Members(e.who) ELSE {}
  IN  [k \in DOMAIN t \cup named |-> IF k \in named THEN e.value ELSE t[k]]

\* ON CONFLICT DO NOTHING.
rebuildReviews(t, e) ==
  IF e.topic = "review_submitted" /\ <<e.issue, e.milestone, e.who>> \notin DOMAIN t
  THEN Put(t, <<e.issue, e.milestone, e.who>>, e.value) ELSE t

FirstApprovals_None(proposer) == <<>>   \* mutant of FirstApprovals

\* "The contract records the proposer as the first approval."
FirstApprovals(proposer) == <<proposer>>

\* The id is in `milestone`.  No event tells of a revoked approval.
rebuildProposals(t, e) ==
  LET id == e.milestone
      row == Lookup(t, id, NoProposalRow)
  IN  CASE e.topic = "proposal_created" ->
             Put(t, id, [row EXCEPT !.proposer = e.who, !.approvals = FirstApprovals(e.who)])
        [] e.topic = "proposal_approved" ->
             Put(t, id, [row EXCEPT !.approvals =
                           IF e.who \in Members(@) THEN @ ELSE Append(@, e.who)])
        [] e.topic = "proposal_executed" -> Put(t, id, [row EXCEPT !.executed = TRUE])
        [] e.topic = "proposal_cancelled" -> Put(t, id, [row EXCEPT !.cancelled = TRUE])
        [] OTHER -> t

CountVote_Swapped(d, pay) ==   \* mutant of CountVote
  IF pay THEN [d EXCEPT !.votes_refund_funder = @ + 1]
  ELSE [d EXCEPT !.votes_pay_contributor = @ + 1]

CountVote(d, pay) ==
  IF pay THEN [d EXCEPT !.votes_pay_contributor = @ + 1]
  ELSE [d EXCEPT !.votes_refund_funder = @ + 1]

\* The id is in `milestone`, the milestone of a new dispute in `value`.
rebuildDisputes(t, e) ==
  CASE e.topic = "dispute_opened" ->
         Append(t, [issue |-> e.issue, milestone |-> e.value, opener |-> e.who,
                    votes_pay_contributor |-> 0, votes_refund_funder |-> 0,
                    resolved |-> FALSE, pay_contributor |-> FALSE])
    [] e.topic = "dispute_vote_cast" ->
         [t EXCEPT ![e.milestone] = CountVote(@, e.value)]
    [] e.topic = "dispute_resolved" ->
         [t EXCEPT ![e.milestone].resolved = TRUE, ![e.milestone].pay_contributor = e.value]
    [] OTHER -> t

RegistryTopics == {"contributor_recorded", "review_recorded", "dispute_recorded"}

\* Mutant of RepGuard: the guard forgets the milestone.
RepGuard_Issue(e) == <<e.who, e.issue>>

\* One key for the three kinds of record.
RepGuard(e) == <<e.who, e.issue, e.milestone>>

rebuildReputation(t, e) ==
  LET row == Lookup(t.rep, e.who, NoReputation)
  IN  IF e.topic \notin RegistryTopics \/ RepGuard(e) \in t.seen THEN t
      ELSE [seen |-> t.seen \cup {RepGuard(e)},
            rep |-> Put(t.rep, e.who,
              CASE e.topic = "contributor_recorded" ->
                     [row EXCEPT !.payouts = @ + 1, !.payout_total = @ + e.value]
                [] e.topic = "review_recorded" -> [row EXCEPT !.reviews_upheld = @ + 1]
                [] e.topic = "dispute_recorded" ->
                     [row EXCEPT !.disputes_opened = @ + 1,
                                 !.disputes_lost = IF e.value THEN @ + 1 ELSE @])]

rebuildReadModels(v, e) ==
  [bounties |-> rebuildBountyState(v.bounties, e),
   milestones |-> rebuildMilestones(v.milestones, e),
   reviewers |-> rebuildReviewers(v.reviewers, e),
   reviews |-> rebuildReviews(v.reviews, e),
   proposals |-> rebuildProposals(v.proposals, e),
   disputes |-> rebuildDisputes(v.disputes, e),
   reputation |-> rebuildReputation(v.reputation, e)]

\* The tables once everything emitted so far is indexed.
CaughtUp == FoldLeft(rebuildReadModels, view, pending)

-----------------------------------------------------------------------------
(* Transactions with their events, and the passes that index them.         *)

Emit(events) ==
  /\ Len(pending) <= MaxPending
  /\ pending' = pending \o events
  /\ UNCHANGED view

EmitUser ==
  \/ \E f \in Funders, t \in Token, i \in Issue, l \in MilestoneLists :
       /\ create_bounty(f, t, i, l)
       /\ Emit(<<Event("bounty_created", i, 0, f, [token |-> t, amount |-> Total(l)])>>)
  \/ \E i \in Issue, w \in Workers :
       claim(i, w) /\ Emit(<<Event("contributor_claimed", i, 0, w, 0)>>)
  \/ \E i \in Issue :
       reclaim(i) /\ Emit(<<Event("bounty_reclaimed", i, 0, bounty[i].funder, 0)>>)
  \/ \E v \in Address, i \in Issue, m \in Slot, d \in Decision :
       submit_review(v, i, m, d) /\ Emit(<<Event("review_submitted", i, m, v, d)>>)
  \/ \E a \in Address, i \in Issue, m \in Slot :
       /\ open_dispute(a, i, m)
       /\ Emit(<<Event("dispute_opened", i, Len(dispute) + 1, a, m)>>)
  \/ \E v \in Address, id \in 1..MaxDisputes, pay \in BOOLEAN :
       vote_on_dispute(v, id, pay) /\ Emit(<<Event("dispute_vote_cast", NoOne, id, v, pay)>>)

EmitGovernance ==
  \/ \E a \in Deployers, r \in RegistryChoices : init(a, r) /\ Emit(<<>>)
  \/ \E s \in Address, a \in Proposable :
       /\ propose(s, a)
       /\ Emit(<<Event("proposal_created", NoOne, Len(proposal) + 1, s, 0)>>
               \o Execution(Len(proposal) + 1))
  \/ \E s \in Address, id \in DOMAIN proposal :
       \/ /\ approve(s, id)
          /\ Emit(<<Event("proposal_approved", NoOne, id, s, 0)>> \o Execution(id))
       \/ revoke(s, id) /\ Emit(<<>>)
       \/ cancel(s, id) /\ Emit(<<Event("proposal_cancelled", NoOne, id, s, 0)>>)

\* The registry's init and set_allowed_caller publish nothing that is indexed.
EmitRegistry ==
  /\ Administer
  /\ UNCHANGED <<config, bounty, review, dispute, ballot, balance, paid, returned>>
  /\ UNCHANGED governanceVars
  /\ Emit(<<>>)

\* A pass stores the next events and rebuilds the tables; its page may end in
\* the middle of a transaction.
IndexEvents ==
  \E n \in 1..Len(pending) :
    /\ view' = FoldLeft(rebuildReadModels, view, SubSeq(pending, 1, n))
    /\ pending' = SubSeq(pending, n + 1, Len(pending))
    /\ UNCHANGED vars

ReadInit ==
  /\ Init
  /\ view = [bounties |-> Empty, milestones |-> Empty, reviewers |-> Empty,
             reviews |-> Empty, proposals |-> Empty, disputes |-> <<>>,
             reputation |-> [seen |-> {}, rep |-> Empty]]
  /\ pending = <<>>

ReadNext ==
  \/ EmitUser /\ UNCHANGED governanceVars
  \/ EmitGovernance
  \/ EmitRegistry
  \/ IndexEvents

ReadSpec == ReadInit /\ [][ReadNext]_readVars

-----------------------------------------------------------------------------
(* Answers of the API.                                                     *)

\* Reads of the ledger by simulation: of get_bounty, by both readers, none for
\* an unknown bounty; of the registry's stats and record, none for an account
\* that has none; of the signers, none before init.
readBounty(i) == IF i \in DOMAIN bounty THEN {bounty[i]} ELSE {}
readBountyV2(i) == IF i \in DOMAIN bounty THEN {bounty[i]} ELSE {}
readContributorStats(a) == IF reg.stats[a] # NoStats THEN {reg.stats[a]} ELSE {}
readReputation(a) == IF reg.rep[a] # NoReputation THEN {reg.rep[a]} ELSE {}
readSigners ==
  IF config = "uninitialised" THEN {} ELSE {[signers |-> signers, threshold |-> threshold]}
isContractInitialised == config # "uninitialised"

ReviewerRows(i) == {k \in DOMAIN view.reviewers : k[1] = i}

\* reviewers of GET /bounties/:issueId/milestones: the ledger's when it has any.
AnsweredReviewers(i) ==
  LET onChain == UNION {b.reviewers : b \in readBountyV2(i)}
  IN  IF onChain # {} THEN onChain ELSE {k[2] : k \in ReviewerRows(i)}

\* quorum: of the first row of the index in whatever order, else the ledger's.
AnsweredQuorums(i) ==
  IF ReviewerRows(i) # {} THEN {view.reviewers[k] : k \in ReviewerRows(i)}
  ELSE {b.reviewer_quorum : b \in readBountyV2(i)}

\* releasedTx: the milestones shown with the transaction that released them.
AnsweredReleases(i) == {m \in Slot : <<i, m>> \in DOMAIN view.milestones}

\* GET /disputes?open=true, and `disputed` of the milestones answer.
AnsweredOpenDisputes(i) ==
  {id \in DOMAIN view.disputes : view.disputes[id].issue = i /\ ~view.disputes[id].resolved}

\* GET /proposals/:id and GET /disputes/:id: the ledger's, or without a
\* configured contract the row of the index.
AnsweredProposal(id, configured) ==
  IF configured THEN proposal[id] ELSE view.proposals[id]
AnsweredDispute(id, configured) ==
  IF configured THEN dispute[id] ELSE view.disputes[id]

\* reputationScore, and score_of of the registry.
reputationScore(r) ==
  LET raw == 12 * r.payouts + 10 * r.reviews_upheld - 15 * r.disputes_lost
  IN  Max({0, Min({1000, raw})})

\* GET /reputation/:address: the registry's record when it can be reached and
\* has one, else the index.
AnsweredReputation(a, reachable) ==
  IF reachable /\ readReputation(a) # {} THEN readReputation(a)
  ELSE {view.reputation.rep[k] : k \in {a} \cap DOMAIN view.reputation.rep}

-----------------------------------------------------------------------------
(* Properties.                                                             *)

\* No row of a table, however late the table is, is about a bounty, a milestone, a
\* panel, a review or a decision that the ledger does not know.
ReadTypeOK ==
  /\ BountyTypeOK
  /\ DOMAIN view.bounties \subseteq DOMAIN bounty
  /\ DOMAIN view.milestones \subseteq paid
  /\ DOMAIN view.reviewers \subseteq (DOMAIN bounty) \X Address
  /\ DOMAIN view.reviews \subseteq DOMAIN review
  /\ DOMAIN view.proposals \subseteq DOMAIN proposal
  /\ DOMAIN view.disputes \subseteq DOMAIN dispute
  /\ \A a \in DOMAIN view.reputation.rep :
       view.reputation.rep[a] \in
         [payouts: Nat, payout_total: Nat, reviews_upheld: Nat,
          disputes_opened: Nat, disputes_lost: Nat]

PaidByDispute(i) ==
  {m \in Slot : \E id \in DOMAIN dispute :
     /\ dispute[id].issue = i /\ dispute[id].milestone = m
     /\ dispute[id].resolved /\ dispute[id].pay_contributor}

\* The bounties table has the terms, the payee and the refunds of the ledger;
\* it lags in the amount released, and in the closing, only by milestones that a
\* dispute paid, which publish no release, and is ahead in the closing only for
\* amounts that a double rounds (indexer.ts 190-245, lib.rs 1388).
BountyRowsFollowTheLedger ==
  LET rows == CaughtUp.bounties
  IN  /\ DOMAIN rows = DOMAIN bounty
      /\ \A i \in DOMAIN rows :
           /\ rows[i].funder = bounty[i].funder
           /\ rows[i].contributor = bounty[i].contributor
           /\ rows[i].token = bounty[i].token
           /\ rows[i].amount = bounty[i].amount
           /\ rows[i].refunded = bounty[i].refunded
           /\ rows[i].released => bounty[i].released \/ rows[i].amount > MaxExact
           /\ rows[i].released_amount = bounty[i].released_amount
                \/ (rows[i].released_amount < bounty[i].released_amount
                      /\ PaidByDispute(i) # {})
           /\ bounty[i].released /\ RefundedByDispute(i) \cup PaidByDispute(i) = {}
                => rows[i].released

\* Which milestones are settled, and how, can be read off three tables: those
\* released have a row, the others belong to resolved disputes or to a refunded
\* bounty; none is claimed by two of them (indexer.ts 292, 513, lib.rs 1061).
SettlementsAreReconstructible ==
  LET v == CaughtUp
      Rows(i) == {m \in Slot : <<i, m>> \in DOMAIN v.milestones}
      Decided(i, pay) ==
        {v.disputes[id].milestone : id \in {id \in DOMAIN v.disputes :
           /\ v.disputes[id].issue = i
           /\ v.disputes[id].resolved /\ v.disputes[id].pay_contributor = pay}}
  IN  \A i \in DOMAIN bounty :
        /\ Rows(i) \cap (Decided(i, TRUE) \cup Decided(i, FALSE)) = {}
        /\ Rows(i) \cup Decided(i, TRUE) = PaidMilestones(i)
        /\ ~v.bounties[i].refunded =>
             bounty[i].settled = Rows(i) \cup Decided(i, TRUE) \cup Decided(i, FALSE)

\* Reviews and disputes, votes included, are those of the ledger; the assigned
\* reviewers have rows with the quorum in force, whatever superseded rows are
\* still there (indexer.ts 332, 364, 513).
ReviewsAndDisputesAreExact ==
  /\ CaughtUp.reviews = review
  /\ CaughtUp.disputes = dispute
  /\ \A i \in DOMAIN bounty : \A v \in bounty[i].reviewers :
       /\ <<i, v>> \in DOMAIN CaughtUp.reviewers
       /\ CaughtUp.reviewers[<<i, v>>] = bounty[i].reviewer_quorum

\* The proposals table knows every proposal, its proposer and how it ended, and
\* of the approvals every one that stands: only revoked ones are there too much
\* (indexer.ts 405, lib.rs 573-597).
ProposalsAreKnown ==
  LET rows == CaughtUp.proposals
  IN  /\ DOMAIN rows = DOMAIN proposal
      /\ \A id \in DOMAIN rows :
           /\ rows[id].proposer = proposal[id].proposer
           /\ rows[id].executed = proposal[id].executed
           /\ rows[id].cancelled = proposal[id].cancelled
           /\ Members(proposal[id].approvals) \subseteq Members(rows[id].approvals)
           /\ NoDuplicates(rows[id].approvals)

\* What people decided, in reviews, disputes and proposals, is known.
DecisionsAreKnown == ReviewsAndDisputesAreExact /\ ProposalsAreKnown

\* No account has more payouts, upheld reviews or lost disputes in the index than
\* in the registry: one dedup key for three kinds of record keeps exactly one
\* record per account and milestone, the first.  The score is too high only if
\* the record that is missing is a lost dispute (indexer.ts 669, contributors
\* lib.rs 141).
ReputationIsNeverOverstated ==
  \A a \in Address :
    LET mine == Lookup(CaughtUp.reputation.rep, a, NoReputation)
        chain == reg.rep[a]
    IN  /\ mine.payouts <= chain.payouts
        /\ mine.reviews_upheld <= chain.reviews_upheld
        /\ mine.disputes_lost <= chain.disputes_lost
        /\ mine.payouts + mine.reviews_upheld + mine.disputes_opened
             = Cardinality(GuardsOf(reg.credited, a)
                 \cup GuardsOf(reg.review_credited, a)
                 \cup GuardsOf(reg.dispute_credited, a))
        /\ GuardsOf(reg.dispute_credited, a)
             \cap (GuardsOf(reg.credited, a) \cup GuardsOf(reg.review_credited, a)) = {}
             => reputationScore(mine) <= reputationScore(chain)

\* However late the index is, and wherever a page cut a transaction, no answer
\* is ahead of the ledger: a milestone shown as released has been paid, a
\* dispute or proposal shown as decided is decided, and an index used in place
\* of an unreachable registry credits no one too much, amounts beyond what a
\* double or an i128 holds excepted (api.ts 321-405, 600).
AnswersAreNeverAhead ==
  /\ \A i \in Issue : \A m \in AnsweredReleases(i) : <<i, m>> \in paid
  /\ \A i \in DOMAIN view.bounties : \E b \in readBounty(i) :
       view.bounties[i].released => b.released \/ b.amount > MaxExact
  /\ \A id \in DOMAIN view.disputes :
       AnsweredDispute(id, FALSE).resolved => dispute[id].resolved
  /\ \A id \in DOMAIN view.proposals :
       AnsweredProposal(id, FALSE).executed => proposal[id].executed
  /\ \A i \in Issue : pending = <<>> => AnsweredOpenDisputes(i) =
       {id \in DOMAIN dispute : dispute[id].issue = i /\ ~dispute[id].resolved}
  /\ \A a \in Address : \A r \in AnsweredReputation(a, FALSE) :
       \E live \in AnsweredReputation(a, TRUE) :
         r.payout_total <= live.payout_total \/ live.payout_total = MaxI128

\* Endpoints that answer the same question from different places agree: the
\* statistics and the reputation of a contributor, what the registry credits a
\* contributor and what their bounties paid out, and whether the contract is set
\* up and who may sign (api.ts 252-297, 405-420, 578-633).
AnswersAgree ==
  /\ \A a \in Address :
       readContributorStats(a) =
         {[count |-> r.payouts, total |-> r.payout_total] :
            r \in {r \in readReputation(a) : r.payouts > 0}}
  /\ config = "with registry" => \A i \in DOMAIN bounty : \A b \in readBounty(i) :
       b.released_amount > 0 =>
         \E s \in readContributorStats(b.contributor) : s.total >= b.released_amount
  /\ isContractInitialised <=> readSigners # {}
  /\ \A s \in readSigners : s.threshold \in 1..Cardinality(s.signers)

-----------------------------------------------------------------------------
(* What the documentation says and the code does not do.                   *)

\* "Endpoints under /api/bounties/:issueId/* [...] additionally reconcile
\* against the ledger via a simulated read, so a client can always tell whether
\* what it sees is confirmed on-chain" (api.ts 6-10): with the index caught up,
\* what the milestones answer marks as verified is what the ledger says.
VerifiedAnswersMatchTheLedger ==
  pending = <<>> => \A i \in DOMAIN bounty :
    /\ AnsweredReviewers(i) = bounty[i].reviewers
    /\ AnsweredQuorums(i) = {bounty[i].reviewer_quorum}
=============================================================================
