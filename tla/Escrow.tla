------------------------------- MODULE Escrow -------------------------------
(***************************************************************************)
(* The settlement side of the bounty contract,                             *)
(* src/contracts/bounty/src/lib.rs: bounties, milestones, reviews,         *)
(* disputes, the token balances they move and the reputation writes that   *)
(* go with them.  Signers and proposals are in BountyContract.tla, which   *)
(* extends this module and decides WHEN execute_action runs; here it may   *)
(* run at any time, with any proposable action (a contract whose signers   *)
(* agree to anything).                                                     *)
(*                                                                         *)
(* Every action is one transaction.  Soroban rolls a transaction back as a *)
(* whole when it returns an error or a call inside it panics, so a failing *)
(* check, a transfer without the balance for it and a registry that        *)
(* rejects a write all disable the action.                                 *)
(*                                                                         *)
(* `bounty`, `review` and `ballot` are persistent storage: functions whose *)
(* domain is the set of keys stored so far.  The milestones of a bounty    *)
(* are its list of amounts and the set of settled positions.               *)
(***************************************************************************)
EXTENDS ReputationRegistry, Sequences, SequencesExt

CONSTANTS
  Token,           \* token contracts
  ThisBounty,      \* the bounty contract: its account and its caller identity
  Funders,         \* accounts that create bounties
  Workers,         \* accounts that claim bounties
  Wallet,          \* initial balance of every funder, per token
  MilestoneLists,  \* milestone amounts that create_bounty is called with
  Proposable,      \* actions that signers propose
  RegistryChoices, \* what `init` may be given: TRUE is a registry address
  MaxDisputes      \* bound: disputes opened

Account == Address \cup {ThisBounty}

EscrowAction ==
  [kind: {"Release"}, issue: Issue, milestone: Slot]
    \cup [kind: {"Reclaim"}, issue: Issue]
    \cup [kind: {"SetReviewers"}, issue: Issue, reviewers: Seq(Address), quorum: Nat]
    \cup [kind: {"ResolveDispute"}, id: Nat, pay: BOOLEAN]

\* SetSigners(signers, threshold), executed in BountyContract.tla.
SignerAction == [kind: {"SetSigners"}, signers: Seq(Address), threshold: Nat]

\* create_bounty adds the amounts with saturating_add.
Total(amounts) == FoldSeq(SatAdd, 0, amounts)

ASSUME EscrowConstants ==
  /\ ThisBounty \in Caller
  /\ ThisBounty \notin Address
  /\ Funders \subseteq Address
  /\ Workers \subseteq Address
  /\ Wallet \in 0..MaxI128
  /\ MilestoneLists \subseteq Seq(1..MaxI128)
  /\ \A l \in MilestoneLists : Len(l) \in Slot
  /\ Proposable \subseteq EscrowAction \cup SignerAction
  /\ RegistryChoices \subseteq BOOLEAN
  /\ MaxDisputes \in Nat

VARIABLES
  config,   \* has `init` run, and with a registry or without
  bounty,   \* Bounty(issue)
  review,   \* Review(issue, milestone, reviewer) |-> its decision
  dispute,  \* Dispute(id), ids 1, 2, ... in the order of opening
  ballot,   \* DisputeVote(id, reviewer) |-> pay_contributor
  balance,  \* external: the balances the token contracts keep
  paid,     \* history: <<issue, milestone>> transferred to a contributor
  returned  \* history: amount transferred to the funder, per issue

escrowVars == <<config, bounty, review, dispute, ballot, balance, paid, returned, reg>>

Bounty ==
  [funder: Address, contributor: Address \cup {NoOne}, token: Token,
   amounts: MilestoneLists, amount: 1..MaxI128, settled: SUBSET Slot,
   released: BOOLEAN, refunded: BOOLEAN, released_amount: 0..MaxI128,
   reviewers: SUBSET Address, reviewer_quorum: Nat]

Dispute ==
  [issue: Issue, milestone: Slot, opener: Address,
   votes_pay_contributor: Nat, votes_refund_funder: Nat,
   resolved: BOOLEAN, pay_contributor: BOOLEAN]

Decision == {"Approve", "Reject"}

-----------------------------------------------------------------------------
(* Helpers of the contract.                                                *)

\* storage().set(key, value): the store f with `key` written.
Put(f, key, value) ==
  [k \in DOMAIN f \cup {key} |-> IF k = key THEN value ELSE f[k]]

Members(v) == {v[k] : k \in DOMAIN v}

\* Mutant of NoDuplicates: `seen` is never filled.
NoDuplicates_Unseen(v) == TRUE

NoDuplicates(v) == \A j, k \in DOMAIN v : v[j] = v[k] => j = k

Milestones(b) == DOMAIN b.amounts

\* Mutant of remaining_escrow: earlier releases forgotten.
remaining_escrow_Whole(b) == b.amount

remaining_escrow(b) == b.amount - b.released_amount

\* Mutants of Settle: all_settled before the update, the update not stored, and
\* a position taken for an index.
Settle_Early(b, ms) ==
  [b EXCEPT !.settled = @ \cup ms, !.released = (Milestones(b) \subseteq b.settled)]
Settle_Unstored(b, ms) == [b EXCEPT !.released = (Milestones(b) \subseteq b.settled \cup ms)]
Settle_Next(b, ms) == [b EXCEPT !.settled = @ \cup {m + 1 : m \in ms}]

\* Milestones ms settled; `released` once all of them are.
Settle(b, ms) ==
  [b EXCEPT !.settled = @ \cup ms, !.released = (Milestones(b) \subseteq b.settled \cup ms)]

\* Mutant of Pay: released_amount is not raised.
Pay_Uncounted(b, m) == Settle(b, {m})

\* Milestone m settled in favour of the contributor.
Pay(b, m) == [Settle(b, {m}) EXCEPT !.released_amount = SatAdd(@, b.amounts[m])]

\* Mutant of OpenDisputes: the loop stops one short of the newest dispute.
OpenDisputes_ButLast(issue, m) ==
  {id \in 1..(Len(dispute) - 1) :
     /\ ~dispute[id].resolved
     /\ dispute[id].issue = issue
     /\ dispute[id].milestone = m}

OpenDisputes(issue, m) ==
  {id \in DOMAIN dispute :
     /\ ~dispute[id].resolved
     /\ dispute[id].issue = issue
     /\ dispute[id].milestone = m}

\* find_open_dispute(..).is_some() and has_open_dispute(..)
Disputed(issue, m) == OpenDisputes(issue, m) # {}

\* Mutant of HasOpenDispute: only the first milestone is looked at.
HasOpenDispute_First(issue) == Disputed(issue, 1)

HasOpenDispute(issue) == \E m \in Slot : Disputed(issue, m)

AlreadyVoted_Never(reviewer, id) == FALSE   \* mutant of AlreadyVoted

AlreadyVoted(reviewer, id) == <<id, reviewer>> \in DOMAIN ballot

\* Mutant of Reviewed: any stored review counts.
Reviewed_Either(issue, m, decision) ==
  {v \in bounty[issue].reviewers : <<issue, m, v>> \in DOMAIN review}

\* The assigned reviewers of a milestone whose stored decision is `decision`.
Reviewed(issue, m, decision) ==
  {v \in bounty[issue].reviewers :
     /\ <<issue, m, v>> \in DOMAIN review
     /\ review[<<issue, m, v>>] = decision}

Transfer(token, from, to, n) ==
  /\ balance[token][from] >= n
  /\ balance' = [balance EXCEPT ![token][from] = @ - n, ![token][to] = @ + n]

\* Mutant of PayoutReputation: record is never called.
PayoutReputation_Reviews(r, issue, m) ==
  IF config = "with registry"
  THEN ReviewsRecorded(r, Reviewed(issue, m, "Approve"), issue, m)
  ELSE r

\* record_payout, then record_upheld_reviews: nothing without a registry.
PayoutReputation(r, issue, m) ==
  IF config = "with registry"
  THEN ReviewsRecorded(
         Recorded(r, bounty[issue].contributor, issue, m, bounty[issue].amounts[m]),
         Reviewed(issue, m, "Approve"), issue, m)
  ELSE r

PayoutReputationAllowed(issue, m) ==
  config = "with registry" =>
    /\ RecordAllowed(reg, ThisBounty, bounty[issue].contributor, issue, m)
    /\ ReviewsAllowed(reg, ThisBounty, Reviewed(issue, m, "Approve"), issue, m)

\* Mutant of Loser: whoever opened the dispute.
Loser_AnyOpener(d, pay) ==
  IF pay THEN bounty[d.issue].funder ELSE bounty[d.issue].contributor

\* The party whose position the resolution rejects, or NoOne.
Loser(d, pay) ==
  LET b == bounty[d.issue]
  IN  IF d.opener = b.funder /\ pay THEN b.funder
      ELSE IF d.opener = b.contributor /\ ~pay THEN b.contributor
      ELSE NoOne

DisputeReputation(r, d, pay) ==
  IF config = "with registry" /\ Loser(d, pay) # NoOne
  THEN DisputeRecorded(r, Loser(d, pay), d.issue, d.milestone, TRUE)
  ELSE r

DisputeReputationAllowed(d, pay) ==
  config = "with registry" /\ Loser(d, pay) # NoOne =>
    DisputeAllowed(reg, ThisBounty, Loser(d, pay), d.issue, d.milestone)

-----------------------------------------------------------------------------
(* Entry points that no proposal is needed for.                            *)

\* Mutant of InitContract: a second call goes through.
InitContract_Again(registry) ==
  /\ config' = IF registry THEN "with registry" ELSE "without registry"
  /\ UNCHANGED <<bounty, review, dispute, ballot, balance, paid, returned, reg>>

InitContract(registry) ==
  /\ config = "uninitialised"
  /\ config' = IF registry THEN "with registry" ELSE "without registry"
  /\ UNCHANGED <<bounty, review, dispute, ballot, balance, paid, returned, reg>>

create_bounty(funder, token, issue, amounts) ==
  /\ config # "uninitialised"
  /\ issue \notin DOMAIN bounty
  /\ bounty' = Put(bounty, issue,
       [funder |-> funder, contributor |-> NoOne, token |-> token,
        amounts |-> amounts, amount |-> Total(amounts), settled |-> {},
        released |-> FALSE, refunded |-> FALSE, released_amount |-> 0,
        reviewers |-> {}, reviewer_quorum |-> 0])
  /\ Transfer(token, funder, ThisBounty, Total(amounts))
  /\ UNCHANGED <<config, review, dispute, ballot, paid, returned, reg>>

\* Mutant of claim: a later claim replaces the first.
claim_Replaces(issue, contributor) ==
  /\ issue \in DOMAIN bounty
  /\ ~bounty[issue].released
  /\ bounty' = [bounty EXCEPT ![issue].contributor = contributor]
  /\ UNCHANGED <<config, review, dispute, ballot, balance, paid, returned, reg>>

\* A second claim by the same account returns Ok and writes nothing.
claim(issue, contributor) ==
  /\ issue \in DOMAIN bounty
  /\ ~bounty[issue].released
  /\ bounty[issue].contributor = NoOne
  /\ bounty' = [bounty EXCEPT ![issue].contributor = contributor]
  /\ UNCHANGED <<config, review, dispute, ballot, balance, paid, returned, reg>>

\* What reclaim and apply_reclaim do once their checks have passed.
RefundRemaining(issue) ==
  LET b == bounty[issue]
  IN  /\ bounty' = [bounty EXCEPT ![issue] =
                      [b EXCEPT !.settled = Milestones(b), !.released = TRUE,
                                !.refunded = TRUE]]
      /\ Transfer(b.token, ThisBounty, b.funder, remaining_escrow(b))
      /\ returned' = [returned EXCEPT ![issue] = @ + remaining_escrow(b)]
      /\ UNCHANGED <<config, review, dispute, ballot, paid, reg>>

reclaim(issue) ==
  /\ issue \in DOMAIN bounty
  /\ ~bounty[issue].released
  /\ bounty[issue].contributor = NoOne
  /\ bounty[issue].released_amount = 0
  /\ ~HasOpenDispute(issue)
  /\ RefundRemaining(issue)

submit_review(reviewer, issue, m, decision) ==
  /\ issue \in DOMAIN bounty
  /\ ~bounty[issue].released
  /\ reviewer \in bounty[issue].reviewers
  /\ m \in Milestones(bounty[issue]) \ bounty[issue].settled
  /\ <<issue, m, reviewer>> \notin DOMAIN review
  /\ review' = Put(review, <<issue, m, reviewer>>, decision)
  /\ UNCHANGED <<config, bounty, dispute, ballot, balance, paid, returned, reg>>

open_dispute(opener, issue, m) ==
  /\ Len(dispute) < MaxDisputes
  /\ issue \in DOMAIN bounty
  /\ ~bounty[issue].released
  /\ opener \in {bounty[issue].funder, bounty[issue].contributor}
  /\ m \in Milestones(bounty[issue]) \ bounty[issue].settled
  /\ ~Disputed(issue, m)
  /\ dispute' = Append(dispute,
       [issue |-> issue, milestone |-> m, opener |-> opener,
        votes_pay_contributor |-> 0, votes_refund_funder |-> 0,
        resolved |-> FALSE, pay_contributor |-> FALSE])
  /\ UNCHANGED <<config, bounty, review, ballot, balance, paid, returned, reg>>

vote_on_dispute(reviewer, id, pay) ==
  /\ id \in DOMAIN dispute
  /\ ~dispute[id].resolved
  /\ dispute[id].issue \in DOMAIN bounty
  /\ reviewer \in bounty[dispute[id].issue].reviewers
  /\ ~AlreadyVoted(reviewer, id)
  /\ ballot' = Put(ballot, <<id, reviewer>>, pay)
  /\ dispute' = IF pay
                THEN [dispute EXCEPT ![id].votes_pay_contributor = @ + 1]
                ELSE [dispute EXCEPT ![id].votes_refund_funder = @ + 1]
  /\ UNCHANGED <<config, bounty, review, balance, paid, returned, reg>>

-----------------------------------------------------------------------------
(* execute_action: what an approved proposal does.                         *)

apply_release(issue, m) ==
  /\ issue \in DOMAIN bounty
  /\ LET b == bounty[issue]
     IN  /\ ~b.released
         /\ b.contributor # NoOne
         /\ m \in Milestones(b) \ b.settled
         /\ ~Disputed(issue, m)
         /\ b.reviewers # {} =>
              Cardinality(Reviewed(issue, m, "Approve")) >= b.reviewer_quorum
         /\ bounty' = [bounty EXCEPT ![issue] = Pay(b, m)]
         /\ Transfer(b.token, ThisBounty, b.contributor, b.amounts[m])
  /\ PayoutReputationAllowed(issue, m)
  /\ reg' = PayoutReputation(reg, issue, m)
  /\ paid' = paid \cup {<<issue, m>>}
  /\ UNCHANGED <<config, review, dispute, ballot, returned>>

apply_reclaim(issue) ==
  /\ issue \in DOMAIN bounty
  /\ ~bounty[issue].released
  /\ ~HasOpenDispute(issue)
  /\ remaining_escrow(bounty[issue]) > 0
  /\ RefundRemaining(issue)

apply_set_reviewers(issue, reviewers, quorum) ==
  /\ issue \in DOMAIN bounty
  /\ ~bounty[issue].released
  /\ NoDuplicates(reviewers)
  /\ IF reviewers = <<>> THEN quorum = 0 ELSE quorum \in 1..Len(reviewers)
  /\ bounty' = [bounty EXCEPT ![issue].reviewers = Members(reviewers),
                              ![issue].reviewer_quorum = quorum]
  /\ UNCHANGED <<config, review, dispute, ballot, balance, paid, returned, reg>>

\* The checks of apply_resolve_dispute.
Resolvable(id, pay) ==
  /\ id \in DOMAIN dispute
  /\ LET d == dispute[id]
         b == bounty[d.issue]
     IN  /\ ~d.resolved
         /\ d.issue \in DOMAIN bounty
         /\ d.milestone \in Milestones(b) \ b.settled
         /\ b.reviewers # {} =>
              (IF pay THEN d.votes_pay_contributor ELSE d.votes_refund_funder)
                >= b.reviewer_quorum
         /\ pay => b.contributor # NoOne

ResolutionRecorded(id, pay) ==
  dispute' = [dispute EXCEPT ![id].resolved = TRUE, ![id].pay_contributor = pay]

\* apply_resolve_dispute(id, true)
ResolveByPaying(id) ==
  LET d == dispute[id]
      b == bounty[d.issue]
      m == d.milestone
  IN  /\ Resolvable(id, TRUE)
      /\ bounty' = [bounty EXCEPT ![d.issue] = Pay(b, m)]
      /\ ResolutionRecorded(id, TRUE)
      /\ Transfer(b.token, ThisBounty, b.contributor, b.amounts[m])
      /\ PayoutReputationAllowed(d.issue, m)
      /\ DisputeReputationAllowed(d, TRUE)
      /\ reg' = DisputeReputation(PayoutReputation(reg, d.issue, m), d, TRUE)
      /\ paid' = paid \cup {<<d.issue, m>>}
      /\ UNCHANGED <<config, review, ballot, returned>>

\* apply_resolve_dispute(id, false)
ResolveByRefunding(id) ==
  LET d == dispute[id]
      b == bounty[d.issue]
      m == d.milestone
  IN  /\ Resolvable(id, FALSE)
      /\ bounty' = [bounty EXCEPT ![d.issue] = Settle(b, {m})]
      /\ ResolutionRecorded(id, FALSE)
      /\ Transfer(b.token, ThisBounty, b.funder, b.amounts[m])
      /\ DisputeReputationAllowed(d, FALSE)
      /\ reg' = DisputeReputation(reg, d, FALSE)
      /\ returned' = [returned EXCEPT ![d.issue] = @ + b.amounts[m]]
      /\ UNCHANGED <<config, review, ballot, paid>>

execute_action(action) ==
  \/ action.kind = "Release" /\ apply_release(action.issue, action.milestone)
  \/ action.kind = "Reclaim" /\ apply_reclaim(action.issue)
  \/ /\ action.kind = "SetReviewers"
     /\ apply_set_reviewers(action.issue, action.reviewers, action.quorum)
  \/ action.kind = "ResolveDispute" /\ action.pay /\ ResolveByPaying(action.id)
  \/ action.kind = "ResolveDispute" /\ ~action.pay /\ ResolveByRefunding(action.id)

-----------------------------------------------------------------------------
EscrowInit ==
  /\ config = "uninitialised"
  /\ bounty = [i \in {} |-> NoOne]
  /\ review = [k \in {} |-> NoOne]
  /\ dispute = <<>>
  /\ ballot = [k \in {} |-> NoOne]
  /\ balance = [t \in Token |-> [a \in Account |-> IF a \in Funders THEN Wallet ELSE 0]]
  /\ paid = {}
  /\ returned = [i \in Issue |-> 0]
  /\ RegInit

\* Transactions of users, with no proposal behind them.
UserStep ==
  \/ \E f \in Funders, t \in Token, i \in Issue, l \in MilestoneLists :
       create_bounty(f, t, i, l)
  \/ \E i \in Issue, w \in Workers : claim(i, w)
  \/ \E i \in Issue : reclaim(i)
  \/ \E v \in Address, i \in Issue, m \in Slot, d \in Decision : submit_review(v, i, m, d)
  \/ \E a \in Address, i \in Issue, m \in Slot : open_dispute(a, i, m)
  \/ \E v \in Address, id \in 1..MaxDisputes, pay \in BOOLEAN : vote_on_dispute(v, id, pay)

\* The registry's admin and the other contracts it may let write.
RegistryStep ==
  /\ Administer \/ (\E c \in Caller \ {ThisBounty} : Write(c))
  /\ UNCHANGED <<config, bounty, review, dispute, ballot, balance, paid, returned>>

EscrowNext ==
  \/ \E r \in RegistryChoices : InitContract(r)
  \/ UserStep
  \/ \E a \in Proposable : config # "uninitialised" /\ execute_action(a)
  \/ RegistryStep

EscrowSpec == EscrowInit /\ [][EscrowNext]_escrowVars

-----------------------------------------------------------------------------
(* What the refunds of resolved disputes and the payments add up to.       *)

SumOf(issue, ms) == SumFunctionOnSet(bounty[issue].amounts, ms)

PaidMilestones(issue) == {m \in Slot : <<issue, m>> \in paid}

RefundedByDispute(issue) ==
  {m \in Slot : \E id \in DOMAIN dispute :
     /\ dispute[id].issue = issue /\ dispute[id].milestone = m
     /\ dispute[id].resolved /\ ~dispute[id].pay_contributor}

\* The fate of one milestone's money, as Settlement.tla sees it.  A reclaim
\* refunds a second time what disputes have refunded before it.
Fate(issue, m) ==
  IF issue \notin DOMAIN bounty THEN "absent"
  ELSE IF m \notin Milestones(bounty[issue]) THEN "absent"
  ELSE IF <<issue, m>> \in paid THEN "paid"
  ELSE IF m \in bounty[issue].settled THEN
    IF bounty[issue].refunded /\ m \in RefundedByDispute(issue) THEN "refunded twice"
    ELSE "refunded"
  ELSE IF Disputed(issue, m) THEN "disputed"
  ELSE "held"

Worth(amounts, ms) == SatAdd(0, SumFunctionOnSet(amounts, ms))

Settlement == INSTANCE Settlement
  WITH fate  <- [k \in Issue \X Slot |-> Fate(k[1], k[2])],
       terms <- [i \in DOMAIN bounty |->
                   [token |-> bounty[i].token, amounts |-> bounty[i].amounts,
                    locked |-> bounty[i].amount]],
       funds <- [t \in Token |-> balance[t][ThisBounty]]

-----------------------------------------------------------------------------
(* Properties.                                                             *)

EscrowTypeOK ==
  /\ config \in {"uninitialised", "with registry", "without registry"}
  /\ DOMAIN bounty \subseteq Issue
  /\ bounty \in [DOMAIN bounty -> Bounty]
  /\ DOMAIN review \subseteq Issue \X Slot \X Address
  /\ review \in [DOMAIN review -> Decision]
  /\ dispute \in Seq(Dispute)
  /\ DOMAIN ballot \subseteq Nat \X Address
  /\ ballot \in [DOMAIN ballot -> BOOLEAN]
  /\ balance \in [Token -> [Account -> Nat]]
  /\ paid \subseteq Issue \X Slot
  /\ returned \in [Issue -> Nat]
  /\ RegTypeOK

\* An unresolved dispute holds its milestone: it is not settled and its bounty
\* is not closed, by release, by either reclaim or by another resolution, so a
\* dispute can always still be decided (lib.rs 767, 1258, 1309, 1354).
OpenDisputeHoldsMilestone ==
  \A id \in DOMAIN dispute : ~dispute[id].resolved =>
    /\ dispute[id].issue \in DOMAIN bounty
    /\ ~bounty[dispute[id].issue].released
    /\ dispute[id].milestone
         \in Milestones(bounty[dispute[id].issue]) \ bounty[dispute[id].issue].settled

\* At most one dispute is open on a milestone, across reopenings (lib.rs 899).
OneOpenDispute ==
  \A i \in Issue, m \in Slot : \A j, k \in OpenDisputes(i, m) : j = k

\* `released` says that every milestone is settled, no more and no less, after
\* any mix of releases, resolutions and reclaims (lib.rs 162-163).
ReleasedMeansAllSettled ==
  \A i \in DOMAIN bounty :
    /\ bounty[i].settled \subseteq Milestones(bounty[i])
    /\ bounty[i].released <=> (bounty[i].settled = Milestones(bounty[i]))

\* Nothing is paid twice: what was paid is settled (lib.rs 1061-1075).
PaidAreSettled ==
  \A k \in paid : k[1] \in DOMAIN bounty /\ k[2] \in bounty[k[1]].settled

\* The settlement of every bounty is sound, whatever disputes are opened,
\* decided and opened again between releases and reclaims.
SettlementInv ==
  /\ OpenDisputeHoldsMilestone
  /\ OneOpenDispute
  /\ ReleasedMeansAllSettled
  /\ PaidAreSettled

\* `released_amount` is the sum of what the contributor received, each
\* milestone once, up to the largest i128, and the funder received the refunds
\* of the disputes plus, if the bounty was reclaimed, everything not released
\* (lib.rs 154-174, 1061).
AccountsExact ==
  \A i \in DOMAIN bounty :
    /\ bounty[i].released_amount = SatAdd(0, SumOf(i, PaidMilestones(i)))
    /\ returned[i] = SumOf(i, RefundedByDispute(i))
                       + (IF bounty[i].refunded
                          THEN bounty[i].amount - bounty[i].released_amount ELSE 0)

\* The escrow holds, in every token, what was locked minus what AccountsExact
\* says has left: no transfer is missing, doubled or in another token.
EscrowBalanced ==
  \A t \in Token :
    LET issues == {i \in DOMAIN bounty : bounty[i].token = t}
        locked == [i \in issues |-> bounty[i].amount]
        left   == [i \in issues |-> returned[i] + SumOf(i, PaidMilestones(i))]
    IN  balance[t][ThisBounty] + SumFunction(left) = SumFunction(locked)

\* The books agree, per bounty and per token, to the last unit.
BooksBalance == AccountsExact /\ EscrowBalanced

\* The votes counted on a dispute are the ballots stored for it, one for each
\* reviewer who ever voted, on the side that was voted for (lib.rs 950-961).
VotesMatchBallots ==
  \A id \in DOMAIN dispute :
    LET For(pay) == {v \in Address : <<id, v>> \in DOMAIN ballot /\ ballot[<<id, v>>] = pay}
    IN  /\ dispute[id].votes_pay_contributor = Cardinality(For(TRUE))
        /\ dispute[id].votes_refund_funder = Cardinality(For(FALSE))

\* A quorum asks for no more approvals than there are distinct reviewers to
\* give them, and is zero only without reviewers (lib.rs 1210-1225).
QuorumReachable ==
  \A i \in DOMAIN bounty :
    /\ bounty[i].reviewer_quorum <= Cardinality(bounty[i].reviewers)
    /\ bounty[i].reviewer_quorum = 0 <=> bounty[i].reviewers = {}

\* A closed bounty is never touched again and moves no more money, by any entry
\* point, and its terms are fixed from the start: funder, token and amounts at
\* creation, the contributor at the first claim (lib.rs 735-740, 757, 1244).
ClosedAndAgreedTermsAreFinal ==
  [][\A i \in DOMAIN bounty :
       /\ i \in DOMAIN bounty'
       /\ bounty[i].released => bounty'[i] = bounty[i] /\ returned'[i] = returned[i]
       /\ bounty'[i].amounts = bounty[i].amounts
       /\ bounty'[i].token = bounty[i].token
       /\ bounty'[i].funder = bounty[i].funder
       /\ bounty'[i].contributor \in
            IF bounty[i].contributor = NoOne THEN Workers \cup {NoOne}
            ELSE {bounty[i].contributor}
    ]_escrowVars

\* Money leaves the escrow only to the funder or the claimed contributor of a
\* bounty that this transaction settles milestones of (lib.rs 781, 1287, 1325,
\* 1395, 1413).
MoneyGoesOnlyToParties ==
  [][\A t \in Token, a \in Address : balance'[t][a] > balance[t][a] =>
       \E i \in DOMAIN bounty :
         /\ bounty[i].token = t
         /\ bounty'[i].settled # bounty[i].settled
         /\ a = IF \E m \in Slot : <<i, m>> \in paid' \ paid
                THEN bounty[i].contributor ELSE bounty[i].funder
    ]_escrowVars

\* The escrow's own balances move only with the fate of milestones and by just
\* their worth, whatever bounties share a token: what is paid leaves once,
\* what is disputed moves only by the resolution, and the one thing that leaves
\* twice is what a dispute refunded before a reclaim (lib.rs 767, 1061, 1309-1325).
MoneyMovesWithFate == Settlement!Spec

\* With this contract the only allowed writer, the registry credits exactly the
\* milestones paid here, to the account that was paid, with the sum of what was
\* paid, up to the largest i128, and an upheld review only for an approval of a paid milestone
\* (lib.rs 1467-1520).
ReputationBackedByEscrow ==
  config = "with registry" =>
    /\ reg.credited = {<<bounty[k[1]].contributor, k[1], k[2]>> : k \in paid}
    /\ \A a \in Address : reg.rep[a].payout_total =
         SatAdd(0, SumFunction([g \in GuardsOf(reg.credited, a) |->
                                  bounty[g[2]].amounts[g[3]]]))
    /\ \A g \in reg.review_credited :
         /\ <<g[2], g[3]>> \in paid
         /\ review[<<g[2], g[3], g[1]>>] = "Approve"

\* Whatever the registry's admin does in between (late initialisation, rotation
\* to another contract and back), no milestone is paid without its credit: the
\* registry call is atomic with the settlement (lib.rs 1467-1471).
PayoutsAreCredited ==
  config = "with registry" =>
    \A k \in paid : <<bounty[k[1]].contributor, k[1], k[2]>> \in reg.credited

\* A dispute is credited as lost only to the party that opened it, and only
\* with the outcome going against that party (lib.rs 1416-1427).
LosersOpenedTheirDispute ==
  \A g \in reg.dispute_credited : \E id \in DOMAIN dispute :
    LET d == dispute[id]
    IN  /\ <<d.opener, d.issue, d.milestone>> = g
        /\ d.resolved
        /\ d.opener = IF d.pay_contributor THEN bounty[d.issue].funder
                      ELSE bounty[d.issue].contributor

\* Every entry of the registry, good or bad, was earned in this escrow.
ReputationIsEarned == ReputationBackedByEscrow /\ LosersOpenedTheirDispute

-----------------------------------------------------------------------------
(* What the documentation says and the code does not do.                   *)

\* "Refund the remaining escrow to the funder" (lib.rs 1303): a reclaim returns
\* what is still in escrow for the bounty, so a bounty never pays out more than
\* was locked for it.
NoOverdraft ==
  \A i \in DOMAIN bounty :
    returned[i] + SumOf(i, PaidMilestones(i)) <= bounty[i].amount

\* "The outcome must be backed by the reviewer quorum (when reviewers are
\* configured)" (lib.rs 1338): a quorum of the bounty's reviewers voted for it.
ResolutionBackedByReviewers ==
  [][\A id \in DOMAIN dispute : ~dispute[id].resolved /\ dispute'[id].resolved =>
       LET b == bounty[dispute[id].issue]
       IN  Cardinality({v \in b.reviewers :
              /\ <<id, v>> \in DOMAIN ballot
              /\ ballot[<<id, v>>] = dispute'[id].pay_contributor}) >= b.reviewer_quorum
    ]_escrowVars
=============================================================================
