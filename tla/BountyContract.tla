--------------------------- MODULE BountyContract ---------------------------
(***************************************************************************)
(* The whole bounty contract, src/contracts/bounty/src/lib.rs: the escrow  *)
(* of Escrow.tla under its multisig governance.  Nobody executes an action *)
(* directly: it runs inside the propose or approve transaction that brings *)
(* its proposal to the threshold, and an action that fails rolls that      *)
(* transaction back, the proposal or approval with it.                     *)
(*                                                                         *)
(* The signer vector is kept as the set of its members: it is stored only  *)
(* without duplicates and its order is never read.  The approvals of a     *)
(* proposal stay a sequence, because their number is what is compared.     *)
(***************************************************************************)
EXTENDS Escrow

CONSTANT MaxProposals    \* bound: proposals created

ASSUME MaxProposalsIsNat == MaxProposals \in Nat

VARIABLES
  signers,    \* the current signer set
  threshold,  \* approvals an action needs
  proposal    \* Proposal(id), ids 1, 2, ... in the order of creation

governanceVars == <<signers, threshold, proposal>>
vars == <<escrowVars, governanceVars>>

Proposal ==
  [action: Proposable, proposer: Address, approvals: Seq(Address),
   executed: BOOLEAN, cancelled: BOOLEAN]

Open_Cancelled(p) == ~p.executed   \* mutant of Open

Open(p) == ~p.executed /\ ~p.cancelled

\* Mutant of HasApproved: only the proposer is remembered.
HasApproved_Proposer(p, signer) == signer = p.proposer

HasApproved(p, signer) == signer \in Members(p.approvals)

\* Mutant of Reached: off by one.
Reached_Early(p) == Len(p.approvals) + 1 >= threshold

\* The current threshold, and approvals of whoever gave them.
Reached(p) == Len(p.approvals) >= threshold

\* The loop of revoke: every approval but the signer's own, in their order.
Without(approvals, signer) ==
  LET out[n \in 0..Len(approvals)] ==
        IF n = 0 THEN <<>>
        ELSE IF approvals[n] = signer THEN out[n - 1]
        ELSE Append(out[n - 1], approvals[n])
  IN  out[Len(approvals)]

-----------------------------------------------------------------------------
\* validate_signer_set, then the new set and threshold.
apply_set_signers(vector, newThreshold) ==
  /\ vector # <<>>
  /\ newThreshold \in 1..Len(vector)
  /\ NoDuplicates(vector)
  /\ signers' = Members(vector)
  /\ threshold' = newThreshold

\* Mutant of Execute: a reclaim skips the checks of apply_reclaim.
Execute_Unchecked(action) ==
  /\ action.kind = "Reclaim"
  /\ action.issue \in DOMAIN bounty
  /\ RefundRemaining(action.issue)
  /\ UNCHANGED <<signers, threshold>>

\* Mutant of Execute: a dispute is decided the other way round.
Execute_Swapped(action) ==
  /\ action.kind = "ResolveDispute"
  /\ execute_action([action EXCEPT !.pay = ~action.pay])
  /\ UNCHANGED <<signers, threshold>>

\* execute_action with its SetSigners branch.
Execute(action) ==
  \/ execute_action(action) /\ UNCHANGED <<signers, threshold>>
  \/ /\ action.kind = "SetSigners"
     /\ apply_set_signers(action.signers, action.threshold)
     /\ UNCHANGED escrowVars

\* store_proposal(p), then try_execute(id): below the threshold the proposal is
\* only stored, otherwise its action must succeed in the same transaction.
StoreAndTryExecute(id, p) ==
  \/ /\ ~Reached(p)
     /\ proposal' = Put(proposal, id, p)
     /\ UNCHANGED <<escrowVars, signers, threshold>>
  \/ /\ Reached(p)
     /\ proposal' = Put(proposal, id, [p EXCEPT !.executed = TRUE])
     /\ Execute(p.action)

-----------------------------------------------------------------------------
init(admin, registry) ==
  /\ InitContract(registry)
  /\ signers' = {admin}
  /\ threshold' = 1
  /\ UNCHANGED proposal

propose(proposer, action) ==
  /\ Len(proposal) < MaxProposals
  /\ config # "uninitialised"
  /\ proposer \in signers
  /\ StoreAndTryExecute(Len(proposal) + 1,
       [action |-> action, proposer |-> proposer, approvals |-> <<proposer>>,
        executed |-> FALSE, cancelled |-> FALSE])

approve(signer, id) ==
  /\ config # "uninitialised"
  /\ signer \in signers
  /\ Open(proposal[id])
  /\ ~HasApproved(proposal[id], signer)
  /\ StoreAndTryExecute(id, [proposal[id] EXCEPT !.approvals = Append(@, signer)])

\* Only a current signer can withdraw, and no event reports it.
revoke(signer, id) ==
  /\ config # "uninitialised"
  /\ signer \in signers
  /\ Open(proposal[id])
  /\ HasApproved(proposal[id], signer)
  /\ proposal' = [proposal EXCEPT ![id].approvals = Without(@, signer)]
  /\ UNCHANGED <<escrowVars, signers, threshold>>

\* The proposer may cancel even when no longer a signer.
cancel(proposer, id) ==
  /\ Open(proposal[id])
  /\ proposal[id].proposer = proposer
  /\ proposal' = [proposal EXCEPT ![id].cancelled = TRUE]
  /\ UNCHANGED <<escrowVars, signers, threshold>>

-----------------------------------------------------------------------------
Init ==
  /\ EscrowInit
  /\ signers = {}
  /\ threshold = 0
  /\ proposal = <<>>

GovernanceStep ==
  \/ \E a \in Deployers, r \in RegistryChoices : init(a, r)
  \/ \E s \in Address, a \in Proposable : propose(s, a)
  \/ \E s \in Address, id \in DOMAIN proposal :
       approve(s, id) \/ revoke(s, id) \/ cancel(s, id)

Next ==
  \/ GovernanceStep
  \/ (UserStep \/ RegistryStep) /\ UNCHANGED governanceVars

Spec == Init /\ [][Next]_vars

-----------------------------------------------------------------------------
(* Properties.                                                             *)

BountyTypeOK ==
  /\ EscrowTypeOK
  /\ signers \subseteq Address
  /\ threshold \in Nat
  /\ proposal \in Seq(Proposal)

\* Once initialised the contract always has signers, and enough distinct ones
\* to reach the threshold: no SetSigners proposal locks everybody out
\* (lib.rs 1164-1179).
SignersCanDecide ==
  config # "uninitialised" =>
    /\ signers # {}
    /\ threshold \in 1..Cardinality(signers)

\* Nobody is locked out: neither the signers nor the reviewers of a bounty are
\* ever asked for more approvals than they can give.
NobodyIsLockedOut == SignersCanDecide /\ QuorumReachable

\* The proposals that this step executes.
NewlyExecuted ==
  {id \in DOMAIN proposal' :
     /\ proposal'[id].executed
     /\ id \in DOMAIN proposal => ~proposal[id].executed}

\* A proposal once executed or cancelled never changes again and is never
\* executed a second time, and one transaction executes at most one proposal
\* (lib.rs 554, 581, 604, 1134).
ProposalsDecideOnce ==
  [][/\ \A id \in DOMAIN proposal :
          proposal[id].executed \/ proposal[id].cancelled => proposal'[id] = proposal[id]
     /\ \A j, k \in NewlyExecuted : j = k]_vars

\* As many different accounts as the threshold asks for approve the proposal.
Backed(p) == Cardinality(Members(p.approvals)) >= threshold

\* The action pays milestone m of the issue.
Pays(action, issue, m) ==
  \/ /\ action.kind = "Release"
     /\ action.issue = issue /\ action.milestone = m
  \/ /\ action.kind = "ResolveDispute" /\ action.pay
     /\ dispute[action.id].issue = issue /\ dispute[action.id].milestone = m

\* The action refunds the rest of the issue's bounty, or a milestone of it.
Refunds(action, issue) ==
  \/ action.kind = "Reclaim" /\ action.issue = issue
  \/ /\ action.kind = "ResolveDispute" /\ ~action.pay
     /\ dispute[action.id].issue = issue

\* A contributor is paid, and a bounty someone has claimed is refunded, only in
\* the transaction that executes a backed proposal to pay that milestone, or to
\* refund that bounty (lib.rs 25-27, 58-60, 1128-1146).
ClaimedMoneyNeedsAProposal ==
  [][/\ \A k \in paid' \ paid : \E id \in NewlyExecuted :
          Backed(proposal'[id]) /\ Pays(proposal'[id].action, k[1], k[2])
     /\ \A i \in DOMAIN bounty :
          returned'[i] # returned[i] /\ bounty[i].contributor # NoOne =>
            \E id \in NewlyExecuted :
              Backed(proposal'[id]) /\ Refunds(proposal'[id].action, i)
    ]_vars

\* After `init` the signers and the threshold change only to what an executed,
\* backed proposal says, and the panel of a bounty only to what an executed,
\* backed proposal says of that bounty (lib.rs 1164-1184, 1199-1234).
GovernanceNeedsAProposal ==
  [][/\ config # "uninitialised" /\ <<signers', threshold'>> # <<signers, threshold>> =>
          \E id \in NewlyExecuted :
            LET a == proposal'[id].action
            IN  /\ Backed(proposal'[id]) /\ a.kind = "SetSigners"
                /\ signers' = Members(a.signers) /\ threshold' = a.threshold
     /\ \A i \in DOMAIN bounty :
          \/ /\ bounty'[i].reviewers = bounty[i].reviewers
             /\ bounty'[i].reviewer_quorum = bounty[i].reviewer_quorum
          \/ \E id \in NewlyExecuted :
               LET a == proposal'[id].action
               IN  /\ Backed(proposal'[id]) /\ a.kind = "SetReviewers" /\ a.issue = i
                   /\ bounty'[i].reviewers = Members(a.reviewers)
                   /\ bounty'[i].reviewer_quorum = a.quorum
    ]_vars

\* The approvals of a proposal stored so far.
ApprovalsOf(id) == IF id \in DOMAIN proposal THEN Members(proposal[id].approvals) ELSE {}

\* An approval is only ever added by an account that is a signer at that moment.
\* Whoever leaves the signer set later is not asked again (NoStaleApprovals).
SignersApprove ==
  [][\A id \in DOMAIN proposal' :
       Members(proposal'[id].approvals) \subseteq ApprovalsOf(id) \cup signers]_vars

\* What is for the signers to decide takes a proposal for just that, approved by
\* as many different accounts as the threshold asks for, each of them a signer
\* when it approved, though not necessarily still one when the proposal runs.
DecisionsNeedProposals ==
  ClaimedMoneyNeedsAProposal /\ GovernanceNeedsAProposal /\ SignersApprove

\* Under governance the contract is still the escrow of Escrow.tla: proposals
\* only restrict when its actions run, and never run half of one.
ImplementsEscrow == EscrowSpec

-----------------------------------------------------------------------------
(* What the documentation says and the code does not do.                   *)

\* "a proposal created under an old signer set cannot be executed with stale
\* approvals after the set changed" (lib.rs 1125-1127).
NoStaleApprovals ==
  [][\A id \in NewlyExecuted :
       Cardinality(Members(proposal'[id].approvals) \cap signers) >= threshold
    ]_vars

\* "Execute a proposal when its approval count meets the current threshold"
\* (lib.rs 1123): no proposal waits with the approvals it needs.
NoApprovedProposalWaits ==
  \A id \in DOMAIN proposal :
    Open(proposal[id]) => Len(proposal[id].approvals) < threshold
=============================================================================
