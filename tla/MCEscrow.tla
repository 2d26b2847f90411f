------------------------------ MODULE MCEscrow ------------------------------
(***************************************************************************)
(* Instances of Escrow for TLC: the people, the milestone lists and the    *)
(* actions that signers propose.  The .cfg files choose among them.        *)
(***************************************************************************)
EXTENDS Escrow, TLC

CONSTANTS alice, bob, carol, dave,   \* accounts
          issue1, issue2,            \* issues
          Other                      \* a bounty contract of another version

\* Milestone lists of one bounty.
OneAndTwo == {<<1, 2>>}
Single == {<<1>>}

\* Proposable actions.
Releases == [kind: {"Release"}, issue: Issue, milestone: Slot]
Reclaims == [kind: {"Reclaim"}, issue: Issue]
Resolutions == [kind: {"ResolveDispute"}, id: 1..MaxDisputes, pay: BOOLEAN]
Assign(vectors) ==
  {a \in [kind: {"SetReviewers"}, issue: Issue, reviewers: vectors, quorum: 0..2] :
     a.quorum <= Len(a.reviewers) + 1}

\* One reviewer, replaced by another or removed; a duplicate and quorums out of
\* range, which the contract rejects.
Panel == {<<>>, <<carol>>, <<carol, dave>>, <<dave, dave>>}

ReviewedBounty == Releases \cup Reclaims \cup Resolutions \cup Assign(Panel)
\* The funder reviews her own bounty.
FunderReviews ==
  Releases \cup Resolutions \cup Assign({<<>>, <<alice>>})

UnreviewedBounty == Releases \cup Reclaims \cup Resolutions
=============================================================================
