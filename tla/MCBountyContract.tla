-------------------------- MODULE MCBountyContract --------------------------
(***************************************************************************)
(* Instances of BountyContract for TLC: alice funds, bob works, and carol  *)
(* may review and sign.                                                    *)
(***************************************************************************)
EXTENDS BountyContract, TLC

CONSTANTS alice, bob, carol, dave, erin,   \* accounts
          issue1, issue2                   \* issues

Interchangeable == Permutations({issue1, issue2})

Single == {<<1>>}

Money ==
  [kind: {"Release"}, issue: Issue, milestone: {1}]
    \cup [kind: {"Reclaim"}, issue: Issue]
    \cup [kind: {"ResolveDispute"}, id: {1}, pay: BOOLEAN]

Reviewers == [kind: {"SetReviewers"}, issue: Issue, reviewers: {<<carol>>}, quorum: {1}]

SetSigners(vector, t) == [kind |-> "SetSigners", signers |-> vector, threshold |-> t]

\* A second signer, the removal of the first one, and two vectors that
\* validate_signer_set rejects.
Rotations ==
  {SetSigners(<<alice, carol>>, 2), SetSigners(<<carol>>, 1),
   SetSigners(<<carol, carol>>, 2), SetSigners(<<carol>>, 2)}

Governance == Rotations \cup Money \cup Reviewers

\* Two signers that must agree, one of them replaced, and a step back to one.
Replacements ==
  {SetSigners(<<carol, dave>>, 2), SetSigners(<<dave, erin>>, 2), SetSigners(<<carol>>, 1)}

Replacing == Replacements \cup Money \cup Reviewers
=============================================================================
