---------------------------- MODULE MCReadModel ----------------------------
(***************************************************************************)
(* Instances of ReadModel for TLC: alice funds and may review her own      *)
(* bounty, bob works, carol deploys, dave can join as reviewer and signer. *)
(***************************************************************************)
EXTENDS ReadModel, TLC

CONSTANTS alice, bob, carol, dave, issue1

\* Doubles keep half of the integers between 4 and 8 and none but 8 above.
Doubles == [n \in 0..MaxI128 |-> IF n <= 4 THEN n ELSE IF n < 8 THEN n - (n % 2) ELSE 8]

\* One list whose total is exact as a double, and one whose total is rounded.
TwoLists == {<<1, 1>>, <<6, 1>>}

Proposed ==
  [kind: {"Release"}, issue: Issue, milestone: Slot]
    \cup [kind: {"Reclaim"}, issue: Issue]
    \cup [kind: {"ResolveDispute"}, id: {1}, pay: BOOLEAN]
    \cup [kind: {"SetReviewers"}, issue: Issue, reviewers: {<<alice>>, <<dave>>}, quorum: {1}]
    \cup [kind: {"SetSigners"}, signers: {<<carol, dave>>}, threshold: {2}]
=============================================================================
