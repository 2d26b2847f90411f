------------------------- MODULE ReputationRegistry -------------------------
(***************************************************************************)
(* The contributor and reviewer reputation registry,                       *)
(* src/contracts/contributors/src/lib.rs.                                  *)
(*                                                                         *)
(* The whole contract is one value `reg`, its storage.  Each write of the  *)
(* contract is a pair of operators on such a value: a guard (the checks    *)
(* that return an error) and the storage after the write.  The actions of  *)
(* this module apply one write; the escrow contract, which writes several  *)
(* times inside one transaction, composes the same operators (Escrow.tla). *)
(* A write whose guard fails returns an error and leaves the storage as it *)
(* was: it is no step here.                                                *)
(*                                                                         *)
(* Left out: TTL extension, events, and the u32 saturation of the counters *)
(* (2^32 payouts); the i128 totals do saturate, at MaxI128.                *)
(***************************************************************************)
EXTENDS Integers, FiniteSets

CONSTANTS
  Address,        \* accounts: funders, contributors, reviewers, signers
  NoOne,          \* the absent account (Option::None, an unset storage key)
  Issue,          \* issue ids with a bounty
  MaxMilestones,  \* bound: milestones of one bounty
  Caller,         \* contracts that may be configured as the allowed caller
  Deployers,      \* accounts that call an `init`
  Amount,         \* amounts a caller may report to `record`
  MaxI128         \* the largest i128, scaled down

ASSUME RegistryConstants ==
  /\ NoOne \notin Address
  /\ NoOne \notin Caller
  /\ Deployers \subseteq Address
  /\ MaxMilestones \in Nat \ {0}
  /\ MaxI128 \in Nat \ {0}
  /\ Amount \subseteq 1..MaxI128

VARIABLE reg

\* The position of a milestone in its bounty; the code counts from 0.
Slot == 1..MaxMilestones

\* Mutant of SatAdd: the i128 wraps around.
SatAdd_Wrapping(x, y) == (x + y) % (MaxI128 + 1)

SatAdd(x, y) == IF x + y > MaxI128 THEN MaxI128 ELSE x + y

NoStats == [count |-> 0, total |-> 0]

NoReputation ==
  [payouts |-> 0, payout_total |-> 0, reviews_upheld |-> 0,
   disputes_opened |-> 0, disputes_lost |-> 0]

\* (subject, issue_id, milestone): the key of every replay guard.
Guard == Address \X Issue \X Slot

Stats == [count: Nat, total: 0..MaxI128]

Reputation ==
  [payouts: Nat, payout_total: 0..MaxI128, reviews_upheld: Nat,
   disputes_opened: Nat, disputes_lost: Nat]

RegistryState ==
  [admin: Address \cup {NoOne}, allowed_caller: Caller \cup {NoOne},
   credited: SUBSET Guard, review_credited: SUBSET Guard,
   dispute_credited: SUBSET Guard,
   stats: [Address -> Stats], rep: [Address -> Reputation],
   total_contributors: Nat]

FreshRegistry ==
  [admin |-> NoOne, allowed_caller |-> NoOne,
   credited |-> {}, review_credited |-> {}, dispute_credited |-> {},
   stats |-> [a \in Address |-> NoStats],
   rep |-> [a \in Address |-> NoReputation],
   total_contributors |-> 0]

-----------------------------------------------------------------------------
(* The writes: guards and results over a registry value r.                 *)

MayWrite(r, caller) == r.admin # NoOne /\ r.allowed_caller = caller

RecordAllowed(r, caller, contributor, issue, m) ==
  /\ MayWrite(r, caller)
  /\ <<contributor, issue, m>> \notin r.credited

\* Mutant of FirstPayout: off by one.
FirstPayout_Late(r, contributor) == r.stats[contributor].count <= 1

FirstPayout(r, contributor) == r.stats[contributor].count = 0

Recorded(r, contributor, issue, m, amount) ==
  [r EXCEPT
     !.credited = @ \cup {<<contributor, issue, m>>},
     !.total_contributors = IF FirstPayout(r, contributor) THEN @ + 1 ELSE @,
     !.stats[contributor] =
        [count |-> @.count + 1, total |-> SatAdd(@.total, amount)],
     !.rep[contributor].payouts = @ + 1,
     !.rep[contributor].payout_total = SatAdd(@, amount)]

ReviewsAllowed(r, caller, reviewers, issue, m) ==
  reviewers # {} =>
    /\ MayWrite(r, caller)
    /\ \A v \in reviewers : <<v, issue, m>> \notin r.review_credited

\* One record_review call for each member of `reviewers`.
ReviewsRecorded(r, reviewers, issue, m) ==
  [r EXCEPT
     !.review_credited = @ \cup {<<v, issue, m>> : v \in reviewers},
     !.rep = [a \in Address |->
                IF a \in reviewers
                THEN [r.rep[a] EXCEPT !.reviews_upheld = @ + 1]
                ELSE r.rep[a]]]

\* Mutant of DisputeAllowed: no replay guard.
DisputeAllowed_Replayed(r, caller, participant, issue, m) == MayWrite(r, caller)

DisputeAllowed(r, caller, participant, issue, m) ==
  /\ MayWrite(r, caller)
  /\ <<participant, issue, m>> \notin r.dispute_credited

DisputeRecorded(r, participant, issue, m, lost) ==
  [r EXCEPT
     !.dispute_credited = @ \cup {<<participant, issue, m>>},
     !.rep[participant].disputes_opened = @ + 1,
     !.rep[participant].disputes_lost = IF lost THEN @ + 1 ELSE @]

-----------------------------------------------------------------------------
(* The entry points, one transaction each.                                 *)

RegistryInit(admin, caller) ==
  /\ reg.admin = NoOne
  /\ reg' = [reg EXCEPT !.admin = admin, !.allowed_caller = caller]

SetAllowedCaller(admin, caller) ==
  /\ reg.admin # NoOne
  /\ admin = reg.admin
  /\ reg' = [reg EXCEPT !.allowed_caller = caller]

Record(caller, contributor, issue, m, amount) ==
  /\ RecordAllowed(reg, caller, contributor, issue, m)
  /\ amount > 0
  /\ reg' = Recorded(reg, contributor, issue, m, amount)

\* With upheld = false the code returns Ok without a write: a stuttering step.
RecordReview(caller, reviewer, issue, m) ==
  /\ ReviewsAllowed(reg, caller, {reviewer}, issue, m)
  /\ reg' = ReviewsRecorded(reg, {reviewer}, issue, m)

RecordDispute(caller, participant, issue, m, lost) ==
  /\ DisputeAllowed(reg, caller, participant, issue, m)
  /\ reg' = DisputeRecorded(reg, participant, issue, m, lost)

Administer ==
  \E a \in Deployers, c \in Caller : RegistryInit(a, c) \/ SetAllowedCaller(a, c)

\* Every write that contract `caller` may send.
Write(caller) ==
  \E a \in Address, i \in Issue, m \in Slot :
    \/ \E n \in Amount : Record(caller, a, i, m, n)
    \/ RecordReview(caller, a, i, m)
    \/ \E lost \in BOOLEAN : RecordDispute(caller, a, i, m, lost)

RegInit == reg = FreshRegistry

RegNext == Administer \/ \E c \in Caller : Write(c)

RegSpec == RegInit /\ [][RegNext]_reg

-----------------------------------------------------------------------------
GuardsOf(guards, a) == {g \in guards : g[1] = a}

RegTypeOK == reg \in RegistryState

\* Every counter equals the number of replay guards that back it, so no record
\* is double-counted and no guard is spent without its credit, whatever the
\* order of calls and rotations of the caller (record, record_review,
\* record_dispute, lib.rs 226-370).
CountersMatchGuards ==
  \A a \in Address :
    /\ reg.rep[a].payouts = Cardinality(GuardsOf(reg.credited, a))
    /\ reg.rep[a].reviews_upheld = Cardinality(GuardsOf(reg.review_credited, a))
    /\ reg.rep[a].disputes_opened = Cardinality(GuardsOf(reg.dispute_credited, a))
    /\ reg.rep[a].disputes_lost <= reg.rep[a].disputes_opened

\* The two aggregates that `record` writes separately, Stats and Rep, and the
\* instance-wide count of contributors never drift apart (lib.rs 245-272).
AggregatesAgree ==
  /\ \A a \in Address :
       /\ reg.stats[a].count = reg.rep[a].payouts
       /\ reg.stats[a].total = reg.rep[a].payout_total
  /\ reg.total_contributors = Cardinality({a \in Address : reg.stats[a].count > 0})

\* The registry's derived numbers agree with what they are derived from.
RegistryConsistent == CountersMatchGuards /\ AggregatesAgree

\* A payout, review or dispute once credited stays credited to the same
\* subject, and no total ever falls: rotating the allowed caller never rewrites
\* the record of an earlier one (lib.rs 202-219).
HistoryKept ==
  [][/\ reg.credited \subseteq reg'.credited
     /\ reg.review_credited \subseteq reg'.review_credited
     /\ reg.dispute_credited \subseteq reg'.dispute_credited
     /\ \A a \in Address : reg.rep[a].payout_total <= reg'.rep[a].payout_total
     /\ (reg.admin # NoOne => reg'.admin = reg.admin)]_reg
=============================================================================
