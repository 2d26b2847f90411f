------------------------ MODULE BountyContractProofs ------------------------
(***************************************************************************)
(* What becomes of the money, and who decides about it, for any bounties,  *)
(* tokens, amounts, disputes, signers, thresholds and proposals.           *)
(*                                                                         *)
(* First the books, which balance.  Then the refinement: the escrow        *)
(* implements Settlement.tla, in which no money moves but with the fate of *)
(* a milestone.  The mapping reads the fate off `settled`, `refunded`,     *)
(* `paid` and the disputes and the funds off the balances, and only the    *)
(* settlement invariant and the books say that these fit each other.  Then *)
(* what rests on both: the reputation that is earned.                      *)
(*                                                                         *)
(* Then the governance.  The inductive invariant says of its state that it *)
(* is well typed, that the signers can reach the threshold, and that no    *)
(* proposal counts anybody's approval twice; with the type invariant every *)
(* step of the contract is a step of the escrow, so that all that is       *)
(* proved of the escrow holds of the contract as well.                     *)
(***************************************************************************)
EXTENDS BountyContract, EscrowProofs

-----------------------------------------------------------------------------
(* The inductive invariant of the books.  That a dispute refunds its       *)
(* milestone only once needs that what was decided is settled; that a      *)
(* reclaim is the last entry needs that it closes; that a new bounty       *)
(* starts from nothing needs that nothing happens to an issue before it.   *)

DecidedAreSettled ==
  \A id \in DOMAIN dispute : dispute[id].resolved =>
    /\ dispute[id].issue \in DOMAIN bounty
    /\ dispute[id].milestone \in bounty[dispute[id].issue].settled

RefundedAreClosed == \A i \in DOMAIN bounty : bounty[i].refunded => bounty[i].released

UncreatedAreUntouched ==
  /\ IsFiniteSet(DOMAIN bounty)
  /\ \A i \in Issue \ DOMAIN bounty : returned[i] = 0

BooksInv ==
  /\ DecidedAreSettled
  /\ RefundedAreClosed
  /\ UncreatedAreUntouched
  /\ AccountsExact
  /\ EscrowBalanced

\* The account of one bounty.
AccountExact(i) ==
  /\ bounty[i].released_amount = SatAdd(0, Sum(bounty[i].amounts, PaidMilestones(i)))
  /\ returned[i] = Sum(bounty[i].amounts, RefundedByDispute(i))
                     + (IF bounty[i].refunded
                        THEN bounty[i].amount - bounty[i].released_amount ELSE 0)

\* The bounties in a token, what has left the escrow for a bounty, and the
\* balance in a token.
InToken(t) == {i \in DOMAIN bounty : bounty[i].token = t}
Left(i) == returned[i] + Sum(bounty[i].amounts, PaidMilestones(i))
AmountsLeft(t) == [i \in InToken(t) |-> Left(i)]
AmountsLocked(t) == [i \in InToken(t) |-> bounty[i].amount]
Balanced(t) ==
  balance[t][ThisBounty] + Sum(AmountsLeft(t), InToken(t)) = Sum(AmountsLocked(t), InToken(t))

LEMMA BooksByAccount ==
  /\ AccountsExact <=> \A i \in DOMAIN bounty : AccountExact(i)
  /\ EscrowBalanced <=> \A t \in Token : Balanced(t)
<1>1. AccountsExact <=> \A i \in DOMAIN bounty : AccountExact(i)
  BY DEF AccountsExact, AccountExact, SumOf, Sum
<1>2. \A t : DOMAIN AmountsLeft(t) = InToken(t) /\ DOMAIN AmountsLocked(t) = InToken(t)
  BY DEF AmountsLeft, AmountsLocked
<1>3. EscrowBalanced <=>
        \A t \in Token : balance[t][ThisBounty] + SumFunction(AmountsLeft(t))
                           = SumFunction(AmountsLocked(t))
  BY DEF EscrowBalanced, AmountsLeft, AmountsLocked, InToken, Left, SumOf, Sum
<1>4. QED
  BY <1>1, <1>2, <1>3 DEF SumFunction, Balanced, Sum

LEMMA NextBooksByAccount ==
  (/\ AccountsExact <=> \A i \in DOMAIN bounty : AccountExact(i)
   /\ EscrowBalanced <=> \A t \in Token : Balanced(t))'
BY BooksByAccount, PTL

\* Paid milestones are finitely many, of positive amount.
LEMMA LeftType ==
  ASSUME EscrowTypeOK, SettlementInv, NEW i \in DOMAIN bounty
  PROVE  /\ Milestones(bounty[i]) \subseteq Slot /\ IsFiniteSet(Slot)
         /\ \A m \in Milestones(bounty[i]) : bounty[i].amounts[m] \in Nat
         /\ PaidMilestones(i) \subseteq bounty[i].settled
         /\ bounty[i].settled \subseteq Milestones(bounty[i])
         /\ IsFiniteSet(PaidMilestones(i))
         /\ Sum(bounty[i].amounts, PaidMilestones(i)) \in Nat
         /\ Left(i) \in Nat
<1>1. i \in Issue /\ bounty[i] \in Bounty
  BY StoredBounty
<1>2. Milestones(bounty[i]) \subseteq Slot
      /\ \A m \in Milestones(bounty[i]) : bounty[i].amounts[m] \in Nat
  BY <1>1, MilestoneTypes, RegistryConstants
<1>3. IsFiniteSet(Slot)
  BY FS_Interval, RegistryConstants DEF Slot
<1>4. PaidMilestones(i) \subseteq bounty[i].settled
  BY DEF SettlementInv, PaidAreSettled, PaidMilestones
<1>5. bounty[i].settled \subseteq Milestones(bounty[i])
  BY DEF SettlementInv, ReleasedMeansAllSettled
<1>6. IsFiniteSet(PaidMilestones(i))
  BY <1>3, FS_Subset DEF PaidMilestones
<1>7. Sum(bounty[i].amounts, PaidMilestones(i)) \in Nat
  BY <1>2, <1>4, <1>5, <1>6, SumType
<1>8. returned[i] \in Nat
  BY <1>1 DEF EscrowTypeOK
<1>9. QED
  BY <1>2, <1>3, <1>4, <1>5, <1>6, <1>7, <1>8 DEF Left

\* A transfer out of the escrow, and one into it.
LEMMA TransferOut ==
  ASSUME EscrowTypeOK, NEW t \in Token, NEW a \in Address, NEW n \in Nat,
         Transfer(t, ThisBounty, a, n)
  PROVE  \A u \in Token : balance'[u][ThisBounty] + (IF u = t THEN n ELSE 0)
                            = balance[u][ThisBounty]
<1>1. balance \in [Token -> [Account -> Nat]] /\ ThisBounty \in Account /\ a \in Account
  BY DEF EscrowTypeOK, Account
<1>2. a # ThisBounty
  BY EscrowConstants
<1>3. balance' = [balance EXCEPT ![t][ThisBounty] = @ - n, ![t][a] = @ + n]
  BY DEF Transfer
<1>4. QED
  BY <1>1, <1>2, <1>3

LEMMA TransferIn ==
  ASSUME EscrowTypeOK, NEW t \in Token, NEW a \in Address, NEW n \in Nat,
         Transfer(t, a, ThisBounty, n)
  PROVE  \A u \in Token : balance'[u][ThisBounty]
                            = balance[u][ThisBounty] + (IF u = t THEN n ELSE 0)
<1>1. balance \in [Token -> [Account -> Nat]] /\ ThisBounty \in Account /\ a \in Account
  BY DEF EscrowTypeOK, Account
<1>2. a # ThisBounty
  BY EscrowConstants
<1>3. balance' = [balance EXCEPT ![t][a] = @ - n, ![t][ThisBounty] = @ + n]
  BY DEF Transfer
<1>4. QED
  BY <1>1, <1>2, <1>3

-----------------------------------------------------------------------------
(* What a step does to the books, by the parts of them that it leaves      *)
(* alone.                                                                  *)

\* The finitely many bounties of one token.
LEMMA InTokenFinite ==
  ASSUME IsFiniteSet(DOMAIN bounty), NEW t
  PROVE  IsFiniteSet(InToken(t))
BY FS_Subset DEF InToken

\* The entries of an account: the terms of its bounty and what has moved.
SameAccount(i) ==
  /\ bounty'[i].amounts = bounty[i].amounts
  /\ bounty'[i].amount = bounty[i].amount
  /\ bounty'[i].token = bounty[i].token
  /\ bounty'[i].released_amount = bounty[i].released_amount
  /\ bounty'[i].refunded = bounty[i].refunded
  /\ returned'[i] = returned[i]
  /\ PaidMilestones(i)' = PaidMilestones(i)
  /\ RefundedByDispute(i)' = RefundedByDispute(i)

LEMMA SameAccountExact ==
  ASSUME NEW i, SameAccount(i), AccountExact(i)
  PROVE  AccountExact(i)' /\ Left(i)' = Left(i)
BY DEF SameAccount, AccountExact, Left

\* The balance after n has left the escrow for bounty i.
LEMMA LeavingBalanced ==
  ASSUME EscrowTypeOK, SettlementInv, EscrowTypeOK', SettlementInv',
         EscrowBalanced, IsFiniteSet(DOMAIN bounty),
         DOMAIN bounty' = DOMAIN bounty,
         NEW i \in DOMAIN bounty, NEW n \in Nat,
         \A j \in DOMAIN bounty : /\ bounty'[j].token = bounty[j].token
                                  /\ bounty'[j].amount = bounty[j].amount,
         Left(i)' = Left(i) + n,
         \A j \in DOMAIN bounty \ {i} : Left(j)' = Left(j),
         \A u \in Token : balance'[u][ThisBounty] + (IF u = bounty[i].token THEN n ELSE 0)
                            = balance[u][ThisBounty]
  PROVE  EscrowBalanced'
<1>1. SUFFICES ASSUME NEW t \in Token PROVE Balanced(t)'
  BY NextBooksByAccount
<1> DEFINE S == InToken(t)
           f == AmountsLeft(t)
           g == AmountsLeft(t)'
<1>2. S' = S /\ AmountsLocked(t)' = AmountsLocked(t)
  BY DEF InToken, AmountsLocked
<1>3. IsFiniteSet(S)
  BY InTokenFinite
<1>4. /\ \A j \in S : f[j] = Left(j) /\ f[j] \in Nat
      /\ \A j \in S : g[j] = Left(j)' /\ g[j] \in Nat
  <2>1. \A j \in S : Left(j) \in Nat
    BY LeftType DEF InToken
  <2>2. \A j \in S : Left(j)' \in Nat
    <3>1. TAKE j \in S
    <3>2. j \in DOMAIN bounty
      BY DEF InToken
    <3>3. CASE j = i
      BY <2>1, <3>3
    <3>4. CASE j # i
      BY <2>1, <3>2, <3>4
    <3>5. QED
      BY <3>3, <3>4
  <2>3. g = [j \in S |-> Left(j)']
    BY <1>2 DEF AmountsLeft
  <2>4. f = [j \in S |-> Left(j)]
    BY DEF AmountsLeft
  <2>5. QED
    BY <2>1, <2>2, <2>3, <2>4
<1>5. /\ Sum(f, S) \in Nat /\ Sum(g, S) \in Nat
      /\ balance[t][ThisBounty] + Sum(f, S) = Sum(AmountsLocked(t), S)
      /\ balance[t][ThisBounty] \in Nat /\ balance'[t][ThisBounty] \in Nat
  <2>1. Sum(f, S) \in Nat /\ Sum(g, S) \in Nat
    <3> HIDE DEF f, g, S
    <3>1. QED
      BY <1>3, <1>4, SumType
  <2>2. Balanced(t)
    BY BooksByAccount
  <2>3. balance[t][ThisBounty] \in Nat /\ balance'[t][ThisBounty] \in Nat
    BY DEF EscrowTypeOK, Account
  <2>4. QED
    BY <2>1, <2>2, <2>3 DEF Balanced
<1>6. Sum(g, S) = Sum(f, S) + (IF t = bounty[i].token THEN n ELSE 0)
  <2>1. CASE t = bounty[i].token
    <3>1. i \in S
      BY <2>1 DEF InToken
    <3>2. \A j \in S \ {i} : g[j] = f[j]
      BY <1>4 DEF InToken
    <3>3. g[i] = f[i] + n
      BY <1>4, <3>1
    <3> HIDE DEF f, g, S
    <3>4. Sum(g, S) + f[i] = Sum(f, S) + g[i]
      BY <1>3, <1>4, <3>1, <3>2, SumChange
    <3>5. f[i] \in Nat
      BY <1>4, <3>1
    <3>6. QED
      BY <1>5, <2>1, <3>3, <3>4, <3>5
  <2>2. CASE t # bounty[i].token
    <3>1. \A j \in S : g[j] = f[j]
      BY <1>4, <2>2 DEF InToken
    <3> HIDE DEF f, g, S
    <3>2. Sum(g, S) = Sum(f, S)
      BY <1>3, <3>1, SumSame
    <3>3. QED
      BY <1>5, <2>2, <3>2
  <2>3. QED
    BY <2>1, <2>2
<1>7. balance'[t][ThisBounty] + (IF t = bounty[i].token THEN n ELSE 0)
        = balance[t][ThisBounty]
  OBVIOUS
<1> HIDE DEF f, g
<1>8. balance'[t][ThisBounty] + Sum(g, S) = Sum(AmountsLocked(t), S)
  BY <1>5, <1>6, <1>7
<1>9. QED
  BY <1>2, <1>8 DEF Balanced, g

\* The whole books after a step that moves no money of the escrow and decides
\* nothing.
LEMMA SameBooks ==
  ASSUME EscrowTypeOK, SettlementInv, BooksInv,
         DOMAIN bounty' = DOMAIN bounty,
         \A i \in DOMAIN bounty : SameAccount(i),
         \A t \in Token : balance'[t][ThisBounty] = balance[t][ThisBounty]
  PROVE  AccountsExact' /\ EscrowBalanced'
<1>1. \A i \in DOMAIN bounty : AccountExact(i)
  BY BooksByAccount DEF BooksInv
<1>2. \A i \in DOMAIN bounty : AccountExact(i)' /\ Left(i)' = Left(i)
  BY <1>1, SameAccountExact
<1>3. AccountsExact'
  BY <1>2, NextBooksByAccount
<1>4. ASSUME NEW t \in Token PROVE Balanced(t)'
  <2>1. InToken(t)' = InToken(t)
    BY DEF InToken, SameAccount
  <2>2. AmountsLocked(t)' = AmountsLocked(t)
    BY <2>1 DEF AmountsLocked, SameAccount, InToken
  <2>3. AmountsLeft(t)' = AmountsLeft(t)
    <3>1. AmountsLeft(t)' = [i \in InToken(t) |-> Left(i)']
      BY <2>1 DEF AmountsLeft
    <3>2. \A i \in InToken(t) : Left(i)' = Left(i)
      BY <1>2 DEF InToken
    <3>3. QED
      BY <3>1, <3>2 DEF AmountsLeft
  <2>4. Balanced(t)
    BY BooksByAccount DEF BooksInv
  <2>5. QED
    BY <2>1, <2>2, <2>3, <2>4 DEF Balanced
<1>5. EscrowBalanced'
  BY <1>4, NextBooksByAccount
<1>6. QED
  BY <1>3, <1>5

\* What the disputes refunded, when they are untouched or only opened and voted on.
LEMMA SameRefunds ==
  ASSUME DOMAIN dispute \subseteq DOMAIN dispute',
         \A id \in DOMAIN dispute' : dispute'[id].resolved => id \in DOMAIN dispute,
         \A id \in DOMAIN dispute :
           /\ dispute'[id].issue = dispute[id].issue
           /\ dispute'[id].milestone = dispute[id].milestone
           /\ dispute'[id].resolved = dispute[id].resolved
           /\ dispute'[id].pay_contributor = dispute[id].pay_contributor
  PROVE  /\ \A i : RefundedByDispute(i)' = RefundedByDispute(i)
         /\ /\ DecidedAreSettled
            /\ \A i \in DOMAIN bounty :
                 i \in DOMAIN bounty' /\ bounty[i].settled \subseteq bounty'[i].settled
            => DecidedAreSettled'
<1>1. ASSUME NEW i PROVE RefundedByDispute(i)' = RefundedByDispute(i)
  BY DEF RefundedByDispute
<1>2. ASSUME DecidedAreSettled,
             \A i \in DOMAIN bounty :
               i \in DOMAIN bounty' /\ bounty[i].settled \subseteq bounty'[i].settled
      PROVE  DecidedAreSettled'
  BY <1>2 DEF DecidedAreSettled
<1>3. QED
  BY <1>1, <1>2

\* The whole invariant after such a step.
LEMMA KeptBooks ==
  ASSUME EscrowTypeOK, SettlementInv, BooksInv,
         DOMAIN bounty' = DOMAIN bounty,
         \A i \in DOMAIN bounty :
           /\ SameAccount(i)
           /\ bounty'[i].settled = bounty[i].settled
           /\ bounty'[i].released = bounty[i].released,
         returned' = returned,
         \A t \in Token : balance'[t][ThisBounty] = balance[t][ThisBounty],
         DOMAIN dispute \subseteq DOMAIN dispute',
         \A id \in DOMAIN dispute' : dispute'[id].resolved => id \in DOMAIN dispute,
         \A id \in DOMAIN dispute :
           /\ dispute'[id].issue = dispute[id].issue
           /\ dispute'[id].milestone = dispute[id].milestone
           /\ dispute'[id].resolved = dispute[id].resolved
           /\ dispute'[id].pay_contributor = dispute[id].pay_contributor
  PROVE  BooksInv'
<1>1. AccountsExact' /\ EscrowBalanced'
  BY SameBooks
<1>2. DecidedAreSettled'
  BY SameRefunds DEF BooksInv
<1>3. RefundedAreClosed'
  BY DEF BooksInv, RefundedAreClosed, SameAccount
<1>4. UncreatedAreUntouched'
  BY DEF BooksInv, UncreatedAreUntouched
<1>5. QED
  BY <1>1, <1>2, <1>3, <1>4 DEF BooksInv

\* A step that writes nothing of what the books read.
LEMMA UntouchedBooks ==
  ASSUME EscrowTypeOK, SettlementInv, BooksInv,
         UNCHANGED <<bounty, dispute, balance, paid, returned>>
  PROVE  BooksInv'
<1>1. \A i : PaidMilestones(i)' = PaidMilestones(i)
  BY DEF PaidMilestones
<1>2. \A i : RefundedByDispute(i)' = RefundedByDispute(i)
  BY DEF RefundedByDispute
<1>3. \A i \in DOMAIN bounty : SameAccount(i)
  BY <1>1, <1>2 DEF SameAccount
<1>4. QED
  BY <1>3, KeptBooks

\* New terms of one bounty: a contributor or reviewers.
LEMMA TermsBooks ==
  ASSUME EscrowTypeOK, SettlementInv, BooksInv, NEW i \in DOMAIN bounty, NEW c,
         bounty' = [bounty EXCEPT ![i] = c],
         c.amounts = bounty[i].amounts, c.amount = bounty[i].amount,
         c.token = bounty[i].token, c.released_amount = bounty[i].released_amount,
         c.refunded = bounty[i].refunded, c.settled = bounty[i].settled,
         c.released = bounty[i].released,
         UNCHANGED <<dispute, balance, paid, returned>>
  PROVE  BooksInv'
<1>1. \A j : PaidMilestones(j)' = PaidMilestones(j)
  BY DEF PaidMilestones
<1>2. \A j : RefundedByDispute(j)' = RefundedByDispute(j)
  BY DEF RefundedByDispute
<1>3. /\ DOMAIN bounty' = DOMAIN bounty
      /\ bounty'[i] = c
      /\ \A j \in DOMAIN bounty : j # i => bounty'[j] = bounty[j]
  BY DEF EscrowTypeOK
<1>4. ASSUME NEW j \in DOMAIN bounty
      PROVE  /\ SameAccount(j)
             /\ bounty'[j].settled = bounty[j].settled
             /\ bounty'[j].released = bounty[j].released
  <2>1. CASE j = i
    BY <1>1, <1>2, <1>3, <2>1 DEF SameAccount
  <2>2. CASE j # i
    BY <1>1, <1>2, <1>3, <2>2 DEF SameAccount
  <2>3. QED
    BY <2>1, <2>2
<1>5. QED
  BY <1>3, <1>4, KeptBooks

LEMMA OpenDisputeBooks ==
  ASSUME EscrowTypeOK, SettlementInv, BooksInv, NEW a \in Address, NEW i \in Issue,
         NEW m \in Slot, open_dispute(a, i, m)
  PROVE  BooksInv'
<1>1. /\ DOMAIN dispute \subseteq DOMAIN dispute'
      /\ \A id \in DOMAIN dispute' : dispute'[id].resolved => id \in DOMAIN dispute
      /\ \A id \in DOMAIN dispute : dispute'[id] = dispute[id]
  <2> DEFINE d == [issue |-> i, milestone |-> m, opener |-> a,
                   votes_pay_contributor |-> 0, votes_refund_funder |-> 0,
                   resolved |-> FALSE, pay_contributor |-> FALSE]
  <2>1. d \in Dispute /\ ~d.resolved
    BY DEF Dispute
  <2>2. dispute' = Append(dispute, d) /\ dispute \in Seq(Dispute)
    BY DEF open_dispute, EscrowTypeOK
  <2> HIDE DEF d
  <2>3. /\ DOMAIN dispute = 1..Len(dispute) /\ Len(dispute) \in Nat
        /\ DOMAIN dispute' = 1..(Len(dispute) + 1)
        /\ dispute'[Len(dispute) + 1] = d
        /\ \A id \in 1..Len(dispute) : dispute'[id] = dispute[id]
    BY <2>1, <2>2, AppendProperties, LenProperties
  <2>4. QED
    BY <2>1, <2>3
<1>2. UNCHANGED <<bounty, balance, paid, returned>>
  BY DEF open_dispute
<1>3. \A j : RefundedByDispute(j)' = RefundedByDispute(j)
  BY <1>1, SameRefunds
<1>4. \A j : PaidMilestones(j)' = PaidMilestones(j)
  BY <1>2 DEF PaidMilestones
<1>5. \A j \in DOMAIN bounty : SameAccount(j)
  BY <1>2, <1>3, <1>4 DEF SameAccount
<1>6. QED
  BY <1>1, <1>2, <1>5, KeptBooks

LEMMA VoteBooks ==
  ASSUME EscrowTypeOK, SettlementInv, BooksInv, NEW v \in Address,
         NEW id \in 1..MaxDisputes, NEW pay \in BOOLEAN, vote_on_dispute(v, id, pay)
  PROVE  BooksInv'
<1>1. /\ DOMAIN dispute' = DOMAIN dispute
      /\ \A k \in DOMAIN dispute :
           /\ dispute'[k].issue = dispute[k].issue
           /\ dispute'[k].milestone = dispute[k].milestone
           /\ dispute'[k].resolved = dispute[k].resolved
           /\ dispute'[k].pay_contributor = dispute[k].pay_contributor
  <2>1. dispute[id] \in Dispute
    BY StoredDispute DEF vote_on_dispute
  <2>2. QED
    BY <2>1 DEF vote_on_dispute, Dispute
<1>2. UNCHANGED <<bounty, balance, paid, returned>>
  BY DEF vote_on_dispute
<1>3. \A j : RefundedByDispute(j)' = RefundedByDispute(j)
  BY <1>1, SameRefunds
<1>4. \A j : PaidMilestones(j)' = PaidMilestones(j)
  BY <1>2 DEF PaidMilestones
<1>5. \A j \in DOMAIN bounty : SameAccount(j)
  BY <1>2, <1>3, <1>4 DEF SameAccount
<1>6. QED
  BY <1>1, <1>2, <1>5, KeptBooks

\* Creation: a new account, all zero, and the amount locked.
LEMMA CreateBooks ==
  ASSUME EscrowTypeOK, SettlementInv, BooksInv, NEW f \in Funders, NEW tk \in Token,
         NEW i \in Issue, NEW l \in MilestoneLists, create_bounty(f, tk, i, l)
  PROVE  BooksInv'
<1> DEFINE n == Total(l)
<1>1. /\ i \notin DOMAIN bounty
      /\ UNCHANGED <<dispute, paid, returned>>
      /\ DOMAIN bounty' = DOMAIN bounty \cup {i}
      /\ \A j \in DOMAIN bounty : bounty'[j] = bounty[j]
      /\ bounty'[i].token = tk /\ bounty'[i].amount = n /\ bounty'[i].settled = {}
      /\ bounty'[i].released_amount = 0 /\ bounty'[i].refunded = FALSE
  BY DEF create_bounty, Put
<1>2. n \in Nat /\ MaxI128 \in Nat
  BY TotalInRange, EscrowConstants, RegistryConstants
<1>3. /\ \A j : PaidMilestones(j)' = PaidMilestones(j)
      /\ \A j : RefundedByDispute(j)' = RefundedByDispute(j)
  BY <1>1 DEF PaidMilestones, RefundedByDispute
<1>4. PaidMilestones(i) = {} /\ RefundedByDispute(i) = {} /\ returned[i] = 0
  <2>1. PaidMilestones(i) = {}
    BY <1>1 DEF SettlementInv, PaidAreSettled, PaidMilestones
  <2>2. RefundedByDispute(i) = {}
    BY <1>1 DEF BooksInv, DecidedAreSettled, RefundedByDispute
  <2>3. QED
    BY <1>1, <2>1, <2>2 DEF BooksInv, UncreatedAreUntouched
<1>5. \A j \in DOMAIN bounty : SameAccount(j)
  BY <1>1, <1>3 DEF SameAccount
<1>6. \A j \in DOMAIN bounty : AccountExact(j)' /\ Left(j)' = Left(j)
  BY <1>5, SameAccountExact, BooksByAccount DEF BooksInv
<1>7. AccountExact(i)' /\ Left(i)' = 0
  <2>1. PaidMilestones(i)' = {} /\ RefundedByDispute(i)' = {} /\ returned'[i] = 0
    BY <1>1, <1>3, <1>4
  <2>2. Sum(bounty'[i].amounts, PaidMilestones(i)') = 0
        /\ Sum(bounty'[i].amounts, RefundedByDispute(i)') = 0
    BY <2>1, SumEmpty
  <2>3. SatAdd(0, 0) = 0
    BY <1>2 DEF SatAdd
  <2>4. QED
    BY <1>1, <2>1, <2>2, <2>3 DEF AccountExact, Left
<1>8. AccountsExact'
  BY <1>1, <1>6, <1>7, NextBooksByAccount
<1>9. \A u \in Token : balance'[u][ThisBounty]
                         = balance[u][ThisBounty] + (IF u = tk THEN n ELSE 0)
  <2>1. Transfer(tk, f, ThisBounty, n) /\ f \in Address
    BY EscrowConstants DEF create_bounty
  <2>2. QED
    BY <1>2, <2>1, TransferIn
<1>10. ASSUME NEW t \in Token PROVE Balanced(t)'
  <2> DEFINE S == InToken(t)
             lf == AmountsLeft(t)
             lk == AmountsLocked(t)
             lf2 == AmountsLeft(t)'
             lk2 == AmountsLocked(t)'
  <2>1. IsFiniteSet(S)
    BY InTokenFinite DEF BooksInv, UncreatedAreUntouched
  <2>2. balance[t][ThisBounty] + Sum(lf, S) = Sum(lk, S)
    BY BooksByAccount DEF BooksInv, Balanced
  <2>3. balance[t][ThisBounty] \in Nat
    BY DEF EscrowTypeOK, Account
  <2>4. S' = IF t = tk THEN S \cup {i} ELSE S
    BY <1>1 DEF InToken
  <2>5. i \notin S /\ \A j \in S : j \in DOMAIN bounty
    BY <1>1 DEF InToken
  <2>6. \A j \in S : lf[j] \in Nat /\ lf2[j] = lf[j]
    <3>1. \A j \in S : lf[j] = Left(j) /\ Left(j) \in Nat
      BY <2>5, LeftType DEF AmountsLeft
    <3>2. lf2 = [j \in S' |-> Left(j)']
      BY DEF AmountsLeft
    <3>3. \A j \in S : lf2[j] = Left(j)'
      BY <2>4, <3>2
    <3>4. QED
      BY <1>6, <2>5, <3>1, <3>3
  <2>7. \A j \in S : lk[j] \in Nat /\ lk2[j] = lk[j]
    <3>1. \A j \in S : bounty[j].amount \in Nat
      BY <1>2, <2>5, StoredBounty DEF Bounty
    <3>2. QED
      BY <1>1, <2>4, <2>5, <3>1 DEF AmountsLocked
  <2>8. Sum(lf2, S) = Sum(lf, S) /\ Sum(lk2, S) = Sum(lk, S)
        /\ Sum(lf, S) \in Nat /\ Sum(lk, S) \in Nat
    <3> HIDE DEF lf, lf2, lk, lk2, S
    <3>1. QED
      BY <2>1, <2>6, <2>7, SumSame, SumType
  <2>9. CASE t = tk
    <3>1. lf2[i] = 0 /\ lk2[i] = n
      <4>1. i \in S'
        BY <2>4, <2>9
      <4>2. lf2 = [j \in S' |-> Left(j)'] /\ lk2 = [j \in S' |-> bounty'[j].amount]
        BY DEF AmountsLeft, AmountsLocked
      <4>3. QED
        BY <1>1, <1>7, <4>1, <4>2
    <3> HIDE DEF lf, lf2, lk, lk2, S, n
    <3>2. Sum(lf2, S \cup {i}) = 0 + Sum(lf2, S) /\ Sum(lk2, S \cup {i}) = n + Sum(lk2, S)
      <4>1. /\ \A j \in S : lf2[j] \in Nat /\ lk2[j] \in Nat
            /\ lf2[i] \in Nat /\ lk2[i] \in Nat
            /\ i \notin S
        BY <1>2, <2>5, <2>6, <2>7, <3>1
      <4>2. Sum(lf2, S \cup {i}) = lf2[i] + Sum(lf2, S)
        BY <2>1, <4>1, SumAdd
      <4>3. Sum(lk2, S \cup {i}) = lk2[i] + Sum(lk2, S)
        BY <2>1, <4>1, SumAdd
      <4>4. QED
        BY <3>1, <4>2, <4>3
    <3>3. balance'[t][ThisBounty] = balance[t][ThisBounty] + n
      BY <1>9, <2>9
    <3>4. balance'[t][ThisBounty] + Sum(lf2, S \cup {i}) = Sum(lk2, S \cup {i})
      BY <1>2, <2>2, <2>3, <2>8, <3>2, <3>3
    <3>5. S' = S \cup {i}
      BY <2>4, <2>9
    <3>6. QED
      BY <3>4, <3>5 DEF Balanced, S, lf2, lk2
  <2>10. CASE t # tk
    <3>1. balance'[t][ThisBounty] = balance[t][ThisBounty]
      BY <1>2, <1>9, <2>3, <2>10
    <3>2. S' = S
      BY <2>4, <2>10
    <3> HIDE DEF lf, lf2, lk, lk2
    <3>3. balance'[t][ThisBounty] + Sum(lf2, S) = Sum(lk2, S)
      BY <2>2, <2>8, <3>1
    <3>4. QED
      BY <3>2, <3>3 DEF Balanced, lf2, lk2
  <2>11. QED
    BY <2>9, <2>10
<1>11. EscrowBalanced'
  BY <1>10, NextBooksByAccount
<1>12. DecidedAreSettled'
  BY <1>1 DEF BooksInv, DecidedAreSettled
<1>13. RefundedAreClosed'
  BY <1>1 DEF BooksInv, RefundedAreClosed
<1>14. UncreatedAreUntouched'
  <2>1. IsFiniteSet(DOMAIN bounty')
    BY <1>1, FS_AddElement DEF BooksInv, UncreatedAreUntouched
  <2>2. QED
    BY <1>1, <2>1 DEF BooksInv, UncreatedAreUntouched
<1>15. QED
  BY <1>8, <1>11, <1>12, <1>13, <1>14 DEF BooksInv

\* Both reclaims: the remainder leaves the escrow, and that closes the account.
LEMMA RefundBooks ==
  ASSUME EscrowTypeOK, SettlementInv, BooksInv, EscrowTypeOK', SettlementInv',
         NEW i \in DOMAIN bounty, ~bounty[i].released, remaining_escrow(bounty[i]) \in Nat,
         RefundRemaining(i)
  PROVE  BooksInv'
<1> DEFINE b == bounty[i]
           n == remaining_escrow(b)
           c == [b EXCEPT !.settled = Milestones(b), !.released = TRUE, !.refunded = TRUE]
<1>1. i \in Issue /\ b \in Bounty /\ DOMAIN bounty \subseteq Issue
  BY StoredBounty DEF EscrowTypeOK
<1>2. /\ c.amounts = b.amounts /\ c.amount = b.amount /\ c.token = b.token
      /\ c.released_amount = b.released_amount /\ c.refunded = TRUE /\ c.released = TRUE
      /\ c.settled = Milestones(b)
  BY <1>1 DEF Bounty
<1>3. bounty' = [bounty EXCEPT ![i] = c] /\ UNCHANGED <<dispute, paid>>
      /\ returned' = [returned EXCEPT ![i] = @ + n]
  BY DEF RefundRemaining
<1> HIDE DEF c
<1>4. /\ DOMAIN bounty' = DOMAIN bounty /\ bounty'[i] = c
      /\ \A j \in DOMAIN bounty : j # i => bounty'[j] = bounty[j]
      /\ returned'[i] = returned[i] + n
      /\ \A j \in Issue : j # i => returned'[j] = returned[j]
  BY <1>1, <1>3 DEF EscrowTypeOK
<1>5. /\ \A j : PaidMilestones(j)' = PaidMilestones(j)
      /\ \A j : RefundedByDispute(j)' = RefundedByDispute(j)
  BY <1>3 DEF PaidMilestones, RefundedByDispute
<1>6. b.settled \subseteq Milestones(b) /\ ~b.refunded
  BY DEF SettlementInv, ReleasedMeansAllSettled, BooksInv, RefundedAreClosed
<1>7. \A j \in DOMAIN bounty \ {i} : AccountExact(j)' /\ Left(j)' = Left(j)
  <2>1. \A j \in DOMAIN bounty \ {i} : SameAccount(j)
    BY <1>1, <1>4, <1>5 DEF SameAccount
  <2>2. QED
    BY <2>1, SameAccountExact, BooksByAccount DEF BooksInv
<1>8. AccountExact(i)' /\ Left(i)' = Left(i) + n
  <2>1. AccountExact(i)
    BY BooksByAccount DEF BooksInv
  <2> DEFINE r == Sum(b.amounts, RefundedByDispute(i))
             p == Sum(b.amounts, PaidMilestones(i))
  <2>2. returned[i] = r + 0
    BY <1>6, <2>1 DEF AccountExact
  <2>3. returned[i] \in Nat /\ n \in Nat /\ p \in Nat /\ n = b.amount - b.released_amount
    BY <1>1, LeftType DEF EscrowTypeOK, remaining_escrow
  <2>4. /\ Sum(bounty'[i].amounts, RefundedByDispute(i)') = r
        /\ Sum(bounty'[i].amounts, PaidMilestones(i)') = p
    BY <1>2, <1>4, <1>5
  <2>5. RefundedByDispute(i) \subseteq Milestones(b) /\ r \in Nat
    <3>1. RefundedByDispute(i) \subseteq b.settled
      BY DEF BooksInv, DecidedAreSettled, RefundedByDispute
    <3>2. RefundedByDispute(i) \subseteq Slot /\ IsFiniteSet(Slot)
      BY LeftType DEF RefundedByDispute
    <3>3. IsFiniteSet(RefundedByDispute(i))
      BY <3>2, FS_Subset
    <3>4. \A m \in RefundedByDispute(i) : b.amounts[m] \in Nat
      BY <1>6, <3>1, LeftType
    <3>5. QED
      BY <1>6, <3>1, <3>3, <3>4, SumType
  <2> HIDE DEF r, p
  <2>6. Left(i)' = Left(i) + n
    <3>1. Left(i) = returned[i] + p
      BY DEF Left, p
    <3>2. Left(i)' = returned'[i] + p
      BY <2>4 DEF Left
    <3> HIDE DEF n
    <3>3. QED
      BY <1>4, <2>3, <3>1, <3>2
  <2>7. bounty'[i].released_amount = SatAdd(0, p)
    BY <1>2, <1>4, <2>1 DEF AccountExact, p
  <2>8. returned'[i] = r + (b.amount - b.released_amount)
    <3> HIDE DEF n
    <3>1. returned'[i] = r + n
      BY <1>4, <2>2, <2>3, <2>5
    <3>2. QED
      BY <2>3, <3>1
  <2>9. AccountExact(i)'
    BY <1>2, <1>4, <2>4, <2>7, <2>8 DEF AccountExact
  <2>10. QED
    BY <2>6, <2>9
<1>9. AccountsExact'
  BY <1>4, <1>7, <1>8, NextBooksByAccount
<1>10. EscrowBalanced'
  <2>1. Transfer(b.token, ThisBounty, b.funder, n)
    BY DEF RefundRemaining
  <2>2. b.funder \in Address /\ b.token \in Token
    BY <1>1 DEF Bounty
  <2>3. \A u \in Token : balance'[u][ThisBounty] + (IF u = b.token THEN n ELSE 0)
                           = balance[u][ThisBounty]
    BY <2>1, <2>2, TransferOut
  <2>4. \A j \in DOMAIN bounty : /\ bounty'[j].token = bounty[j].token
                                  /\ bounty'[j].amount = bounty[j].amount
    BY <1>2, <1>4
  <2>5. IsFiniteSet(DOMAIN bounty) /\ EscrowBalanced
    BY DEF BooksInv, UncreatedAreUntouched
  <2>6. QED
    BY <1>4, <1>7, <1>8, <2>3, <2>4, <2>5, LeavingBalanced
<1>11. DecidedAreSettled'
  BY <1>2, <1>3, <1>4, <1>6 DEF BooksInv, DecidedAreSettled
<1>12. RefundedAreClosed'
  BY <1>2, <1>4 DEF BooksInv, RefundedAreClosed
<1>13. UncreatedAreUntouched'
  BY <1>1, <1>4 DEF BooksInv, UncreatedAreUntouched
<1>14. QED
  BY <1>9, <1>10, <1>11, <1>12, <1>13 DEF BooksInv

\* A milestone m of bounty i settled: c is its bounty afterwards, and the refunds
\* and payments of the other bounties stay as they are.
LEMMA SettlingBooks ==
  ASSUME EscrowTypeOK, SettlementInv, BooksInv, EscrowTypeOK', SettlementInv',
         NEW i \in DOMAIN bounty, NEW m \in Milestones(bounty[i]) \ bounty[i].settled,
         NEW c \in {Settle(bounty[i], {m}), Pay(bounty[i], m)}, NEW a \in Address,
         bounty' = [bounty EXCEPT ![i] = c],
         Transfer(bounty[i].token, ThisBounty, a, bounty[i].amounts[m]),
         \A j \in Issue \ {i} : /\ PaidMilestones(j)' = PaidMilestones(j)
                                /\ RefundedByDispute(j)' = RefundedByDispute(j)
                                /\ returned'[j] = returned[j],
         \/ /\ c = Pay(bounty[i], m)
            /\ returned'[i] = returned[i]
            /\ PaidMilestones(i)' = PaidMilestones(i) \cup {m}
            /\ RefundedByDispute(i)' = RefundedByDispute(i)
         \/ /\ c = Settle(bounty[i], {m})
            /\ returned'[i] = returned[i] + bounty[i].amounts[m]
            /\ PaidMilestones(i)' = PaidMilestones(i)
            /\ RefundedByDispute(i)' = RefundedByDispute(i) \cup {m}
  PROVE  /\ AccountsExact' /\ EscrowBalanced' /\ RefundedAreClosed' /\ UncreatedAreUntouched'
         /\ DOMAIN bounty' = DOMAIN bounty
         /\ \A j \in DOMAIN bounty : bounty[j].settled \subseteq bounty'[j].settled
         /\ m \in bounty'[i].settled
<1> DEFINE b == bounty[i]
           n == b.amounts[m]
<1>1. i \in Issue /\ b \in Bounty /\ m \in Milestones(b) /\ DOMAIN bounty \subseteq Issue
  BY StoredBounty DEF EscrowTypeOK
<1>2. n \in 1..MaxI128 /\ MaxI128 \in Nat
  BY <1>1, MilestoneTypes, RegistryConstants
<1>3. /\ c.amounts = b.amounts /\ c.amount = b.amount /\ c.token = b.token
      /\ c.refunded = b.refunded /\ c.settled = b.settled \cup {m}
      /\ c = Settle(b, {m}) => c.released_amount = b.released_amount
      /\ c = Pay(b, m) => c.released_amount = SatAdd(b.released_amount, n)
  BY <1>1, PayParts
<1>4. /\ DOMAIN bounty' = DOMAIN bounty /\ bounty'[i] = c
      /\ \A j \in DOMAIN bounty : j # i => bounty'[j] = bounty[j]
  BY DEF EscrowTypeOK
<1>5. /\ b.settled \subseteq Milestones(b)
      /\ ~b.refunded
  BY DEF SettlementInv, ReleasedMeansAllSettled, BooksInv, RefundedAreClosed
<1>6. \A j \in DOMAIN bounty \ {i} : AccountExact(j)' /\ Left(j)' = Left(j)
  <2>1. \A j \in DOMAIN bounty \ {i} : SameAccount(j)
    BY <1>1, <1>4 DEF SameAccount
  <2>2. QED
    BY <2>1, SameAccountExact, BooksByAccount DEF BooksInv
<1> DEFINE P == PaidMilestones(i)
           R == RefundedByDispute(i)
           p == Sum(b.amounts, P)
           r == Sum(b.amounts, R)
<1>7. /\ P \subseteq b.settled /\ R \subseteq b.settled
      /\ IsFiniteSet(P) /\ IsFiniteSet(R)
      /\ m \notin P /\ m \notin R
      /\ \A k \in b.settled : b.amounts[k] \in Nat
  <2>1. R \subseteq b.settled
    BY DEF BooksInv, DecidedAreSettled, RefundedByDispute
  <2>2. R \subseteq Slot /\ IsFiniteSet(Slot)
    BY LeftType DEF RefundedByDispute
  <2>3. QED
    BY <1>5, <2>1, <2>2, LeftType, FS_Subset
<1>8. p \in Nat /\ r \in Nat /\ returned[i] \in Nat
  <2>1. returned[i] \in Nat
    BY <1>1 DEF EscrowTypeOK
  <2> HIDE DEF P, R
  <2>2. QED
    BY <1>7, <2>1, SumType
<1>9. /\ Sum(b.amounts, P \cup {m}) = p + n
      /\ Sum(b.amounts, R \cup {m}) = r + n
  <2>1. n \in Nat
    BY <1>2
  <2>2. /\ \A k \in P : b.amounts[k] \in Nat
        /\ \A k \in R : b.amounts[k] \in Nat
    BY <1>7
  <2> HIDE DEF P, R
  <2>3. Sum(b.amounts, P \cup {m}) = n + p
    BY <1>7, <2>1, <2>2, SumAdd
  <2>4. Sum(b.amounts, R \cup {m}) = n + r
    BY <1>7, <2>1, <2>2, SumAdd
  <2> HIDE DEF n, p, r
  <2>5. QED
    BY <1>8, <2>1, <2>3, <2>4
<1>10. b.released_amount = SatAdd(0, p) /\ returned[i] = r /\ Left(i) = returned[i] + p
  <2>1. AccountExact(i)
    BY BooksByAccount DEF BooksInv
  <2>2. returned[i] = r + 0 /\ b.released_amount = SatAdd(0, p)
    BY <1>5, <2>1 DEF AccountExact
  <2>3. Left(i) = returned[i] + p
    BY DEF Left
  <2> HIDE DEF p, r
  <2>4. QED
    BY <1>8, <2>2, <2>3
<1>11. AccountExact(i)' /\ Left(i)' = Left(i) + n
  <2>1. CASE c = Pay(b, m) /\ returned'[i] = returned[i] /\ PaidMilestones(i)' = P \cup {m}
             /\ RefundedByDispute(i)' = R
    <3>1. /\ Sum(bounty'[i].amounts, PaidMilestones(i)') = p + n
          /\ Sum(bounty'[i].amounts, RefundedByDispute(i)') = r
      BY <1>3, <1>4, <1>9, <2>1
    <3>2. SatAdd(SatAdd(0, p), n) = SatAdd(0, p + n)
      <4> HIDE DEF n, p
      <4>1. QED
        BY <1>2, <1>8 DEF SatAdd
    <3>3. bounty'[i].released_amount = SatAdd(0, p + n)
      BY <1>3, <1>4, <1>10, <2>1, <3>2
    <3>4. returned'[i] = r + 0
      BY <1>8, <1>10, <2>1
    <3>5. AccountExact(i)'
      BY <1>3, <1>4, <1>5, <3>1, <3>3, <3>4 DEF AccountExact
    <3>6. Left(i)' = returned[i] + (p + n)
      BY <2>1, <3>1 DEF Left
    <3> HIDE DEF n, p, r
    <3>7. QED
      BY <1>2, <1>8, <1>10, <3>5, <3>6
  <2>2. CASE c = Settle(b, {m}) /\ returned'[i] = returned[i] + n /\ PaidMilestones(i)' = P
             /\ RefundedByDispute(i)' = R \cup {m}
    <3>1. /\ Sum(bounty'[i].amounts, PaidMilestones(i)') = p
          /\ Sum(bounty'[i].amounts, RefundedByDispute(i)') = r + n
      BY <1>3, <1>4, <1>9, <2>2
    <3>2. bounty'[i].released_amount = SatAdd(0, p)
      BY <1>3, <1>4, <1>10, <2>2
    <3>3. returned'[i] = (r + n) + 0
      <4> HIDE DEF n, p, r
      <4>1. QED
        BY <1>2, <1>8, <1>10, <2>2
    <3>4. AccountExact(i)'
      BY <1>3, <1>4, <1>5, <3>1, <3>2, <3>3 DEF AccountExact
    <3>5. Left(i)' = (returned[i] + n) + p
      BY <2>2, <3>1 DEF Left
    <3> HIDE DEF n, p, r
    <3>6. QED
      BY <1>2, <1>8, <1>10, <3>4, <3>5
  <2>3. QED
    BY <2>1, <2>2
<1>12. AccountsExact'
  BY <1>4, <1>6, <1>11, NextBooksByAccount
<1>13. EscrowBalanced'
  <2>1. b.token \in Token /\ n \in Nat
    BY <1>1, <1>2 DEF Bounty
  <2>2. \A u \in Token : balance'[u][ThisBounty] + (IF u = b.token THEN n ELSE 0)
                           = balance[u][ThisBounty]
    BY <2>1, TransferOut
  <2>3. \A j \in DOMAIN bounty : /\ bounty'[j].token = bounty[j].token
                                  /\ bounty'[j].amount = bounty[j].amount
    BY <1>3, <1>4
  <2>4. IsFiniteSet(DOMAIN bounty) /\ EscrowBalanced
    BY DEF BooksInv, UncreatedAreUntouched
  <2> HIDE DEF n, P, R
  <2>5. QED
    BY <1>4, <1>6, <1>11, <2>1, <2>2, <2>3, <2>4, LeavingBalanced
<1>14. RefundedAreClosed'
  BY <1>3, <1>4, <1>5 DEF BooksInv, RefundedAreClosed
<1>15. UncreatedAreUntouched'
  BY <1>1, <1>4 DEF BooksInv, UncreatedAreUntouched
<1>16. /\ \A j \in DOMAIN bounty : bounty[j].settled \subseteq bounty'[j].settled
       /\ m \in bounty'[i].settled
  BY <1>3, <1>4
<1>17. QED
  BY <1>4, <1>12, <1>13, <1>14, <1>15, <1>16

\* The payment of one milestone raises what was paid for its bounty alone.
LEMMA PaidChange ==
  ASSUME NEW i \in Issue, NEW m \in Slot, paid' = paid \cup {<<i, m>>}
  PROVE  /\ PaidMilestones(i)' = PaidMilestones(i) \cup {m}
         /\ \A j : j # i => PaidMilestones(j)' = PaidMilestones(j)
BY DEF PaidMilestones

LEMMA ReleaseBooks ==
  ASSUME EscrowTypeOK, SettlementInv, BooksInv, EscrowTypeOK', SettlementInv',
         NEW i \in Issue, NEW m \in Slot, apply_release(i, m)
  PROVE  BooksInv'
<1> DEFINE b == bounty[i]
<1>1. /\ i \in DOMAIN bounty /\ b \in Bounty /\ m \in Milestones(b) \ b.settled
      /\ b.contributor \in Address
      /\ bounty' = [bounty EXCEPT ![i] = Pay(b, m)]
      /\ Transfer(b.token, ThisBounty, b.contributor, b.amounts[m])
      /\ paid' = paid \cup {<<i, m>>}
      /\ UNCHANGED <<dispute, returned>>
  BY StoredBounty, PartyTypes DEF apply_release
<1>2. \A j : RefundedByDispute(j)' = RefundedByDispute(j)
  BY <1>1 DEF RefundedByDispute
<1>3. /\ AccountsExact' /\ EscrowBalanced' /\ RefundedAreClosed' /\ UncreatedAreUntouched'
      /\ DOMAIN bounty' = DOMAIN bounty
      /\ \A j \in DOMAIN bounty : bounty[j].settled \subseteq bounty'[j].settled
  BY <1>1, <1>2, PaidChange, SettlingBooks
<1>4. DecidedAreSettled'
  BY <1>1, <1>3 DEF BooksInv, DecidedAreSettled
<1>5. QED
  BY <1>3, <1>4 DEF BooksInv

\* A resolution: the decision is recorded once, on a dispute of that milestone.
LEMMA ResolutionBooks ==
  ASSUME EscrowTypeOK, NEW id, NEW pay \in BOOLEAN, Resolvable(id, pay),
         ResolutionRecorded(id, pay),
         NEW i, i = dispute[id].issue, NEW m, m = dispute[id].milestone
  PROVE  /\ DOMAIN dispute' = DOMAIN dispute
         /\ \A k \in DOMAIN dispute : /\ dispute'[k].issue = dispute[k].issue
                                      /\ dispute'[k].milestone = dispute[k].milestone
                                      /\ k # id => dispute'[k] = dispute[k]
         /\ pay => RefundedByDispute(i)' = RefundedByDispute(i)
         /\ ~pay => RefundedByDispute(i)' = RefundedByDispute(i) \cup {m}
         /\ \A j : j # i => RefundedByDispute(j)' = RefundedByDispute(j)
<1>1. id \in DOMAIN dispute /\ dispute[id] \in Dispute /\ ~dispute[id].resolved
      /\ dispute[id].milestone \in Slot
  BY ResolvableTypes DEF Resolvable
<1>2. /\ DOMAIN dispute' = DOMAIN dispute
      /\ \A k \in DOMAIN dispute : /\ dispute'[k].issue = dispute[k].issue
                                   /\ dispute'[k].milestone = dispute[k].milestone
                                   /\ k # id => dispute'[k] = dispute[k]
      /\ dispute'[id].resolved = TRUE /\ dispute'[id].pay_contributor = pay
  BY <1>1 DEF ResolutionRecorded, Dispute
<1>3. ASSUME NEW j
      PROVE  RefundedByDispute(j)' = RefundedByDispute(j)
               \cup (IF pay \/ j # i THEN {} ELSE {m})
  <2>1. \A k \in Slot : k \in RefundedByDispute(j)' <=>
          \/ k \in RefundedByDispute(j)
          \/ ~pay /\ j = i /\ k = m
    <3>1. TAKE k \in Slot
    <3>2. k \in RefundedByDispute(j)' <=>
            \E x \in DOMAIN dispute : /\ dispute[x].issue = j /\ dispute[x].milestone = k
                                      /\ dispute'[x].resolved /\ ~dispute'[x].pay_contributor
      BY <1>2 DEF RefundedByDispute
    <3>3. k \in RefundedByDispute(j) <=>
            \E x \in DOMAIN dispute : /\ dispute[x].issue = j /\ dispute[x].milestone = k
                                      /\ dispute[x].resolved /\ ~dispute[x].pay_contributor
      BY DEF RefundedByDispute
    <3>4. QED
      BY <1>1, <1>2, <3>2, <3>3
  <2>2. RefundedByDispute(j) \subseteq Slot /\ RefundedByDispute(j)' \subseteq Slot
    BY DEF RefundedByDispute
  <2>3. QED
    BY <1>1, <2>1, <2>2
<1>4. QED
  BY <1>2, <1>3

\* A resolution says of no dispute another issue or milestone.
LEMMA ResolutionTerms ==
  ASSUME EscrowTypeOK, NEW id, NEW pay \in BOOLEAN, Resolvable(id, pay),
         ResolutionRecorded(id, pay)
  PROVE  /\ DOMAIN dispute' = DOMAIN dispute
         /\ \A k \in DOMAIN dispute : /\ dispute'[k].issue = dispute[k].issue
                                      /\ dispute'[k].milestone = dispute[k].milestone
                                      /\ k # id => dispute'[k] = dispute[k]
BY ResolutionBooks

\* A resolution that pays refunds nothing, one that refunds just its milestone.
LEMMA ResolutionRefunds ==
  ASSUME EscrowTypeOK, NEW id, NEW pay \in BOOLEAN, Resolvable(id, pay),
         ResolutionRecorded(id, pay), NEW i, i = dispute[id].issue
  PROVE  /\ pay => RefundedByDispute(i)' = RefundedByDispute(i)
         /\ ~pay => RefundedByDispute(i)' = RefundedByDispute(i) \cup {dispute[id].milestone}
         /\ \A j : j # i => RefundedByDispute(j)' = RefundedByDispute(j)
<1>1. PICK m : m = dispute[id].milestone
  OBVIOUS
<1>2. /\ pay => RefundedByDispute(i)' = RefundedByDispute(i)
      /\ ~pay => RefundedByDispute(i)' = RefundedByDispute(i) \cup {m}
      /\ \A j : j # i => RefundedByDispute(j)' = RefundedByDispute(j)
  BY <1>1, ResolutionBooks
<1>3. QED
  BY <1>1, <1>2

LEMMA PayingBooks ==
  ASSUME EscrowTypeOK, SettlementInv, BooksInv, EscrowTypeOK', SettlementInv',
         NEW id, ResolveByPaying(id)
  PROVE  BooksInv'
<1>0. PICK i, m : i = dispute[id].issue /\ m = dispute[id].milestone
  OBVIOUS
<1> DEFINE b == bounty[i]
<1>1. Resolvable(id, TRUE) /\ ResolutionRecorded(id, TRUE)
  BY DEF ResolveByPaying
<1>2. /\ i \in DOMAIN bounty /\ b \in Bounty /\ m \in Milestones(b) \ b.settled
      /\ b.contributor \in Address /\ i \in Issue /\ m \in Slot
      /\ bounty' = [bounty EXCEPT ![i] = Pay(b, m)]
      /\ Transfer(b.token, ThisBounty, b.contributor, b.amounts[m])
      /\ paid' = paid \cup {<<i, m>>}
      /\ UNCHANGED returned
  BY <1>0, <1>1, ResolvableTypes, PartyTypes DEF ResolveByPaying, Resolvable
<1>3. /\ \A j : RefundedByDispute(j)' = RefundedByDispute(j)
      /\ DOMAIN dispute' = DOMAIN dispute
      /\ \A k \in DOMAIN dispute : /\ dispute'[k].issue = dispute[k].issue
                                   /\ dispute'[k].milestone = dispute[k].milestone
                                   /\ k # id => dispute'[k] = dispute[k]
  <2>1. RefundedByDispute(i)' = RefundedByDispute(i)
    BY <1>0, <1>1, ResolutionRefunds
  <2>2. \A j : j # i => RefundedByDispute(j)' = RefundedByDispute(j)
    BY <1>0, <1>1, ResolutionRefunds
  <2>3. /\ DOMAIN dispute' = DOMAIN dispute
        /\ \A k \in DOMAIN dispute : /\ dispute'[k].issue = dispute[k].issue
                                     /\ dispute'[k].milestone = dispute[k].milestone
                                     /\ k # id => dispute'[k] = dispute[k]
    BY <1>1, ResolutionTerms
  <2>4. QED
    BY <2>1, <2>2, <2>3
<1>4. /\ AccountsExact' /\ EscrowBalanced' /\ RefundedAreClosed' /\ UncreatedAreUntouched'
      /\ DOMAIN bounty' = DOMAIN bounty
      /\ \A j \in DOMAIN bounty : bounty[j].settled \subseteq bounty'[j].settled
      /\ m \in bounty'[i].settled
  BY <1>2, <1>3, PaidChange, SettlingBooks
<1>5. DecidedAreSettled'
  <2>1. ASSUME NEW k \in DOMAIN dispute', dispute'[k].resolved
        PROVE  /\ dispute'[k].issue \in DOMAIN bounty'
               /\ dispute'[k].milestone \in bounty'[dispute'[k].issue].settled
    <3>1. CASE k = id
      BY <1>0, <1>2, <1>3, <1>4, <2>1, <3>1
    <3>2. CASE k # id
      BY <1>3, <1>4, <2>1, <3>2 DEF BooksInv, DecidedAreSettled
    <3>3. QED
      BY <3>1, <3>2
  <2>2. QED
    BY <2>1 DEF DecidedAreSettled
<1>6. QED
  BY <1>4, <1>5 DEF BooksInv

LEMMA RefundingBooks ==
  ASSUME EscrowTypeOK, SettlementInv, BooksInv, EscrowTypeOK', SettlementInv',
         NEW id, ResolveByRefunding(id)
  PROVE  BooksInv'
<1>0. PICK i, m, pay :
        i = dispute[id].issue /\ m = dispute[id].milestone /\ pay = FALSE /\ pay \in BOOLEAN
  OBVIOUS
<1> DEFINE b == bounty[i]
<1>1. Resolvable(id, pay) /\ ResolutionRecorded(id, pay)
  BY <1>0 DEF ResolveByRefunding
<1>2. /\ i \in DOMAIN bounty /\ b \in Bounty /\ m \in Milestones(b) \ b.settled
      /\ b.funder \in Address /\ i \in Issue
      /\ bounty' = [bounty EXCEPT ![i] = Settle(b, {m})]
      /\ Transfer(b.token, ThisBounty, b.funder, b.amounts[m])
      /\ returned' = [returned EXCEPT ![i] = @ + b.amounts[m]]
      /\ UNCHANGED paid
  BY <1>0, <1>1, ResolvableTypes DEF ResolveByRefunding, Resolvable, Bounty
<1>3. /\ RefundedByDispute(i)' = RefundedByDispute(i) \cup {m}
      /\ \A j : j # i => RefundedByDispute(j)' = RefundedByDispute(j)
      /\ DOMAIN dispute' = DOMAIN dispute
      /\ \A k \in DOMAIN dispute : /\ dispute'[k].issue = dispute[k].issue
                                   /\ dispute'[k].milestone = dispute[k].milestone
                                   /\ k # id => dispute'[k] = dispute[k]
  <2>1. RefundedByDispute(i)' = RefundedByDispute(i) \cup {m}
    BY <1>0, <1>1, ResolutionRefunds
  <2>2. \A j : j # i => RefundedByDispute(j)' = RefundedByDispute(j)
    BY <1>0, <1>1, ResolutionRefunds
  <2>3. /\ DOMAIN dispute' = DOMAIN dispute
        /\ \A k \in DOMAIN dispute : /\ dispute'[k].issue = dispute[k].issue
                                     /\ dispute'[k].milestone = dispute[k].milestone
                                     /\ k # id => dispute'[k] = dispute[k]
    BY <1>0, <1>1, ResolutionTerms
  <2>4. QED
    BY <2>1, <2>2, <2>3
<1>4. \A j : PaidMilestones(j)' = PaidMilestones(j)
  BY <1>2 DEF PaidMilestones
<1>5. /\ returned'[i] = returned[i] + b.amounts[m]
      /\ \A j \in Issue : j # i => returned'[j] = returned[j]
  BY <1>2 DEF EscrowTypeOK
<1>6. /\ AccountsExact' /\ EscrowBalanced' /\ RefundedAreClosed' /\ UncreatedAreUntouched'
      /\ DOMAIN bounty' = DOMAIN bounty
      /\ \A j \in DOMAIN bounty : bounty[j].settled \subseteq bounty'[j].settled
      /\ m \in bounty'[i].settled
  BY <1>2, <1>3, <1>4, <1>5, SettlingBooks
<1>7. DecidedAreSettled'
  <2>1. ASSUME NEW k \in DOMAIN dispute', dispute'[k].resolved
        PROVE  /\ dispute'[k].issue \in DOMAIN bounty'
               /\ dispute'[k].milestone \in bounty'[dispute'[k].issue].settled
    <3>1. CASE k = id
      BY <1>0, <1>2, <1>3, <1>6, <2>1, <3>1
    <3>2. CASE k # id
      BY <1>3, <1>6, <2>1, <3>2 DEF BooksInv, DecidedAreSettled
    <3>3. QED
      BY <3>1, <3>2
  <2>2. QED
    BY <2>1 DEF DecidedAreSettled
<1>8. QED
  BY <1>6, <1>7 DEF BooksInv

LEMMA InitBooks == EscrowInit => BooksInv
<1> SUFFICES ASSUME EscrowInit PROVE BooksInv
  OBVIOUS
<1>1. /\ DOMAIN bounty = {} /\ DOMAIN dispute = {}
      /\ \A i \in Issue : returned[i] = 0
      /\ \A t \in Token : balance[t][ThisBounty] = 0
  <2>1. ThisBounty \notin Funders
    BY EscrowConstants
  <2>2. QED
    BY <2>1 DEF EscrowInit, Account
<1>2. \A t \in Token : Balanced(t)
  <2>1. TAKE t \in Token
  <2>2. InToken(t) = {}
    BY <1>1 DEF InToken
  <2>3. QED
    BY <1>1, <2>2, SumEmpty DEF Balanced
<1>3. DecidedAreSettled /\ RefundedAreClosed /\ UncreatedAreUntouched
  BY <1>1, FS_EmptySet DEF DecidedAreSettled, RefundedAreClosed, UncreatedAreUntouched
<1>4. QED
  BY <1>1, <1>2, <1>3, BooksByAccount DEF BooksInv

LEMMA BooksStep ==
  ASSUME EscrowTypeOK, SettlementInv, BooksInv, [EscrowNext]_escrowVars
  PROVE  BooksInv'
<1>1. EscrowTypeOK' /\ SettlementInv'
  BY TypeStep, SettlementStep
<1>2. ASSUME NEW r \in RegistryChoices, InitContract(r)  PROVE BooksInv'
  BY <1>2, UntouchedBooks DEF InitContract
<1>3. CASE UserStep
  <2>1. ASSUME NEW f \in Funders, NEW t \in Token, NEW i \in Issue, NEW l \in MilestoneLists,
               create_bounty(f, t, i, l)
        PROVE  BooksInv'
    BY <2>1, CreateBooks
  <2>2. ASSUME NEW i \in Issue, NEW w \in Workers, claim(i, w)
        PROVE  BooksInv'
    <3> DEFINE c == [bounty[i] EXCEPT !.contributor = w]
    <3>1. i \in DOMAIN bounty /\ bounty[i] \in Bounty
      BY <2>2, StoredBounty DEF claim
    <3>2. /\ c.amounts = bounty[i].amounts /\ c.amount = bounty[i].amount
          /\ c.token = bounty[i].token /\ c.released_amount = bounty[i].released_amount
          /\ c.refunded = bounty[i].refunded /\ c.settled = bounty[i].settled
          /\ c.released = bounty[i].released
      BY <3>1 DEF Bounty
    <3>3. bounty' = [bounty EXCEPT ![i] = c] /\ UNCHANGED <<dispute, balance, paid, returned>>
      BY <2>2 DEF claim
    <3> HIDE DEF c
    <3>4. QED
      BY <3>1, <3>2, <3>3, TermsBooks
  <2>3. ASSUME NEW i \in Issue, reclaim(i)
        PROVE  BooksInv'
    <3>1. /\ i \in DOMAIN bounty /\ ~bounty[i].released /\ bounty[i].released_amount = 0
          /\ bounty[i] \in Bounty /\ RefundRemaining(i)
      BY <2>3, StoredBounty DEF reclaim
    <3>2. remaining_escrow(bounty[i]) \in Nat
      <4>1. bounty[i].amount \in 1..MaxI128 /\ MaxI128 \in Nat
        BY <3>1, RegistryConstants DEF Bounty
      <4>2. QED
        BY <3>1, <4>1 DEF remaining_escrow
    <3>3. QED
      BY <1>1, <3>1, <3>2, RefundBooks
  <2>4. ASSUME NEW v \in Address, NEW i \in Issue, NEW m \in Slot, NEW d \in Decision,
               submit_review(v, i, m, d)
        PROVE  BooksInv'
    BY <2>4, UntouchedBooks DEF submit_review
  <2>5. ASSUME NEW a \in Address, NEW i \in Issue, NEW m \in Slot, open_dispute(a, i, m)
        PROVE  BooksInv'
    BY <2>5, OpenDisputeBooks
  <2>6. ASSUME NEW v \in Address, NEW id \in 1..MaxDisputes, NEW pay \in BOOLEAN,
               vote_on_dispute(v, id, pay)
        PROVE  BooksInv'
    BY <2>6, VoteBooks
  <2>7. QED
    BY <1>3, <2>1, <2>2, <2>3, <2>4, <2>5, <2>6 DEF UserStep
<1>4. ASSUME NEW a \in Proposable, execute_action(a)  PROVE BooksInv'
  <2>1. ASSUME NEW i \in Issue, NEW m \in Slot, apply_release(i, m)
        PROVE  BooksInv'
    BY <1>1, <2>1, ReleaseBooks
  <2>2. ASSUME NEW i \in Issue, apply_reclaim(i)
        PROVE  BooksInv'
    <3>1. /\ i \in DOMAIN bounty /\ ~bounty[i].released /\ bounty[i] \in Bounty
          /\ remaining_escrow(bounty[i]) > 0 /\ RefundRemaining(i)
      BY <2>2, StoredBounty DEF apply_reclaim
    <3>2. remaining_escrow(bounty[i]) \in Nat
      BY <3>1, PartyTypes
    <3>3. QED
      BY <1>1, <3>1, <3>2, RefundBooks
  <2>3. ASSUME NEW i \in Issue, NEW rs \in Seq(Address), NEW q \in Nat,
               apply_set_reviewers(i, rs, q)
        PROVE  BooksInv'
    <3> DEFINE c == [bounty[i] EXCEPT !.reviewers = Members(rs), !.reviewer_quorum = q]
    <3>1. i \in DOMAIN bounty /\ bounty[i] \in Bounty
      BY <2>3, StoredBounty DEF apply_set_reviewers
    <3>2. /\ c.amounts = bounty[i].amounts /\ c.amount = bounty[i].amount
          /\ c.token = bounty[i].token /\ c.released_amount = bounty[i].released_amount
          /\ c.refunded = bounty[i].refunded /\ c.settled = bounty[i].settled
          /\ c.released = bounty[i].released
      BY <3>1 DEF Bounty
    <3>3. bounty' = [bounty EXCEPT ![i] = c] /\ UNCHANGED <<dispute, balance, paid, returned>>
      BY <2>3, <3>1 DEF apply_set_reviewers
    <3> HIDE DEF c
    <3>4. QED
      BY <3>1, <3>2, <3>3, TermsBooks
  <2>4. ASSUME NEW id, ResolveByPaying(id)  PROVE BooksInv'
    BY <1>1, <2>4, PayingBooks
  <2>5. ASSUME NEW id, ResolveByRefunding(id)  PROVE BooksInv'
    BY <1>1, <2>5, RefundingBooks
  <2>6. QED
    BY <1>4, <2>1, <2>2, <2>3, <2>4, <2>5, ExecutedActions
<1>5. CASE RegistryStep
  BY <1>5, UntouchedBooks DEF RegistryStep
<1>6. CASE UNCHANGED escrowVars
  BY <1>6, UntouchedBooks DEF escrowVars
<1>7. QED
  BY <1>2, <1>3, <1>4, <1>5, <1>6 DEF EscrowNext

\* The whole inductive invariant of the books, in every run of the escrow.
THEOREM BooksCorrect == EscrowSpec => []BooksInv
<1>1. EscrowTypeOK /\ SettlementInv /\ BooksInv /\ [EscrowNext]_escrowVars => BooksInv'
  BY BooksStep
<1>2. QED
  BY InitBooks, SettlementCorrect, <1>1, PTL DEF EscrowSpec

\* The books balance in every state, whatever is created, paid, refunded, disputed
\* and reclaimed: every account states exactly what moved for its bounty, and the
\* escrow's balance in every token is what was locked less what left.
THEOREM BooksAlwaysBalance == EscrowSpec => []BooksBalance
<1>1. BooksInv => BooksBalance
  BY DEF BooksInv, BooksBalance
<1>2. QED
  BY <1>1, BooksCorrect, PTL

-----------------------------------------------------------------------------
(* The money and the fate of the milestones.  The refinement mapping reads *)
(* the fate off `settled`, `paid`, the disputes and `refunded`, and the    *)
(* funds off the balances of the escrow's own account.                     *)

\* The abstract state as the refinement mapping gives it.
FateMap == [k \in Issue \X Slot |-> Fate(k[1], k[2])]
TermsMap == [i \in DOMAIN bounty |->
               [token |-> bounty[i].token, amounts |-> bounty[i].amounts,
                locked |-> bounty[i].amount]]
FundsMap == [t \in Token |-> balance[t][ThisBounty]]
Mapped == <<FateMap, TermsMap, FundsMap>>

\* Whatever is settled was paid, or refunded by a dispute, until a reclaim
\* settles the rest.  That no money but a dispute's refund leaves twice rests on it.
Accounted(i) ==
  bounty[i].refunded \/ bounty[i].settled \subseteq PaidMilestones(i) \cup RefundedByDispute(i)

SettledAreAccounted == \A i \in DOMAIN bounty : Accounted(i)

\* The invariants that the steps of the money need.
MoneyInv == EscrowTypeOK /\ SettlementInv /\ BooksInv /\ SettledAreAccounted

\* One bounty is accounted for, and the others are not touched.
LEMMA OthersAccounted ==
  ASSUME SettledAreAccounted, NEW i, i \in DOMAIN bounty' => Accounted(i)',
         \A j \in DOMAIN bounty' : j # i =>
           /\ j \in DOMAIN bounty
           /\ bounty'[j].settled = bounty[j].settled
           /\ bounty'[j].refunded = bounty[j].refunded
           /\ PaidMilestones(j) \subseteq PaidMilestones(j)'
           /\ RefundedByDispute(j) \subseteq RefundedByDispute(j)'
  PROVE  SettledAreAccounted'
<1>1. ASSUME NEW j \in DOMAIN bounty'  PROVE Accounted(j)'
  <2>1. CASE j = i
    BY <1>1, <2>1
  <2>2. CASE j # i
    BY <1>1, <2>2 DEF SettledAreAccounted, Accounted
  <2>3. QED
    BY <2>1, <2>2
<1>2. QED
  BY <1>1 DEF SettledAreAccounted

\* Nothing that the fate of this milestone is read from is written.
LEMMA SameFate ==
  ASSUME NEW i \in Issue, NEW m \in Slot,
         i \in DOMAIN bounty' <=> i \in DOMAIN bounty,
         i \in DOMAIN bounty =>
           /\ bounty'[i].amounts = bounty[i].amounts
           /\ bounty'[i].refunded = bounty[i].refunded
           /\ m \in bounty'[i].settled <=> m \in bounty[i].settled
           /\ m \in RefundedByDispute(i)' <=> m \in RefundedByDispute(i),
         <<i, m>> \in paid' <=> <<i, m>> \in paid,
         Disputed(i, m)' <=> Disputed(i, m)
  PROVE  Fate(i, m)' = Fate(i, m)
BY DEF Fate, Milestones

\* The fate of one milestone changes: the mapping changes there.
LEMMA OneFate ==
  ASSUME NEW i \in Issue, NEW m \in Slot, NEW v, Fate(i, m)' = v,
         \A j \in Issue, n \in Slot : <<j, n>> # <<i, m>> => Fate(j, n)' = Fate(j, n)
  PROVE  FateMap' = [FateMap EXCEPT ![<<i, m>>] = v]
<1>1. ASSUME NEW k \in Issue \X Slot
      PROVE  FateMap'[k] = [FateMap EXCEPT ![<<i, m>>] = v][k]
  <2>1. k[1] \in Issue /\ k[2] \in Slot /\ k = <<k[1], k[2]>>
    OBVIOUS
  <2>2. FateMap'[k] = Fate(k[1], k[2])' /\ FateMap[k] = Fate(k[1], k[2])
    BY DEF FateMap
  <2>3. CASE k = <<i, m>>
    <3>1. k[1] = i /\ k[2] = m
      BY <2>3
    <3>2. QED
      BY <2>2, <2>3, <3>1 DEF FateMap
  <2>4. CASE k # <<i, m>>
    BY <2>1, <2>2, <2>4 DEF FateMap
  <2>5. QED
    BY <2>3, <2>4
<1>2. QED
  BY <1>1 DEF FateMap

\* The terms of the bounties are not written.
LEMMA SameTermsMap ==
  ASSUME DOMAIN bounty' = DOMAIN bounty,
         \A j \in DOMAIN bounty : /\ bounty'[j].token = bounty[j].token
                                  /\ bounty'[j].amounts = bounty[j].amounts
                                  /\ bounty'[j].amount = bounty[j].amount
  PROVE  UNCHANGED TermsMap
BY DEF TermsMap

\* A transfer out of the escrow's account is money leaving Settlement's funds.
LEMMA TransferLeaves ==
  ASSUME EscrowTypeOK, NEW t \in Token, NEW a \in Address, NEW n \in Nat,
         Transfer(t, ThisBounty, a, n)
  PROVE  Settlement!Leave(t, n)
<1>1. balance[t][ThisBounty] >= n
  BY DEF Transfer
<1>2. \A u \in Token : balance[u][ThisBounty] \in Nat /\ balance'[u][ThisBounty] \in Nat
  <2>1. ThisBounty \in Account /\ a \in Account
    BY DEF Account
  <2>2. balance \in [Token -> [Account -> Nat]]
    BY DEF EscrowTypeOK
  <2>3. balance' \in [Token -> [Account -> Nat]]
    BY <2>1, TransferType
  <2>4. QED
    BY <2>1, <2>2, <2>3
<1>3. \A u \in Token : balance'[u][ThisBounty] + (IF u = t THEN n ELSE 0)
                         = balance[u][ThisBounty]
  BY TransferOut
<1>4. \A u \in Token : balance'[u][ThisBounty]
                         = IF u = t THEN balance[u][ThisBounty] - n ELSE balance[u][ThisBounty]
  BY <1>2, <1>3
<1>5. QED
  BY <1>1, <1>4 DEF Settlement!Leave

\* The fate of a milestone that no dispute and no settlement has touched.
LEMMA HeldFate ==
  ASSUME SettlementInv, NEW i \in DOMAIN bounty, NEW m \in Milestones(bounty[i]),
         m \notin bounty[i].settled, ~Disputed(i, m)
  PROVE  Fate(i, m) = "held"
BY DEF Fate, SettlementInv, PaidAreSettled

-----------------------------------------------------------------------------
LEMMA InitMoney == EscrowInit => Settlement!Init /\ SettledAreAccounted
<1> SUFFICES ASSUME EscrowInit PROVE Settlement!Init /\ SettledAreAccounted
  OBVIOUS
<1>1. \A k \in Issue \X Slot : Fate(k[1], k[2]) = "absent"
  BY DEF EscrowInit, Fate
<1>2. FateMap = [k \in Settlement!Key |-> "absent"]
  BY <1>1 DEF FateMap, Settlement!Key, Slot
<1>3. TermsMap = [i \in {} |-> 0]
  BY DEF EscrowInit, TermsMap
<1>4. FundsMap = [t \in Token |-> 0]
  <2>1. ThisBounty \notin Funders
    BY EscrowConstants
  <2>2. \A t \in Token : balance[t][ThisBounty] = 0
    BY <2>1 DEF EscrowInit, Account
  <2>3. QED
    BY <2>2 DEF FundsMap
<1>5. Settlement!Init
  BY <1>2, <1>3, <1>4 DEF Settlement!Init, FateMap, TermsMap, FundsMap
<1>6. SettledAreAccounted
  BY DEF EscrowInit, SettledAreAccounted
<1>7. QED
  BY <1>5, <1>6

\* A step that leaves milestones, payments, refunds and balances as they are.
LEMMA KeptMoney ==
  ASSUME SettledAreAccounted, DOMAIN bounty' = DOMAIN bounty,
         \A j \in DOMAIN bounty :
           /\ bounty'[j].token = bounty[j].token
           /\ bounty'[j].amounts = bounty[j].amounts
           /\ bounty'[j].amount = bounty[j].amount
           /\ bounty'[j].settled = bounty[j].settled
           /\ bounty'[j].refunded = bounty[j].refunded,
         \A j : RefundedByDispute(j)' = RefundedByDispute(j),
         \A j \in Issue, n \in Slot : Disputed(j, n)' <=> Disputed(j, n),
         UNCHANGED <<balance, paid>>
  PROVE  UNCHANGED Mapped /\ SettledAreAccounted'
<1>1. ASSUME NEW j \in Issue, NEW n \in Slot  PROVE Fate(j, n)' = Fate(j, n)
  BY SameFate
<1>2. UNCHANGED FateMap
  BY <1>1 DEF FateMap
<1>3. UNCHANGED TermsMap
  BY SameTermsMap
<1>4. UNCHANGED FundsMap
  BY DEF FundsMap
<1>5. \A j : PaidMilestones(j)' = PaidMilestones(j)
  BY DEF PaidMilestones
<1>6. SettledAreAccounted'
  BY <1>5 DEF SettledAreAccounted, Accounted
<1>7. QED
  BY <1>2, <1>3, <1>4, <1>6 DEF Mapped

\* Neither bounties nor disputes nor payments are written.
LEMMA UntouchedMoney ==
  ASSUME SettledAreAccounted, UNCHANGED <<bounty, dispute, balance, paid>>
  PROVE  UNCHANGED Mapped /\ SettledAreAccounted'
<1>1. \A j : RefundedByDispute(j)' = RefundedByDispute(j)
  BY DEF RefundedByDispute
<1>2. \A j \in Issue, n \in Slot : Disputed(j, n)' <=> Disputed(j, n)
  BY DEF Disputed, OpenDisputes
<1>3. QED
  BY <1>1, <1>2, KeptMoney

\* The contributor or the panel of a bounty changes.
LEMMA TermsMoney ==
  ASSUME EscrowTypeOK, SettledAreAccounted, NEW i \in DOMAIN bounty, NEW c,
         bounty' = [bounty EXCEPT ![i] = c],
         c.token = bounty[i].token, c.amount = bounty[i].amount,
         c.amounts = bounty[i].amounts, c.settled = bounty[i].settled,
         c.refunded = bounty[i].refunded,
         UNCHANGED <<dispute, balance, paid>>
  PROVE  UNCHANGED Mapped /\ SettledAreAccounted'
<1>1. /\ DOMAIN bounty' = DOMAIN bounty
      /\ bounty'[i] = c
      /\ \A j \in DOMAIN bounty : j # i => bounty'[j] = bounty[j]
  BY DEF EscrowTypeOK
<1>2. \A j : RefundedByDispute(j)' = RefundedByDispute(j)
  BY DEF RefundedByDispute
<1>3. \A j \in Issue, n \in Slot : Disputed(j, n)' <=> Disputed(j, n)
  BY DEF Disputed, OpenDisputes
<1>4. \A j \in DOMAIN bounty : /\ bounty'[j].token = bounty[j].token
                               /\ bounty'[j].amounts = bounty[j].amounts
                               /\ bounty'[j].amount = bounty[j].amount
                               /\ bounty'[j].settled = bounty[j].settled
                               /\ bounty'[j].refunded = bounty[j].refunded
  BY <1>1
<1>5. QED
  BY <1>1, <1>2, <1>3, <1>4, KeptMoney

LEMMA VoteMoney ==
  ASSUME EscrowTypeOK, SettledAreAccounted, NEW v \in Address, NEW id \in 1..MaxDisputes,
         NEW pay \in BOOLEAN, vote_on_dispute(v, id, pay)
  PROVE  UNCHANGED Mapped /\ SettledAreAccounted'
<1>1. id \in DOMAIN dispute /\ UNCHANGED <<bounty, balance, paid>>
  BY DEF vote_on_dispute
<1>2. /\ DOMAIN dispute' = DOMAIN dispute
      /\ \A k \in DOMAIN dispute :
           /\ dispute'[k].issue = dispute[k].issue
           /\ dispute'[k].milestone = dispute[k].milestone
           /\ dispute'[k].resolved = dispute[k].resolved
           /\ dispute'[k].pay_contributor = dispute[k].pay_contributor
  <2>1. dispute[id] \in Dispute
    BY <1>1, StoredDispute
  <2>2. QED
    BY <1>1, <2>1 DEF vote_on_dispute, Dispute
<1>3. \A j : RefundedByDispute(j)' = RefundedByDispute(j)
  BY <1>2, SameRefunds
<1>4. \A j \in Issue, n \in Slot : Disputed(j, n)' <=> Disputed(j, n)
  BY <1>2 DEF Disputed, OpenDisputes
<1>5. QED
  BY <1>1, <1>3, <1>4, KeptMoney

\* create_bounty locks every milestone of the new bounty.
LEMMA CreateMoney ==
  ASSUME MoneyInv, NEW f \in Funders, NEW t \in Token, NEW i \in Issue,
         NEW l \in MilestoneLists, create_bounty(f, t, i, l)
  PROVE  Settlement!Next /\ SettledAreAccounted'
<1> USE DEF MoneyInv
<1> DEFINE n == Total(l)
<1>1. /\ i \notin DOMAIN bounty
      /\ UNCHANGED <<dispute, paid>>
      /\ DOMAIN bounty' = DOMAIN bounty \cup {i}
      /\ \A j \in DOMAIN bounty : bounty'[j] = bounty[j]
      /\ bounty'[i].settled = {} /\ bounty'[i].amounts = l
      /\ bounty'[i].token = t /\ bounty'[i].amount = n
      /\ Transfer(t, f, ThisBounty, n)
  BY DEF create_bounty, Put
<1>2. Len(l) \in Slot /\ DOMAIN l = 1..Len(l)
  <2>1. l \in Seq(1..MaxI128) /\ Len(l) \in Slot
    BY EscrowConstants
  <2>2. QED
    BY <2>1, LenProperties
<1>3. n = Worth(l, DOMAIN l) /\ n \in Nat
  <2>1. Total(l) = Worth(l, DOMAIN l)
    BY TotalIsSum DEF Worth, Sum
  <2>2. Total(l) \in Nat
    BY TotalInRange, RegistryConstants
  <2>3. QED
    BY <2>1, <2>2
<1> HIDE DEF n
<1>4. \A m \in Slot : ~Disputed(i, m)' /\ <<i, m>> \notin paid'
  <2>1. \A m \in Slot : <<i, m>> \notin paid
    BY <1>1 DEF SettlementInv, PaidAreSettled
  <2>2. \A m \in Slot : OpenDisputes(i, m) = {}
    BY <1>1 DEF SettlementInv, OpenDisputeHoldsMilestone, OpenDisputes
  <2>3. QED
    BY <1>1, <2>1, <2>2 DEF Disputed, OpenDisputes
<1>5. ASSUME NEW m \in Slot
      PROVE  Fate(i, m)' = IF m \in DOMAIN l THEN "held" ELSE "absent"
  BY <1>1, <1>4 DEF Fate, Milestones
<1>6. Fate(i, 1) = "absent" /\ \A m \in Slot : Fate(i, m) = "absent"
  BY <1>1 DEF Fate
<1>7. \A j : RefundedByDispute(j)' = RefundedByDispute(j)
  BY <1>1 DEF RefundedByDispute
<1>8. ASSUME NEW j \in Issue, NEW m \in Slot, j # i  PROVE Fate(j, m)' = Fate(j, m)
  <2>1. Disputed(j, m)' <=> Disputed(j, m)
    BY <1>1 DEF Disputed, OpenDisputes
  <2>2. QED
    BY <1>1, <1>7, <1>8, <2>1, SameFate
<1>9. FateMap' = [k \in Settlement!Key |->
                    IF k[1] = i /\ k[2] \in DOMAIN l THEN "held" ELSE FateMap[k]]
  <2>1. ASSUME NEW k \in Issue \X Slot
        PROVE  Fate(k[1], k[2])' = IF k[1] = i /\ k[2] \in DOMAIN l THEN "held"
                                   ELSE Fate(k[1], k[2])
    <3>1. CASE k[1] = i
      BY <1>5, <1>6, <3>1
    <3>2. CASE k[1] # i
      BY <1>8, <3>2
    <3>3. QED
      BY <3>1, <3>2
  <2>2. QED
    BY <2>1 DEF FateMap, Settlement!Key, Slot
<1>10. TermsMap' = [j \in DOMAIN TermsMap \cup {i} |->
                      IF j = i THEN [token |-> t, amounts |-> l, locked |-> n]
                      ELSE TermsMap[j]]
  <2>1. \A j \in DOMAIN bounty : j # i
    BY <1>1
  <2>2. DOMAIN TermsMap = DOMAIN bounty
    BY DEF TermsMap
  <2>3. QED
    BY <1>1, <2>1, <2>2 DEF TermsMap
<1>11. FundsMap' = [FundsMap EXCEPT ![t] = @ + n]
  <2>1. f \in Address
    BY EscrowConstants
  <2>2. \A u \in Token : balance'[u][ThisBounty]
                           = balance[u][ThisBounty] + (IF u = t THEN n ELSE 0)
    BY <1>1, <1>3, <2>1, TransferIn
  <2>3. \A u \in Token : balance[u][ThisBounty] \in Nat
    BY DEF EscrowTypeOK, Account
  <2>4. \A u \in Token : balance'[u][ThisBounty]
                           = IF u = t THEN balance[u][ThisBounty] + n
                             ELSE balance[u][ThisBounty]
    BY <1>3, <2>2, <2>3
  <2>5. QED
    BY <2>4 DEF FundsMap
<1>12. i \notin DOMAIN TermsMap
  BY <1>1 DEF TermsMap
<1>13. Settlement!Lock(i, t, l)
  BY <1>3, <1>9, <1>10, <1>11, <1>12 DEF Settlement!Lock, FateMap, TermsMap, FundsMap
<1>14. SettledAreAccounted'
  <2>1. Accounted(i)'
    BY <1>1 DEF Accounted
  <2>2. \A j : PaidMilestones(j)' = PaidMilestones(j)
    BY <1>1 DEF PaidMilestones
  <2>3. QED
    BY <1>1, <1>7, <2>1, <2>2, OthersAccounted
<1>15. QED
  BY <1>13, <1>14 DEF Settlement!Next

\* open_dispute contests a held milestone.
LEMMA OpenDisputeMoney ==
  ASSUME MoneyInv, NEW a \in Address, NEW i \in Issue, NEW m \in Slot,
         open_dispute(a, i, m)
  PROVE  Settlement!Next /\ SettledAreAccounted'
<1> USE DEF MoneyInv
<1> DEFINE n == Len(dispute) + 1
<1>1. /\ i \in DOMAIN bounty
      /\ m \in Milestones(bounty[i]) /\ m \notin bounty[i].settled
      /\ ~Disputed(i, m)
      /\ UNCHANGED <<bounty, balance, paid>>
  BY DEF open_dispute
<1>2. /\ DOMAIN dispute = 1..Len(dispute) /\ Len(dispute) \in Nat
      /\ DOMAIN dispute' = 1..n
      /\ \A id \in DOMAIN dispute : dispute'[id] = dispute[id]
      /\ dispute'[n].issue = i /\ dispute'[n].milestone = m /\ ~dispute'[n].resolved
  <2> DEFINE d == [issue |-> i, milestone |-> m, opener |-> a,
                   votes_pay_contributor |-> 0, votes_refund_funder |-> 0,
                   resolved |-> FALSE, pay_contributor |-> FALSE]
  <2>1. d \in Dispute /\ d.issue = i /\ d.milestone = m /\ ~d.resolved
    BY DEF Dispute
  <2>2. dispute' = Append(dispute, d) /\ dispute \in Seq(Dispute)
    BY DEF open_dispute, EscrowTypeOK
  <2> HIDE DEF d
  <2>3. QED
    BY <2>1, <2>2, AppendProperties, LenProperties
<1>3. \A id : id \in DOMAIN dispute' <=> id \in DOMAIN dispute \/ id = n
  BY <1>2
<1>4. Fate(i, m) = "held"
  BY <1>1, HeldFate
<1>5. Fate(i, m)' = "disputed"
  <2>1. <<i, m>> \notin paid
    BY <1>1 DEF SettlementInv, PaidAreSettled
  <2>2. Disputed(i, m)'
    BY <1>2, <1>3 DEF Disputed, OpenDisputes
  <2>3. QED
    BY <1>1, <2>1, <2>2 DEF Fate, Milestones
<1>6. \A j : RefundedByDispute(j)' = RefundedByDispute(j)
  BY <1>2, <1>3, SameRefunds
<1>7. ASSUME NEW j \in Issue, NEW k \in Slot, <<j, k>> # <<i, m>>
      PROVE  Fate(j, k)' = Fate(j, k)
  <2>1. OpenDisputes(j, k)' = OpenDisputes(j, k)
    BY <1>2, <1>3, <1>7 DEF OpenDisputes
  <2>2. Disputed(j, k)' <=> Disputed(j, k)
    BY <2>1 DEF Disputed
  <2>3. QED
    BY <1>1, <1>6, <2>2, SameFate
<1>8. FateMap' = [FateMap EXCEPT ![<<i, m>>] = "disputed"]
  BY <1>5, <1>7, OneFate
<1>9. FateMap[<<i, m>>] = "held"
  BY <1>4 DEF FateMap
<1>10. UNCHANGED <<TermsMap, FundsMap>>
  BY <1>1 DEF TermsMap, FundsMap
<1>11. Settlement!Contest(<<i, m>>)
  BY <1>8, <1>9, <1>10 DEF Settlement!Contest, FateMap, TermsMap, FundsMap
<1>12. SettledAreAccounted'
  <2>1. \A j : PaidMilestones(j)' = PaidMilestones(j)
    BY <1>1 DEF PaidMilestones
  <2>2. QED
    BY <1>1, <1>6, <2>1 DEF SettledAreAccounted, Accounted
<1>13. QED
  BY <1>11, <1>12 DEF Settlement!Next, Settlement!Key, Slot

\* Exactly one milestone is settled, paid to the contributor or refunded by a
\* dispute, which is not open on it afterwards, and its amount leaves.
LEMMA SettledMilestone ==
  ASSUME MoneyInv, NEW i \in DOMAIN bounty,
         NEW m \in Milestones(bounty[i]), m \notin bounty[i].settled,
         ~bounty[i].released, NEW c \in {Settle(bounty[i], {m}), Pay(bounty[i], m)},
         bounty' = [bounty EXCEPT ![i] = c],
         NEW a \in Address, Transfer(bounty[i].token, ThisBounty, a, bounty[i].amounts[m]),
         NEW pay \in BOOLEAN,
         paid' = IF pay THEN paid \cup {<<i, m>>} ELSE paid,
         \A j : j # i => RefundedByDispute(j)' = RefundedByDispute(j),
         RefundedByDispute(i)' = RefundedByDispute(i) \cup (IF pay THEN {} ELSE {m}),
         \A j \in Issue, n \in Slot :
           <<j, n>> # <<i, m>> => OpenDisputes(j, n)' = OpenDisputes(j, n)
  PROVE  /\ <<i, m>> \in Settlement!Key
         /\ FateMap' = [FateMap EXCEPT ![<<i, m>>] = IF pay THEN "paid" ELSE "refunded"]
         /\ UNCHANGED TermsMap
         /\ Settlement!Leave(TermsMap[i].token, TermsMap[i].amounts[m])
         /\ SettledAreAccounted'
<1> USE DEF MoneyInv
<1>0. i \in Issue /\ m \in Slot /\ bounty[i] \in Bounty
  BY StoredBounty, MilestoneTypes
<1>1. /\ c.amounts = bounty[i].amounts /\ c.amount = bounty[i].amount
      /\ c.token = bounty[i].token /\ c.refunded = bounty[i].refunded
      /\ c.settled = bounty[i].settled \cup {m}
  <2>1. PICK b : b = bounty[i]
    OBVIOUS
  <2>2. b \in Bounty /\ m \in Milestones(b) /\ (c = Settle(b, {m}) \/ c = Pay(b, m))
    BY <1>0, <2>1
  <2>3. /\ c.amounts = b.amounts /\ c.amount = b.amount /\ c.token = b.token
        /\ c.refunded = b.refunded /\ c.settled = b.settled \cup {m}
    BY <2>2, PayParts
  <2>4. QED
    BY <2>1, <2>3
<1>2. /\ DOMAIN bounty' = DOMAIN bounty
      /\ bounty'[i] = c
      /\ \A j \in DOMAIN bounty : j # i => bounty'[j] = bounty[j]
  BY DEF EscrowTypeOK
<1>3. ~bounty[i].refunded /\ <<i, m>> \notin paid
  BY DEF BooksInv, RefundedAreClosed, SettlementInv, PaidAreSettled
<1>4. Fate(i, m)' = IF pay THEN "paid" ELSE "refunded"
  BY <1>1, <1>2, <1>3 DEF Fate, Milestones
<1>5. ASSUME NEW j \in Issue, NEW n \in Slot, <<j, n>> # <<i, m>>
      PROVE  Fate(j, n)' = Fate(j, n)
  <2>1. Disputed(j, n)' <=> Disputed(j, n)
    BY <1>5 DEF Disputed
  <2>2. <<j, n>> \in paid' <=> <<j, n>> \in paid
    BY <1>5
  <2>3. n \in RefundedByDispute(j)' <=> n \in RefundedByDispute(j)
    BY <1>5
  <2>4. j \in DOMAIN bounty =>
          /\ bounty'[j].amounts = bounty[j].amounts
          /\ bounty'[j].refunded = bounty[j].refunded
          /\ n \in bounty'[j].settled <=> n \in bounty[j].settled
    BY <1>1, <1>2, <1>5
  <2>5. QED
    BY <1>2, <2>1, <2>2, <2>3, <2>4, SameFate
<1>6. FateMap' = [FateMap EXCEPT ![<<i, m>>] = IF pay THEN "paid" ELSE "refunded"]
  BY <1>0, <1>4, <1>5, OneFate
<1>7. UNCHANGED TermsMap
  <2>1. \A j \in DOMAIN bounty : /\ bounty'[j].token = bounty[j].token
                                 /\ bounty'[j].amounts = bounty[j].amounts
                                 /\ bounty'[j].amount = bounty[j].amount
    BY <1>1, <1>2
  <2>2. QED
    BY <1>2, <2>1, SameTermsMap
<1>8. Settlement!Leave(TermsMap[i].token, TermsMap[i].amounts[m])
  <2>1. PICK t, n : t = bounty[i].token /\ n = bounty[i].amounts[m]
    OBVIOUS
  <2>2. t \in Token /\ n \in Nat
    BY <1>0, <2>1, PartyTypes, LeftType
  <2>3. Transfer(t, ThisBounty, a, n)
    BY <2>1
  <2>4. Settlement!Leave(t, n)
    BY <2>2, <2>3, TransferLeaves
  <2>5. TermsMap[i].token = t /\ TermsMap[i].amounts[m] = n
    BY <2>1 DEF TermsMap
  <2>6. QED
    BY <2>4, <2>5 DEF Settlement!Leave
<1>9. SettledAreAccounted'
  <2>1. \A j : j # i => PaidMilestones(j)' = PaidMilestones(j)
    BY DEF PaidMilestones
  <2>2. PaidMilestones(i)' = PaidMilestones(i) \cup (IF pay THEN {m} ELSE {})
    BY <1>0 DEF PaidMilestones
  <2>3. Accounted(i)'
    BY <1>1, <1>2, <1>3, <2>2 DEF SettledAreAccounted, Accounted
  <2>4. QED
    BY <1>2, <2>1, <2>3, OthersAccounted
<1>10. <<i, m>> \in Settlement!Key
  BY <1>0 DEF Settlement!Key, Slot
<1>11. QED
  BY <1>6, <1>7, <1>8, <1>9, <1>10

\* The step of Settlement that settles the milestone.
LEMMA SettleStep ==
  ASSUME NEW i, NEW m, NEW from, NEW to, FateMap[<<i, m>>] = from,
         FateMap' = [FateMap EXCEPT ![<<i, m>>] = to],
         UNCHANGED TermsMap,
         Settlement!Leave(TermsMap[i].token, TermsMap[i].amounts[m])
  PROVE  Settlement!Settle(<<i, m>>, from, to)
<1>1. <<i, m>>[1] = i /\ <<i, m>>[2] = m
  OBVIOUS
<1>2. QED
  BY <1>1 DEF Settlement!Settle, Settlement!Leave, FateMap, TermsMap

\* apply_release pays a held milestone.
LEMMA ReleaseMoney ==
  ASSUME MoneyInv, NEW i \in Issue, NEW m \in Slot, apply_release(i, m)
  PROVE  Settlement!Next /\ SettledAreAccounted'
<1> USE DEF MoneyInv
<1> DEFINE b == bounty[i]
           pay == TRUE
           to == IF pay THEN "paid" ELSE "refunded"
<1>1. /\ i \in DOMAIN bounty /\ b \in Bounty
      /\ m \in Milestones(b) /\ m \notin b.settled
      /\ b.contributor \in Address
      /\ ~b.released /\ ~Disputed(i, m)
      /\ bounty' = [bounty EXCEPT ![i] = Pay(b, m)]
      /\ Transfer(b.token, ThisBounty, b.contributor, b.amounts[m])
      /\ paid' = paid \cup {<<i, m>>}
      /\ UNCHANGED dispute
  BY StoredBounty, PartyTypes DEF apply_release
<1>2. \A j \in Issue, n \in Slot :
        <<j, n>> # <<i, m>> => OpenDisputes(j, n)' = OpenDisputes(j, n)
  BY <1>1 DEF OpenDisputes
<1>3. \A j : RefundedByDispute(j)' = RefundedByDispute(j)
  BY <1>1 DEF RefundedByDispute
<1>4. PICK a \in Address, c \in {Settle(b, {m}), Pay(b, m)} :
        /\ bounty' = [bounty EXCEPT ![i] = c]
        /\ Transfer(b.token, ThisBounty, a, b.amounts[m])
  BY <1>1
<1>5. /\ pay \in BOOLEAN
      /\ paid' = IF pay THEN paid \cup {<<i, m>>} ELSE paid
      /\ RefundedByDispute(i)' = RefundedByDispute(i) \cup (IF pay THEN {} ELSE {m})
  BY <1>1, <1>3
<1> HIDE DEF pay
<1>6. /\ <<i, m>> \in Settlement!Key
      /\ FateMap' = [FateMap EXCEPT ![<<i, m>>] = to]
      /\ UNCHANGED TermsMap
      /\ Settlement!Leave(TermsMap[i].token, TermsMap[i].amounts[m])
      /\ SettledAreAccounted'
  BY <1>1, <1>2, <1>3, <1>4, <1>5, SettledMilestone
<1>7. FateMap[<<i, m>>] = "held"
  BY <1>1, HeldFate DEF FateMap
<1>8. to = "paid"
  BY DEF pay
<1> HIDE DEF to
<1>9. Settlement!Settle(<<i, m>>, "held", to)
  BY <1>6, <1>7, SettleStep
<1>10. Settlement!Pay(<<i, m>>)
  BY <1>8, <1>9 DEF Settlement!Pay
<1>11. QED
  BY <1>6, <1>10 DEF Settlement!Next

\* A resolution decides a disputed milestone.
LEMMA ResolutionMoney ==
  ASSUME MoneyInv, NEW id, NEW pay \in BOOLEAN, Resolvable(id, pay),
         ResolutionRecorded(id, pay),
         NEW i, i = dispute[id].issue, NEW m, m = dispute[id].milestone,
         NEW c \in {Settle(bounty[i], {m}), Pay(bounty[i], m)},
         bounty' = [bounty EXCEPT ![i] = c],
         NEW a \in Address, Transfer(bounty[i].token, ThisBounty, a, bounty[i].amounts[m]),
         paid' = IF pay THEN paid \cup {<<i, m>>} ELSE paid
  PROVE  Settlement!Next /\ SettledAreAccounted'
<1> USE DEF MoneyInv
<1> DEFINE b == bounty[i]
           to == IF pay THEN "paid" ELSE "refunded"
<1>1. /\ id \in DOMAIN dispute /\ ~dispute[id].resolved
      /\ i \in DOMAIN bounty /\ b \in Bounty /\ m \in Milestones(b) /\ m \notin b.settled
      /\ i \in Issue /\ m \in Slot
  BY ResolvableTypes DEF Resolvable
<1>2. ~b.released
  BY <1>1 DEF SettlementInv, OpenDisputeHoldsMilestone
<1>3. /\ DOMAIN dispute' = DOMAIN dispute
      /\ \A k \in DOMAIN dispute :
           /\ dispute'[k].issue = dispute[k].issue
           /\ dispute'[k].milestone = dispute[k].milestone
           /\ k # id => dispute'[k] = dispute[k]
  BY ResolutionTerms
<1>4. /\ \A j : j # i => RefundedByDispute(j)' = RefundedByDispute(j)
      /\ RefundedByDispute(i)' = RefundedByDispute(i) \cup (IF pay THEN {} ELSE {m})
  <2>1. /\ pay => RefundedByDispute(i)' = RefundedByDispute(i)
        /\ ~pay => RefundedByDispute(i)' = RefundedByDispute(i) \cup {m}
        /\ \A j : j # i => RefundedByDispute(j)' = RefundedByDispute(j)
    BY ResolutionBooks
  <2>2. QED
    BY <2>1
<1>5. ASSUME NEW j \in Issue, NEW n \in Slot, <<j, n>> # <<i, m>>
      PROVE  OpenDisputes(j, n)' = OpenDisputes(j, n)
  <2>1. id \notin OpenDisputes(j, n) /\ id \notin OpenDisputes(j, n)'
    BY <1>1, <1>3, <1>5 DEF OpenDisputes
  <2>2. QED
    BY <1>3, <2>1 DEF OpenDisputes
<1>6. /\ <<i, m>> \in Settlement!Key
      /\ FateMap' = [FateMap EXCEPT ![<<i, m>>] = to]
      /\ UNCHANGED TermsMap
      /\ Settlement!Leave(TermsMap[i].token, TermsMap[i].amounts[m])
      /\ SettledAreAccounted'
  BY <1>1, <1>2, <1>4, <1>5, SettledMilestone
<1>7. FateMap[<<i, m>>] = "disputed"
  <2>1. <<i, m>> \notin paid
    BY <1>1 DEF SettlementInv, PaidAreSettled
  <2>2. Disputed(i, m)
    BY <1>1 DEF Disputed, OpenDisputes
  <2>3. Fate(i, m) = "disputed"
    BY <1>1, <2>1, <2>2 DEF Fate
  <2>4. QED
    BY <1>1, <2>3 DEF FateMap
<1>8. to \in {"paid", "refunded"}
  OBVIOUS
<1> HIDE DEF to
<1>9. Settlement!Settle(<<i, m>>, "disputed", to)
  BY <1>6, <1>7, SettleStep
<1>10. Settlement!Decide(<<i, m>>, to)
  BY <1>9 DEF Settlement!Decide
<1>11. QED
  BY <1>6, <1>8, <1>10 DEF Settlement!Next

\* Either reclaim refunds everything that was not paid, what disputes refunded
\* before included, and nothing of the bounty is disputed.
LEMMA RefundMoney ==
  ASSUME MoneyInv, NEW i \in DOMAIN bounty, ~bounty[i].released,
         ~HasOpenDispute(i), remaining_escrow(bounty[i]) \in Nat, RefundRemaining(i)
  PROVE  Settlement!Next /\ SettledAreAccounted'
<1> USE DEF MoneyInv
<1> DEFINE b == bounty[i]
           c == [b EXCEPT !.settled = Milestones(b), !.released = TRUE, !.refunded = TRUE]
<1>1. i \in Issue /\ b \in Bounty
  BY StoredBounty
<1>2. /\ c.amounts = b.amounts /\ c.settled = Milestones(b) /\ c.refunded = TRUE
      /\ c.token = b.token /\ c.amount = b.amount
  BY <1>1 DEF Bounty
<1>3. bounty' = [bounty EXCEPT ![i] = c] /\ UNCHANGED <<dispute, paid>>
  BY DEF RefundRemaining
<1> HIDE DEF c
<1>4. /\ DOMAIN bounty' = DOMAIN bounty
      /\ bounty'[i] = c
      /\ \A j \in DOMAIN bounty : j # i => bounty'[j] = bounty[j]
  BY <1>3 DEF EscrowTypeOK
<1>5. /\ \A j \in Issue, n \in Slot : Disputed(j, n)' <=> Disputed(j, n)
      /\ \A j : RefundedByDispute(j)' = RefundedByDispute(j)
      /\ \A j : PaidMilestones(j)' = PaidMilestones(j)
  BY <1>3 DEF Disputed, OpenDisputes, RefundedByDispute, PaidMilestones
<1>6. \A n \in Slot : ~Disputed(i, n)
  BY DEF HasOpenDispute
<1>7. PICK m \in Milestones(b) : m \notin b.settled
  BY DEF SettlementInv, ReleasedMeansAllSettled
<1>8. m \in Slot /\ Fate(i, m) = "held"
  <2>1. m \in Slot
    BY <1>1, MilestoneTypes
  <2>2. QED
    BY <1>6, <1>7, <2>1, HeldFate
<1>9. \A n \in Slot : Fate(i, n) # "disputed"
  BY <1>6 DEF Fate
<1>10. /\ ~b.refunded
       /\ RefundedByDispute(i) \subseteq b.settled
       /\ b.settled \subseteq PaidMilestones(i) \cup RefundedByDispute(i)
  BY DEF BooksInv, RefundedAreClosed, DecidedAreSettled, RefundedByDispute,
         SettledAreAccounted, Accounted
<1>11. ASSUME NEW n \in Slot
       PROVE  Fate(i, n)' = IF Fate(i, n) = "held" THEN "refunded"
                            ELSE IF Fate(i, n) = "refunded" THEN "refunded twice"
                            ELSE Fate(i, n)
  <2>1. Milestones(c) = Milestones(b)
    BY <1>2 DEF Milestones
  <2>2. <<i, n>> \in paid' <=> <<i, n>> \in paid
    BY <1>3
  <2>3. n \in b.settled /\ <<i, n>> \notin paid <=> n \in RefundedByDispute(i) /\ <<i, n>> \notin paid
    BY <1>10 DEF PaidMilestones
  <2>4. Fate(i, n)' = IF n \notin Milestones(b) THEN "absent"
                      ELSE IF <<i, n>> \in paid THEN "paid"
                      ELSE IF n \in RefundedByDispute(i) THEN "refunded twice"
                      ELSE "refunded"
    BY <1>2, <1>4, <1>5, <2>1, <2>2 DEF Fate
  <2>5. Fate(i, n) = IF n \notin Milestones(b) THEN "absent"
                     ELSE IF <<i, n>> \in paid THEN "paid"
                     ELSE IF n \in RefundedByDispute(i) THEN "refunded" ELSE "held"
    BY <1>6, <1>10, <2>3 DEF Fate
  <2>6. QED
    BY <2>4, <2>5
<1>12. ASSUME NEW j \in Issue, NEW n \in Slot, j # i  PROVE Fate(j, n)' = Fate(j, n)
  BY <1>3, <1>4, <1>5, <1>12, SameFate
<1>13. FateMap' = [k \in Settlement!Key |->
                     IF k[1] # i THEN FateMap[k]
                     ELSE IF FateMap[k] = "held" THEN "refunded"
                     ELSE IF FateMap[k] = "refunded" THEN "refunded twice"
                     ELSE FateMap[k]]
  <2>1. ASSUME NEW k \in Issue \X Slot
        PROVE  Fate(k[1], k[2])' = IF k[1] # i THEN Fate(k[1], k[2])
                                   ELSE IF Fate(k[1], k[2]) = "held" THEN "refunded"
                                   ELSE IF Fate(k[1], k[2]) = "refunded" THEN "refunded twice"
                                   ELSE Fate(k[1], k[2])
    <3>1. CASE k[1] = i
      BY <1>11, <3>1
    <3>2. CASE k[1] # i
      BY <1>12, <3>2
    <3>3. QED
      BY <3>1, <3>2
  <2>2. QED
    BY <2>1 DEF FateMap, Settlement!Key, Slot
<1>14. UNCHANGED TermsMap
  <2>1. \A j \in DOMAIN bounty : /\ bounty'[j].token = bounty[j].token
                                 /\ bounty'[j].amounts = bounty[j].amounts
                                 /\ bounty'[j].amount = bounty[j].amount
    BY <1>2, <1>4
  <2>2. QED
    BY <1>4, <2>1, SameTermsMap
<1> DEFINE gone == {n \in Slot : FateMap[<<i, n>>] = "paid"}
<1>15. Settlement!Leave(TermsMap[i].token, TermsMap[i].locked - Worth(TermsMap[i].amounts, gone))
  <2>1. gone = PaidMilestones(i)
    <3>1. \A n \in Slot : FateMap[<<i, n>>] = Fate(i, n)
      BY <1>1 DEF FateMap
    <3>2. \A n \in Slot : <<i, n>> \in paid => n \in Milestones(b)
      BY DEF SettlementInv, PaidAreSettled, ReleasedMeansAllSettled
    <3>3. \A n \in Slot : Fate(i, n) = "paid" <=> <<i, n>> \in paid
      BY <3>2 DEF Fate
    <3>4. QED
      BY <3>1, <3>3 DEF PaidMilestones
  <2>2. Worth(b.amounts, PaidMilestones(i)) = b.released_amount
    <3>1. AccountExact(i)
      BY BooksByAccount DEF BooksInv
    <3>2. QED
      BY <3>1 DEF AccountExact, Worth, Sum
  <2>3. /\ TermsMap[i].token = b.token /\ TermsMap[i].locked = b.amount
        /\ TermsMap[i].amounts = b.amounts
    BY DEF TermsMap
  <2>4. PICK t, a, n : t = b.token /\ a = b.funder /\ n = remaining_escrow(b)
    OBVIOUS
  <2>5. t \in Token /\ a \in Address /\ n \in Nat
    BY <1>1, <2>4 DEF Bounty
  <2>6. Transfer(t, ThisBounty, a, n)
    BY <2>4 DEF RefundRemaining
  <2>7. Settlement!Leave(t, n)
    BY <2>5, <2>6, TransferLeaves
  <2>8. n = b.amount - b.released_amount
    BY <2>4 DEF remaining_escrow
  <2> HIDE DEF gone
  <2>9. QED
    BY <2>1, <2>2, <2>3, <2>4, <2>7, <2>8 DEF Settlement!Leave
<1>16. "held" \in Settlement!FatesOf(i) /\ "disputed" \notin Settlement!FatesOf(i)
  <2>1. FateMap[<<i, m>>] = "held" /\ \A n \in Slot : FateMap[<<i, n>>] # "disputed"
    BY <1>1, <1>8, <1>9 DEF FateMap
  <2>2. QED
    BY <1>8, <2>1 DEF Settlement!FatesOf, FateMap, Slot
<1>17. Settlement!RefundRest(i)
  BY <1>13, <1>14, <1>15, <1>16
  DEF Settlement!RefundRest, Settlement!Leave, FateMap, TermsMap, Slot
<1>18. SettledAreAccounted'
  <2>1. Accounted(i)'
    BY <1>2, <1>4 DEF Accounted
  <2>2. QED
    BY <1>4, <1>5, <2>1, OthersAccounted
<1>19. QED
  BY <1>1, <1>17, <1>18 DEF Settlement!Next

-----------------------------------------------------------------------------
LEMMA MoneyStep ==
  ASSUME MoneyInv, [EscrowNext]_escrowVars
  PROVE  (Settlement!Next \/ UNCHANGED Mapped) /\ SettledAreAccounted'
<1> USE DEF MoneyInv
<1> DEFINE Goal == (Settlement!Next \/ UNCHANGED Mapped) /\ SettledAreAccounted'
<1>1. ASSUME NEW r \in RegistryChoices, InitContract(r)  PROVE Goal
  BY <1>1, UntouchedMoney DEF InitContract
<1>2. CASE UserStep
  <2>1. ASSUME NEW f \in Funders, NEW t \in Token, NEW i \in Issue, NEW l \in MilestoneLists,
               create_bounty(f, t, i, l)
        PROVE  Goal
    BY <2>1, CreateMoney
  <2>2. ASSUME NEW i \in Issue, NEW w \in Workers, claim(i, w)
        PROVE  Goal
    <3> DEFINE c == [bounty[i] EXCEPT !.contributor = w]
    <3>1. i \in DOMAIN bounty /\ bounty[i] \in Bounty
      BY <2>2, StoredBounty DEF claim
    <3>2. /\ c.amounts = bounty[i].amounts /\ c.amount = bounty[i].amount
          /\ c.token = bounty[i].token /\ c.settled = bounty[i].settled
          /\ c.refunded = bounty[i].refunded
      BY <3>1 DEF Bounty
    <3>3. bounty' = [bounty EXCEPT ![i] = c] /\ UNCHANGED <<dispute, balance, paid>>
      BY <2>2 DEF claim
    <3> HIDE DEF c
    <3>4. QED
      BY <3>1, <3>2, <3>3, TermsMoney
  <2>3. ASSUME NEW i \in Issue, reclaim(i)
        PROVE  Goal
    <3>1. /\ i \in DOMAIN bounty /\ ~bounty[i].released /\ bounty[i].released_amount = 0
          /\ ~HasOpenDispute(i) /\ bounty[i] \in Bounty /\ RefundRemaining(i)
      BY <2>3, StoredBounty DEF reclaim
    <3>2. remaining_escrow(bounty[i]) \in Nat
      <4>1. bounty[i].amount \in 1..MaxI128 /\ MaxI128 \in Nat
        BY <3>1, RegistryConstants DEF Bounty
      <4>2. QED
        BY <3>1, <4>1 DEF remaining_escrow
    <3>3. QED
      BY <3>1, <3>2, RefundMoney
  <2>4. ASSUME NEW v \in Address, NEW i \in Issue, NEW m \in Slot, NEW d \in Decision,
               submit_review(v, i, m, d)
        PROVE  Goal
    BY <2>4, UntouchedMoney DEF submit_review
  <2>5. ASSUME NEW a \in Address, NEW i \in Issue, NEW m \in Slot, open_dispute(a, i, m)
        PROVE  Goal
    BY <2>5, OpenDisputeMoney
  <2>6. ASSUME NEW v \in Address, NEW id \in 1..MaxDisputes, NEW pay \in BOOLEAN,
               vote_on_dispute(v, id, pay)
        PROVE  Goal
    BY <2>6, VoteMoney
  <2>7. QED
    BY <1>2, <2>1, <2>2, <2>3, <2>4, <2>5, <2>6 DEF UserStep
<1>3. ASSUME NEW x \in Proposable, execute_action(x)
      PROVE  Goal
  <2>1. ASSUME NEW i \in Issue, NEW m \in Slot, apply_release(i, m)
        PROVE  Goal
    BY <2>1, ReleaseMoney
  <2>2. ASSUME NEW i \in Issue, apply_reclaim(i)
        PROVE  Goal
    <3>1. /\ i \in DOMAIN bounty /\ ~bounty[i].released /\ bounty[i] \in Bounty
          /\ ~HasOpenDispute(i) /\ remaining_escrow(bounty[i]) > 0 /\ RefundRemaining(i)
      BY <2>2, StoredBounty DEF apply_reclaim
    <3>2. remaining_escrow(bounty[i]) \in Nat
      BY <3>1, PartyTypes
    <3>3. QED
      BY <3>1, <3>2, RefundMoney
  <2>3. ASSUME NEW i \in Issue, NEW rs \in Seq(Address), NEW q \in Nat,
               apply_set_reviewers(i, rs, q)
        PROVE  Goal
    <3> DEFINE c == [bounty[i] EXCEPT !.reviewers = Members(rs), !.reviewer_quorum = q]
    <3>1. i \in DOMAIN bounty /\ bounty[i] \in Bounty
      BY <2>3, StoredBounty DEF apply_set_reviewers
    <3>2. /\ c.amounts = bounty[i].amounts /\ c.amount = bounty[i].amount
          /\ c.token = bounty[i].token /\ c.settled = bounty[i].settled
          /\ c.refunded = bounty[i].refunded
      BY <3>1 DEF Bounty
    <3>3. bounty' = [bounty EXCEPT ![i] = c] /\ UNCHANGED <<dispute, balance, paid>>
      BY <2>3, <3>1 DEF apply_set_reviewers
    <3> HIDE DEF c
    <3>4. QED
      BY <3>1, <3>2, <3>3, TermsMoney
  <2>4. ASSUME NEW id, ResolveByPaying(id)  PROVE Goal
    <3>1. PICK i, m, pay :
            i = dispute[id].issue /\ m = dispute[id].milestone /\ pay = TRUE /\ pay \in BOOLEAN
      OBVIOUS
    <3>2. Resolvable(id, pay) /\ ResolutionRecorded(id, pay)
      BY <2>4, <3>1 DEF ResolveByPaying
    <3>3. bounty[i] \in Bounty /\ bounty[i].contributor # NoOne
      BY <3>1, <3>2, ResolvableTypes DEF Resolvable
    <3>4. PICK a \in Address, c \in {Settle(bounty[i], {m}), Pay(bounty[i], m)} :
            /\ bounty' = [bounty EXCEPT ![i] = c]
            /\ Transfer(bounty[i].token, ThisBounty, a, bounty[i].amounts[m])
      BY <2>4, <3>1, <3>3, PartyTypes DEF ResolveByPaying
    <3>5. paid' = IF pay THEN paid \cup {<<i, m>>} ELSE paid
      BY <2>4, <3>1 DEF ResolveByPaying
    <3>6. QED
      BY <3>1, <3>2, <3>4, <3>5, ResolutionMoney
  <2>5. ASSUME NEW id, ResolveByRefunding(id)  PROVE Goal
    <3>1. PICK i, m, pay :
            i = dispute[id].issue /\ m = dispute[id].milestone /\ pay = FALSE /\ pay \in BOOLEAN
      OBVIOUS
    <3>2. Resolvable(id, pay) /\ ResolutionRecorded(id, pay)
      BY <2>5, <3>1 DEF ResolveByRefunding
    <3>3. bounty[i] \in Bounty
      BY <3>1, <3>2, ResolvableTypes
    <3>4. PICK a \in Address, c \in {Settle(bounty[i], {m}), Pay(bounty[i], m)} :
            /\ bounty' = [bounty EXCEPT ![i] = c]
            /\ Transfer(bounty[i].token, ThisBounty, a, bounty[i].amounts[m])
      BY <2>5, <3>1, <3>3 DEF ResolveByRefunding, Bounty
    <3>5. paid' = IF pay THEN paid \cup {<<i, m>>} ELSE paid
      BY <2>5, <3>1 DEF ResolveByRefunding
    <3>6. QED
      BY <3>1, <3>2, <3>4, <3>5, ResolutionMoney
  <2>6. QED
    BY <1>3, <2>1, <2>2, <2>3, <2>4, <2>5, ExecutedActions
<1>4. CASE RegistryStep
  BY <1>4, UntouchedMoney DEF RegistryStep
<1>5. CASE UNCHANGED escrowVars
  BY <1>5, UntouchedMoney DEF escrowVars
<1>6. QED
  BY <1>1, <1>2, <1>3, <1>4, <1>5 DEF EscrowNext

\* The escrow's balances move only with the fate of milestones and by their worth:
\* paid money leaves once, disputed money only by the resolution, and a reclaim
\* refunds again what disputes refunded, for any number of bounties, tokens,
\* amounts, disputes, reviewers and accounts.
THEOREM MoneyFollowsFate == EscrowSpec => MoneyMovesWithFate
<1>1. EscrowInit => Settlement!Init /\ SettledAreAccounted
  BY InitMoney
<1>2. EscrowTypeOK /\ SettlementInv /\ BooksInv /\ SettledAreAccounted /\ [EscrowNext]_escrowVars
        => [Settlement!Next]_Mapped /\ SettledAreAccounted'
  BY MoneyStep DEF MoneyInv
<1>3. QED
  BY <1>1, <1>2, SettlementCorrect, BooksCorrect, PTL
  DEF EscrowSpec, MoneyMovesWithFate, Settlement!Spec, Settlement!settlementVars,
      Mapped, FateMap, TermsMap, FundsMap

-----------------------------------------------------------------------------
(* What the registry says was earned, at least.  Whoever else writes to    *)
(* the registry, no total is below what one bounty paid to its contributor.*)

\* What bounty i has paid to its contributor.
PaidOut(i) == Sum(bounty[i].amounts, PaidMilestones(i))

\* No bounty has paid more, up to the largest i128, than the total of its
\* contributor: without a registry this cannot be, as no total is written.
PayoutsBacked ==
  config = "with registry" =>
    \A k \in paid : SatAdd(0, PaidOut(k[1])) <= reg.rep[bounty[k[1]].contributor].payout_total

LEMMA BackedStep ==
  ASSUME EscrowTypeOK, EscrowTypeOK', SettlementInv, SettlementInv', PaidAreClaimed,
         PayoutsBacked, [EscrowNext]_escrowVars
  PROVE  PayoutsBacked'
<1>1. TermsKept /\ Keeps(reg, reg')
  BY TermsStep, RegistryEffect
<1>2. /\ reg \in RegistryState /\ reg' \in RegistryState /\ MaxI128 \in Nat
      /\ \A a \in Address : /\ reg.rep[a].payout_total \in 0..MaxI128
                            /\ reg'.rep[a].payout_total \in 0..MaxI128
                            /\ reg.rep[a].payout_total <= reg'.rep[a].payout_total
  <2>1. reg \in RegistryState /\ reg' \in RegistryState
    BY DEF EscrowTypeOK, RegTypeOK
  <2>2. QED
    BY <1>1, <2>1, RegistryConstants DEF RegistryState, Reputation, Keeps
<1>3. SUFFICES ASSUME config' = "with registry", NEW k \in paid'
               PROVE  SatAdd(0, PaidOut(k[1])') <= reg'.rep[bounty'[k[1]].contributor].payout_total
  BY DEF PayoutsBacked
<1>4. ASSUME NEW i \in DOMAIN bounty
      PROVE  /\ PaidOut(i) \in Nat
             /\ bounty[i].contributor # NoOne => bounty[i].contributor \in Address
  BY StoredBounty, PartyTypes, LeftType DEF PaidOut
<1>5. ASSUME NEW i \in DOMAIN bounty, PaidMilestones(i)' = PaidMilestones(i)
      PROVE  PaidOut(i)' = PaidOut(i)
  BY <1>1, <1>5 DEF TermsKept, PaidOut
\* A bounty that was paid from, and is not paid from now.
<1>6. ASSUME k \in paid, PaidMilestones(k[1])' = PaidMilestones(k[1])
      PROVE  SatAdd(0, PaidOut(k[1])') <= reg'.rep[bounty'[k[1]].contributor].payout_total
  <2>1. /\ k[1] \in DOMAIN bounty /\ bounty[k[1]].contributor # NoOne
        /\ bounty'[k[1]].contributor = bounty[k[1]].contributor
    BY <1>1, <1>6, PaidKeepContributor DEF PaidAreClaimed
  <2>2. SatAdd(0, PaidOut(k[1])) <= reg.rep[bounty[k[1]].contributor].payout_total
    BY <1>3, <1>6, ConfigStep DEF PaidAreClaimed, PayoutsBacked
  <2>3. PaidOut(k[1])' = PaidOut(k[1]) /\ PaidOut(k[1]) \in Nat
        /\ bounty[k[1]].contributor \in Address
    BY <1>4, <1>5, <1>6, <2>1
  <2>4. QED
    BY <1>2, <2>1, <2>2, <2>3 DEF SatAdd
<1>7. CASE paid' = paid
  BY <1>3, <1>6, <1>7 DEF PaidMilestones
<1>8. ASSUME NEW i \in DOMAIN bounty, NEW m \in Milestones(bounty[i]), Payment(i, m)
      PROVE  SatAdd(0, PaidOut(k[1])') <= reg'.rep[bounty'[k[1]].contributor].payout_total
  <2>1. PICK c, n : c = bounty[i].contributor /\ n = bounty[i].amounts[m]
    OBVIOUS
  <2>2. /\ i \in Issue /\ m \in Slot /\ n \in Nat /\ n <= MaxI128 /\ c \in Address
    <3>1. i \in Issue /\ bounty[i] \in Bounty
      BY StoredBounty
    <3>2. m \in Slot /\ bounty[i].amounts[m] \in 1..MaxI128
      BY <3>1, MilestoneTypes
    <3>3. c \in Address
      BY <1>4, <1>8, <2>1 DEF Payment
    <3>4. QED
      BY <1>2, <2>1, <3>1, <3>2, <3>3
  <2>3. /\ paid' = paid \cup {<<i, m>>} /\ config = "with registry"
        /\ reg'.rep[c].payout_total = SatAdd(reg.rep[c].payout_total, n)
    BY <1>3, <1>8, <2>1, <2>2 DEF Payment, PayoutEntries
  <2>4. /\ PaidMilestones(i)' = PaidMilestones(i) \cup {m}
        /\ \A j : j # i => PaidMilestones(j)' = PaidMilestones(j)
    BY <2>2, <2>3, PaidChange
  <2>5. CASE k[1] # i
    <3>1. k \in paid \/ k = <<i, m>>
      BY <1>3, <2>3
    <3>2. k \in paid
      BY <2>5, <3>1
    <3>3. QED
      BY <1>6, <2>4, <2>5, <3>2
  <2>6. CASE k[1] = i
    <3>1. bounty'[i].contributor = c /\ bounty'[i].amounts = bounty[i].amounts
      BY <1>1, <2>1, <2>2, RegistryConstants DEF TermsKept
    <3>2. PaidOut(i)' <= PaidOut(i) + n /\ PaidOut(i)' \in Nat
      <4>1. PaidOut(i)' = Sum(bounty[i].amounts, PaidMilestones(i) \cup {m})
        BY <2>4, <3>1 DEF PaidOut
      <4>2. CASE m \in PaidMilestones(i)
        <5>1. PaidMilestones(i) \cup {m} = PaidMilestones(i)
          BY <4>2
        <5>2. PaidOut(i)' = PaidOut(i)
          BY <4>1, <5>1 DEF PaidOut
        <5>3. QED
          BY <1>4, <2>2, <5>2
      <4>3. CASE m \notin PaidMilestones(i)
        <5>1. /\ IsFiniteSet(PaidMilestones(i))
              /\ \A x \in PaidMilestones(i) : bounty[i].amounts[x] \in Nat
          BY LeftType
        <5>2. PaidOut(i)' = n + PaidOut(i)
          BY <2>1, <2>2, <4>1, <4>3, <5>1, SumAdd DEF PaidOut
        <5>3. QED
          BY <1>4, <2>2, <5>2
      <4>4. QED
        BY <4>2, <4>3
    <3>3. PaidMilestones(i) # {} => SatAdd(0, PaidOut(i)) <= reg.rep[c].payout_total
      <4>1. ASSUME NEW x \in PaidMilestones(i)
            PROVE  SatAdd(0, PaidOut(i)) <= reg.rep[c].payout_total
        <5>1. <<i, x>> \in paid
          BY DEF PaidMilestones
        <5>2. QED
          BY <2>1, <2>3, <5>1 DEF PayoutsBacked
      <4>2. QED
        BY <4>1
    <3>4. PaidMilestones(i) = {} => PaidOut(i) = 0
      BY SumEmpty DEF PaidOut
    <3>5. SatAdd(0, PaidOut(i)) <= reg.rep[c].payout_total
      BY <1>2, <2>2, <3>3, <3>4 DEF SatAdd
    <3>6. PICK p, q, t : p = PaidOut(i) /\ q = PaidOut(i)' /\ t = reg.rep[c].payout_total
      OBVIOUS
    <3>7. p \in Nat /\ q \in Nat /\ q <= p + n /\ t \in 0..MaxI128 /\ SatAdd(0, p) <= t
      BY <1>2, <1>4, <2>2, <3>2, <3>5, <3>6
    <3>8. SatAdd(0, q) <= SatAdd(t, n)
      BY <1>2, <2>2, <3>7 DEF SatAdd
    <3>9. QED
      BY <2>3, <2>6, <3>1, <3>6, <3>8
  <2>7. QED
    BY <2>5, <2>6
<1>9. QED
  BY <1>7, <1>8, PaymentStep

\* Whatever other contracts write to the registry: once the contract has one, the
\* total of a contributor covers what any of their bounties has paid out.
THEOREM TotalsCoverPayouts == EscrowSpec => []PayoutsBacked
<1>1. EscrowInit => PayoutsBacked
  BY DEF EscrowInit, PayoutsBacked
<1>2. /\ EscrowTypeOK /\ EscrowTypeOK' /\ SettlementInv /\ SettlementInv' /\ PaidAreClaimed
      /\ PayoutsBacked /\ [EscrowNext]_escrowVars
      => PayoutsBacked'
  BY BackedStep
<1>3. QED
  BY <1>1, <1>2, SettlementCorrect, PaidClaims, PTL DEF EscrowSpec

-----------------------------------------------------------------------------
(* What the registry says was earned.  The invariant is about the registry *)
(* that only this contract may write to; its admin may still be set late.  *)

PaidGuards == {<<bounty[k[1]].contributor, k[1], k[2]>> : k \in paid}

EarnedAmounts(a) == [g \in GuardsOf(reg.credited, a) |-> bounty[g[2]].amounts[g[3]]]

EarnedTotal(a) == Sum(EarnedAmounts(a), GuardsOf(reg.credited, a))

ReviewEarned(g) ==
  /\ <<g[2], g[3]>> \in paid
  /\ <<g[2], g[3], g[1]>> \in DOMAIN review
  /\ review[<<g[2], g[3], g[1]>>] = "Approve"

DisputeLost(g, id) ==
  /\ id \in DOMAIN dispute
  /\ <<dispute[id].opener, dispute[id].issue, dispute[id].milestone>> = g
  /\ dispute[id].resolved
  /\ dispute[id].opener = IF dispute[id].pay_contributor
                          THEN bounty[dispute[id].issue].funder
                          ELSE bounty[dispute[id].issue].contributor

CreditsInv ==
  /\ reg.credited = IF config = "with registry" THEN PaidGuards ELSE {}
  /\ IsFiniteSet(reg.credited)
  /\ \A a \in Address : reg.rep[a].payout_total = SatAdd(0, EarnedTotal(a))

EarnedInv ==
  /\ CreditsInv
  /\ \A g \in reg.review_credited : ReviewEarned(g)
  /\ \A g \in reg.dispute_credited : \E id : DisputeLost(g, id)

LEMMA EarnedIsEarned == EarnedInv => ReputationIsEarned
<1> SUFFICES ASSUME EarnedInv PROVE ReputationIsEarned
  OBVIOUS
<1>1. ASSUME NEW a \in Address
      PROVE  EarnedTotal(a) = SumFunction([g \in GuardsOf(reg.credited, a) |->
                                             bounty[g[2]].amounts[g[3]]])
  BY DEF EarnedTotal, EarnedAmounts, Sum, SumFunction, SumFunctionOnSet, FoldFunction
<1>2. ReputationBackedByEscrow
  BY <1>1 DEF EarnedInv, CreditsInv, PaidGuards, ReviewEarned, ReputationBackedByEscrow
<1>3. LosersOpenedTheirDispute
  BY DEF EarnedInv, DisputeLost, LosersOpenedTheirDispute
<1>4. QED
  BY <1>2, <1>3 DEF ReputationIsEarned

\* Every credited guard is of a paid milestone of a stored bounty.
LEMMA CreditedTypes ==
  ASSUME EscrowTypeOK, SettlementInv, PaidAreClaimed, CreditsInv, NEW g \in reg.credited
  PROVE  /\ g[2] \in DOMAIN bounty /\ g[3] \in Milestones(bounty[g[2]])
         /\ bounty[g[2]].contributor = g[1] /\ g[1] # NoOne
         /\ <<g[2], g[3]>> \in paid
         /\ bounty[g[2]].amounts[g[3]] \in Nat
<1>1. PICK k \in paid : g = <<bounty[k[1]].contributor, k[1], k[2]>>
  BY DEF CreditsInv, PaidGuards
<1>2. /\ k[1] \in DOMAIN bounty /\ k[2] \in bounty[k[1]].settled
      /\ bounty[k[1]].contributor # NoOne /\ k = <<k[1], k[2]>>
  <2>1. k \in Issue \X Slot
    BY DEF EscrowTypeOK
  <2>2. k = <<k[1], k[2]>>
    BY <2>1
  <2>3. QED
    BY <2>2 DEF SettlementInv, PaidAreSettled, PaidAreClaimed
<1>3. k[2] \in Milestones(bounty[k[1]])
  BY <1>2 DEF SettlementInv, ReleasedMeansAllSettled
<1>4. bounty[k[1]].amounts[k[2]] \in Nat
  BY <1>2, <1>3, StoredBounty, MilestoneTypes, RegistryConstants
<1>5. g[1] = bounty[k[1]].contributor /\ g[2] = k[1] /\ g[3] = k[2]
  BY <1>1
<1>6. QED
  BY <1>2, <1>3, <1>4, <1>5

LEMMA EarnedAmountTypes ==
  ASSUME EscrowTypeOK, SettlementInv, PaidAreClaimed, CreditsInv, NEW a \in Address
  PROVE  /\ IsFiniteSet(GuardsOf(reg.credited, a))
         /\ \A g \in GuardsOf(reg.credited, a) : EarnedAmounts(a)[g] \in Nat
         /\ EarnedTotal(a) \in Nat
<1> DEFINE S == GuardsOf(reg.credited, a)
           f == EarnedAmounts(a)
<1>1. S \subseteq reg.credited
  BY DEF GuardsOf
<1>2. IsFiniteSet(S)
  BY <1>1, FS_Subset DEF CreditsInv
<1>3. \A g \in S : f[g] \in Nat
  BY <1>1, CreditedTypes DEF EarnedAmounts
<1>4. Sum(f, S) \in Nat
  <2> HIDE DEF f, S
  <2>1. QED
    BY <1>2, <1>3, SumType
<1>5. QED
  BY <1>2, <1>3, <1>4 DEF EarnedTotal

\* An account without new credits has earned what it had.
LEMMA SameEarned ==
  ASSUME EscrowTypeOK, SettlementInv, PaidAreClaimed, CreditsInv, TermsKept,
         NEW a \in Address, GuardsOf(reg'.credited, a) = GuardsOf(reg.credited, a)
  PROVE  EarnedTotal(a)' = EarnedTotal(a)
<1> DEFINE S == GuardsOf(reg.credited, a)
           f == EarnedAmounts(a)
           f2 == EarnedAmounts(a)'
<1>1. GuardsOf(reg.credited, a)' = S
  BY DEF GuardsOf
<1>2. IsFiniteSet(S)
  BY EarnedAmountTypes
<1>3. \A g \in S : f2[g] = f[g]
  <2>1. f2 = [g \in S |-> bounty'[g[2]].amounts[g[3]]]
    BY <1>1 DEF EarnedAmounts
  <2>2. \A g \in S : g \in reg.credited
    BY DEF GuardsOf
  <2>3. \A g \in S : bounty'[g[2]].amounts = bounty[g[2]].amounts
    BY <2>2, CreditedTypes DEF TermsKept
  <2>4. QED
    BY <2>1, <2>3 DEF EarnedAmounts
<1>4. Sum(f2, S) = Sum(f, S)
  <2> HIDE DEF f, f2, S
  <2>1. QED
    BY <1>2, <1>3, SumSame
<1>5. QED
  BY <1>1, <1>4 DEF EarnedTotal

\* One with a new credit has earned its amount more.
LEMMA MoreEarned ==
  ASSUME EscrowTypeOK, SettlementInv, PaidAreClaimed, CreditsInv, TermsKept,
         NEW i \in DOMAIN bounty, NEW m \in Milestones(bounty[i]),
         NEW a \in Address, <<a, i, m>> \notin reg.credited,
         reg'.credited = reg.credited \cup {<<a, i, m>>}
  PROVE  EarnedTotal(a)' = bounty[i].amounts[m] + EarnedTotal(a)
<1> DEFINE S == GuardsOf(reg.credited, a)
           x == <<a, i, m>>
           n == bounty[i].amounts[m]
           f == EarnedAmounts(a)
           f2 == EarnedAmounts(a)'
<1>1. GuardsOf(reg.credited, a)' = S \cup {x} /\ x \notin S
  BY DEF GuardsOf
<1>2. IsFiniteSet(S) /\ \A g \in S : f[g] \in Nat
  BY EarnedAmountTypes
<1>3. (\A g \in S : f2[g] = f[g]) /\ f2[x] = n
  <2>1. f2 = [g \in S \cup {x} |-> bounty'[g[2]].amounts[g[3]]]
    BY <1>1 DEF EarnedAmounts
  <2>2. \A g \in S : g \in reg.credited
    BY DEF GuardsOf
  <2>3. \A g \in S : bounty'[g[2]].amounts = bounty[g[2]].amounts
    BY <2>2, CreditedTypes DEF TermsKept
  <2>4. f2[x] = bounty'[i].amounts[m] /\ bounty'[i].amounts = bounty[i].amounts
    BY <2>1 DEF TermsKept
  <2>5. QED
    BY <2>1, <2>3, <2>4 DEF EarnedAmounts
<1>4. n \in Nat
  BY StoredBounty, MilestoneTypes, RegistryConstants
<1>5. Sum(f2, S \cup {x}) = n + Sum(f, S)
  <2> HIDE DEF f, f2, S, x, n
  <2>1. Sum(f2, S) = Sum(f, S)
    BY <1>2, <1>3, SumSame
  <2>2. f2[x] \in Nat /\ \A g \in S : f2[g] \in Nat
    BY <1>2, <1>3, <1>4
  <2>3. Sum(f2, S \cup {x}) = f2[x] + Sum(f2, S)
    BY <1>1, <1>2, <2>2, SumAdd
  <2>4. QED
    BY <1>3, <2>1, <2>3
<1>6. QED
  BY <1>1, <1>5 DEF EarnedTotal

\* A step without a payment.
LEMMA SameCredits ==
  ASSUME EscrowTypeOK, SettlementInv, PaidAreClaimed, CreditsInv, TermsKept,
         paid' = paid, SamePayouts(reg, reg'),
         config' = config \/ paid = {}
  PROVE  CreditsInv'
<1>1. reg'.credited = reg.credited
  BY DEF SamePayouts
<1>2. PaidGuards' = PaidGuards
  <2>1. PaidGuards' = {<<bounty'[k[1]].contributor, k[1], k[2]>> : k \in paid}
    BY DEF PaidGuards
  <2>2. \A k \in paid : bounty'[k[1]].contributor = bounty[k[1]].contributor
    BY PaidKeepContributor
  <2>3. QED
    BY <2>1, <2>2 DEF PaidGuards
<1>3. reg'.credited = IF config' = "with registry" THEN PaidGuards' ELSE {}
  <2>1. paid = {} => PaidGuards = {}
    BY DEF PaidGuards
  <2>2. QED
    BY <1>1, <1>2, <2>1 DEF CreditsInv
<1>4. ASSUME NEW a \in Address PROVE reg'.rep[a].payout_total = SatAdd(0, EarnedTotal(a)')
  <2>1. EarnedTotal(a)' = EarnedTotal(a)
    BY <1>1, SameEarned
  <2>2. QED
    BY <2>1 DEF CreditsInv, SamePayouts
<1>5. QED
  BY <1>1, <1>3, <1>4 DEF CreditsInv

\* A payment, with or without a registry to report it to.
LEMMA PaidCredits ==
  ASSUME EscrowTypeOK, SettlementInv, PaidAreClaimed, CreditsInv, TermsKept,
         NEW i \in DOMAIN bounty, NEW m \in Milestones(bounty[i]), Payment(i, m)
  PROVE  CreditsInv'
<1>1. PICK c, n : c = bounty[i].contributor /\ n = bounty[i].amounts[m]
  OBVIOUS
<1>2. i \in Issue /\ m \in Slot /\ c \in Address /\ n \in Nat /\ MaxI128 \in Nat
  <2>1. i \in Issue /\ bounty[i] \in Bounty /\ MaxI128 \in Nat
    BY StoredBounty, RegistryConstants
  <2>2. bounty[i].contributor \in Address
    BY <2>1, PartyTypes DEF Payment
  <2>3. m \in Slot /\ bounty[i].amounts[m] \in Nat
    BY <2>1, MilestoneTypes
  <2>4. QED
    BY <1>1, <2>1, <2>2, <2>3
<1>3. CASE config = "with registry"
  <2>1. /\ <<c, i, m>> \notin reg.credited
        /\ reg'.credited = reg.credited \cup {<<c, i, m>>}
        /\ \A a \in Address : reg'.rep[a].payout_total =
             IF a = c THEN SatAdd(reg.rep[a].payout_total, n) ELSE reg.rep[a].payout_total
        /\ paid' = paid \cup {<<i, m>>} /\ config' = config
    BY <1>1, <1>3 DEF Payment, PayoutEntries
  <2>2. PaidGuards' = PaidGuards \cup {<<c, i, m>>}
    <3>1. \A g : g \in PaidGuards' <=>
            \/ \E k \in paid : g = <<bounty'[k[1]].contributor, k[1], k[2]>>
            \/ g = <<bounty'[i].contributor, i, m>>
      <4>1. \A g : g \in PaidGuards' <=>
              \E k \in paid' : g = <<bounty'[k[1]].contributor, k[1], k[2]>>
        BY DEF PaidGuards
      <4>2. \A k : k \in paid' <=> k \in paid \/ k = <<i, m>>
        BY <2>1
      <4>3. <<i, m>>[1] = i /\ <<i, m>>[2] = m
        OBVIOUS
      <4>4. QED
        BY <4>1, <4>2, <4>3, Zenon
    <3>2. \A k \in paid : bounty'[k[1]].contributor = bounty[k[1]].contributor
      BY PaidKeepContributor
    <3>3. bounty'[i].contributor = c
      BY <1>1 DEF Payment, TermsKept
    <3>4. \A g : g \in PaidGuards <=>
            \E k \in paid : g = <<bounty'[k[1]].contributor, k[1], k[2]>>
      BY <3>2 DEF PaidGuards
    <3>5. QED
      BY <3>1, <3>3, <3>4
  <2>3. reg'.credited = PaidGuards' /\ IsFiniteSet(reg'.credited)
    BY <1>3, <2>1, <2>2, FS_AddElement DEF CreditsInv
  <2>4. ASSUME NEW a \in Address
        PROVE  reg'.rep[a].payout_total = SatAdd(0, EarnedTotal(a)')
    <3>1. EarnedTotal(a) \in Nat /\ reg.rep[a].payout_total = SatAdd(0, EarnedTotal(a))
      BY EarnedAmountTypes DEF CreditsInv
    <3>2. CASE a = c
      <4>1. EarnedTotal(a)' = n + EarnedTotal(a)
        BY <1>1, <2>1, <3>2, MoreEarned
      <4>2. SatAdd(SatAdd(0, EarnedTotal(a)), n) = SatAdd(0, n + EarnedTotal(a))
        BY <1>2, <3>1 DEF SatAdd
      <4>3. QED
        BY <2>1, <3>1, <3>2, <4>1, <4>2
    <3>3. CASE a # c
      <4>1. GuardsOf(reg'.credited, a) = GuardsOf(reg.credited, a)
        BY <2>1, <3>3 DEF GuardsOf
      <4>2. EarnedTotal(a)' = EarnedTotal(a)
        BY <4>1, SameEarned
      <4>3. QED
        BY <2>1, <3>1, <3>3, <4>2
    <3>4. QED
      BY <3>2, <3>3
  <2>5. QED
    BY <1>3, <2>1, <2>3, <2>4 DEF CreditsInv
<1>4. CASE config # "with registry"
  <2>1. SamePayouts(reg, reg') /\ config' = config
    BY <1>4 DEF Payment
  <2>2. reg'.credited = reg.credited
    BY <2>1 DEF SamePayouts
  <2>3. ASSUME NEW a \in Address
        PROVE  reg'.rep[a].payout_total = SatAdd(0, EarnedTotal(a)')
    <3>1. EarnedTotal(a)' = EarnedTotal(a)
      BY <2>2, SameEarned
    <3>2. QED
      BY <2>1, <3>1 DEF CreditsInv, SamePayouts
  <2>4. QED
    BY <1>4, <2>1, <2>2, <2>3 DEF CreditsInv
<1>5. QED
  BY <1>3, <1>4


LEMMA ReviewsStep ==
  ASSUME EscrowTypeOK, Caller = {ThisBounty}, [EscrowNext]_escrowVars,
         \A g \in reg.review_credited : ReviewEarned(g)
  PROVE  \A g \in reg'.review_credited : ReviewEarned(g)'
<1>1. RecordsKept
  BY RecordsStep
<1>2. paid \subseteq paid'
  BY PaymentStep DEF Payment
<1>3. ASSUME NEW g \in reg.review_credited PROVE ReviewEarned(g)'
  <2>1. ReviewEarned(g)
    OBVIOUS
  <2>2. QED
    BY <1>1, <1>2, <2>1 DEF ReviewEarned, RecordsKept
<1>4. ASSUME NEW g \in reg'.review_credited, g \notin reg.review_credited
      PROVE  ReviewEarned(g)'
  <2>1. PICK i \in DOMAIN bounty : \E m \in Milestones(bounty[i]) : Payment(i, m)
    BY <1>4, PaymentStep DEF SamePayouts
  <2>2. PICK m : Payment(i, m)
    BY <2>1
  <2>3. /\ reg'.review_credited =
             reg.review_credited \cup ReviewGuards(Reviewed(i, m, "Approve"), i, m)
        /\ paid' = paid \cup {<<i, m>>} /\ review' = review
    BY <1>4, <2>2 DEF Payment, PayoutEntries, SamePayouts
  <2>4. PICK v \in Reviewed(i, m, "Approve") : g = <<v, i, m>>
    BY <1>4, <2>3 DEF ReviewGuards
  <2>5. <<i, m, v>> \in DOMAIN review /\ review[<<i, m, v>>] = "Approve"
    BY <2>4 DEF Reviewed
  <2>6. g[1] = v /\ g[2] = i /\ g[3] = m
    BY <2>4
  <2>7. QED
    BY <2>3, <2>5, <2>6 DEF ReviewEarned
<1>5. QED
  BY <1>3, <1>4

\* A dispute once lost stays lost by the party that opened it.
LEMMA LostKept ==
  ASSUME EscrowTypeOK, DecidedAreSettled, TermsKept, RecordsKept,
         NEW g, NEW id, DisputeLost(g, id)
  PROVE  DisputeLost(g, id)'
<1>1. PICK d, i : d = dispute[id] /\ i = d.issue
  OBVIOUS
<1>2. /\ id \in DOMAIN dispute /\ d \in Dispute /\ d.resolved /\ i \in DOMAIN bounty
      /\ d.opener \in Address /\ d.opener # NoOne
      /\ <<d.opener, i, d.milestone>> = g
      /\ d.opener = IF d.pay_contributor THEN bounty[i].funder ELSE bounty[i].contributor
  <2>1. id \in DOMAIN dispute /\ d.resolved
    BY <1>1 DEF DisputeLost
  <2>2. d \in Dispute /\ i \in DOMAIN bounty
    BY <1>1, <2>1, StoredDispute DEF DecidedAreSettled
  <2>3. d.opener \in Address /\ d.opener # NoOne
    BY <2>2, RegistryConstants DEF Dispute
  <2>4. QED
    BY <1>1, <2>1, <2>2, <2>3 DEF DisputeLost
<1>3. /\ id \in DOMAIN dispute' /\ dispute'[id].issue = i
      /\ dispute'[id].milestone = d.milestone /\ dispute'[id].opener = d.opener
      /\ dispute'[id].resolved /\ dispute'[id].pay_contributor = d.pay_contributor
  BY <1>1, <1>2 DEF RecordsKept
<1>4. /\ bounty'[i].funder = bounty[i].funder
      /\ bounty[i].contributor # NoOne => bounty'[i].contributor = bounty[i].contributor
  BY <1>2 DEF TermsKept
<1>5. d.opener = IF d.pay_contributor THEN bounty'[i].funder ELSE bounty'[i].contributor
  BY <1>2, <1>4
<1>6. QED
  BY <1>2, <1>3, <1>5 DEF DisputeLost

\* The loser that a resolution reports did open the dispute it decides.
LEMMA LoserLost ==
  ASSUME EscrowTypeOK, TermsKept, NEW id, NEW pay \in BOOLEAN, Resolvable(id, pay),
         ResolutionRecorded(id, pay), UNCHANGED review,
         NEW l, l = Loser(dispute[id], pay), l # NoOne,
         NEW i, i = dispute[id].issue, NEW m, m = dispute[id].milestone
  PROVE  DisputeLost(<<l, i, m>>, id)'
<1>1. PICK d : d = dispute[id]
  OBVIOUS
<1>2. i \in DOMAIN bounty /\ d \in Dispute /\ i = d.issue /\ m = d.milestone
  BY <1>1, ResolvableTypes
<1>3. /\ id \in DOMAIN dispute' /\ dispute'[id].issue = i
      /\ dispute'[id].milestone = d.milestone /\ dispute'[id].opener = d.opener
      /\ dispute'[id].resolved /\ dispute'[id].pay_contributor = pay
  BY <1>1, <1>2, ResolutionKeeps
<1>4. l = d.opener /\ l = IF pay THEN bounty[i].funder ELSE bounty[i].contributor
  BY <1>1, <1>2 DEF Loser
<1>5. /\ bounty'[i].funder = bounty[i].funder
      /\ bounty[i].contributor # NoOne => bounty'[i].contributor = bounty[i].contributor
  BY <1>2 DEF TermsKept
<1>6. l = IF pay THEN bounty'[i].funder ELSE bounty'[i].contributor
  BY <1>4, <1>5
<1>7. QED
  BY <1>2, <1>3, <1>4, <1>6 DEF DisputeLost

LEMMA LosersStep ==
  ASSUME EscrowTypeOK, SettlementInv, DecidedAreSettled, Caller = {ThisBounty},
         [EscrowNext]_escrowVars,
         \A g \in reg.dispute_credited : \E id : DisputeLost(g, id)
  PROVE  \A g \in reg'.dispute_credited : \E id : DisputeLost(g, id)'
<1>1. TermsKept /\ RecordsKept
  BY TermsStep, RecordsStep
<1>2. ASSUME NEW g \in reg.dispute_credited PROVE \E id : DisputeLost(g, id)'
  BY <1>1, LostKept
<1>3. CASE reg'.dispute_credited = reg.dispute_credited
  BY <1>2, <1>3
<1>4. ASSUME NEW id, NEW pay \in BOOLEAN, NEW r \in RegistryState,
             Resolvable(id, pay), ResolutionRecorded(id, pay), UNCHANGED review,
             r.dispute_credited = reg.dispute_credited,
             DisputeReputationAllowed(dispute[id], pay),
             reg' = DisputeReputation(r, dispute[id], pay)
      PROVE  \A g \in reg'.dispute_credited : \E k : DisputeLost(g, k)'
  <2>1. PICK d, l, i, m, s : /\ d = dispute[id] /\ l = Loser(d, pay)
                             /\ i = dispute[id].issue /\ m = dispute[id].milestone
                             /\ s = reg'
    OBVIOUS
  <2>2. d \in Dispute /\ d.issue \in DOMAIN bounty /\ i = d.issue /\ m = d.milestone
    BY <1>4, <2>1, ResolvableTypes
  <2>3. DisputeReputationAllowed(d, pay) /\ s = DisputeReputation(r, d, pay)
    BY <1>4, <2>1
  <2>4. LoserNoted(r, s, d, pay)
    BY <1>4, <2>2, <2>3, DisputeReputationEffect
  <2>5. ASSUME NEW g \in reg'.dispute_credited, g \notin reg.dispute_credited
        PROVE  g = <<l, i, m>> /\ l # NoOne
    BY <1>4, <2>1, <2>2, <2>4, <2>5 DEF LoserNoted
  <2>6. ASSUME l # NoOne PROVE DisputeLost(<<l, i, m>>, id)'
    <3>1. /\ Resolvable(id, pay) /\ ResolutionRecorded(id, pay) /\ UNCHANGED review
          /\ l = Loser(dispute[id], pay)
      BY <1>4, <2>1
    <3>2. i = dispute[id].issue /\ m = dispute[id].milestone
      BY <2>1
    <3>3. QED
      BY <1>1, <2>6, <3>1, <3>2, LoserLost
  <2>7. QED
    BY <1>2, <2>5, <2>6
<1>5. ASSUME NEW id, ResolveByPaying(id)
      PROVE  \A g \in reg'.dispute_credited : \E k : DisputeLost(g, k)'
  <2>1. PICK d, i, m, q, pay : /\ d = dispute[id] /\ i = d.issue /\ m = d.milestone
                               /\ q = PayoutReputation(reg, i, m)
                               /\ pay = TRUE /\ pay \in BOOLEAN
    OBVIOUS
  <2>2. Resolvable(id, pay)
    BY <1>5, <2>1 DEF ResolveByPaying
  <2>3. /\ i \in DOMAIN bounty /\ m \in Milestones(bounty[i])
        /\ bounty[i].contributor # NoOne
        /\ PayoutReputationAllowed(i, m) /\ DisputeReputationAllowed(d, pay)
        /\ reg' = DisputeReputation(q, d, pay)
        /\ ResolutionRecorded(id, pay) /\ UNCHANGED review
    BY <1>5, <2>1, <2>2, ResolvableTypes DEF ResolveByPaying, Resolvable
  <2>4. q \in RegistryState /\ q.dispute_credited = reg.dispute_credited
    BY <2>1, <2>3, PayoutReputationEffect
  <2>5. QED
    BY <1>4, <2>1, <2>2, <2>3, <2>4
<1>6. ASSUME NEW id, ResolveByRefunding(id)
      PROVE  \A g \in reg'.dispute_credited : \E k : DisputeLost(g, k)'
  <2>1. PICK pay : pay = FALSE /\ pay \in BOOLEAN
    OBVIOUS
  <2>2. /\ Resolvable(id, pay) /\ ResolutionRecorded(id, pay) /\ UNCHANGED review
        /\ DisputeReputationAllowed(dispute[id], pay)
        /\ reg' = DisputeReputation(reg, dispute[id], pay)
    BY <1>6, <2>1 DEF ResolveByRefunding
  <2>3. reg \in RegistryState
    BY DEF EscrowTypeOK, RegTypeOK
  <2>4. QED
    BY <1>4, <2>1, <2>2, <2>3
<1>7. ASSUME NEW i \in Issue, NEW m \in Slot, apply_release(i, m)
      PROVE  reg'.dispute_credited = reg.dispute_credited
  <2>1. /\ i \in DOMAIN bounty /\ m \in Milestones(bounty[i])
        /\ bounty[i].contributor # NoOne
        /\ PayoutReputationAllowed(i, m) /\ reg' = PayoutReputation(reg, i, m)
    BY <1>7 DEF apply_release
  <2>2. QED
    BY <2>1, PayoutReputationEffect
<1>8. ASSUME NEW a \in Proposable, execute_action(a)
      PROVE  \A g \in reg'.dispute_credited : \E k : DisputeLost(g, k)'
  <2>1. (\E i \in Issue : apply_reclaim(i)) => reg' = reg
    BY DEF apply_reclaim, RefundRemaining
  <2>2. (\E i \in Issue, rs \in Seq(Address), q \in Nat : apply_set_reviewers(i, rs, q))
          => reg' = reg
    BY DEF apply_set_reviewers
  <2>3. QED
    BY <1>3, <1>5, <1>6, <1>7, <1>8, <2>1, <2>2, ExecutedActions
<1>9. UserStep => reg' = reg
  BY DEF UserStep, create_bounty, claim, reclaim, RefundRemaining, submit_review,
         open_dispute, vote_on_dispute
<1>10. RegistryStep => reg'.dispute_credited = reg.dispute_credited
  BY DEF RegistryStep, EscrowTypeOK, RegTypeOK, Administer, RegistryInit,
         SetAllowedCaller, RegistryState
<1>11. (\E r \in RegistryChoices : InitContract(r)) => reg' = reg
  BY DEF InitContract
<1>12. UNCHANGED escrowVars => reg' = reg
  BY DEF escrowVars
<1>13. QED
  BY <1>3, <1>8, <1>9, <1>10, <1>11, <1>12 DEF EscrowNext

LEMMA InitEarned == EscrowInit => EarnedInv
<1> SUFFICES ASSUME EscrowInit PROVE EarnedInv
  OBVIOUS
<1>1. /\ reg.credited = {} /\ reg.review_credited = {} /\ reg.dispute_credited = {}
      /\ \A a \in Address : reg.rep[a].payout_total = 0
      /\ config = "uninitialised"
  BY DEF EscrowInit, RegInit, FreshRegistry, NoReputation
<1>2. \A a \in Address : GuardsOf(reg.credited, a) = {}
  BY <1>1 DEF GuardsOf
<1>3. \A a \in Address : EarnedTotal(a) = 0
  BY <1>2, SumEmpty DEF EarnedTotal
<1>4. SatAdd(0, 0) = 0
  BY RegistryConstants DEF SatAdd
<1>5. CreditsInv
  BY <1>1, <1>3, <1>4, FS_EmptySet DEF CreditsInv
<1>6. QED
  BY <1>1, <1>5 DEF EarnedInv

LEMMA EarnedStep ==
  ASSUME EscrowTypeOK, SettlementInv, BooksInv, PaidAreClaimed, EarnedInv,
         Caller = {ThisBounty}, [EscrowNext]_escrowVars
  PROVE  EarnedInv'
<1>1. TermsKept
  BY TermsStep
<1>2. CreditsInv'
  <2>1. ASSUME NEW i \in DOMAIN bounty, NEW m \in Milestones(bounty[i]), Payment(i, m)
        PROVE  CreditsInv'
    BY <1>1, <2>1, PaidCredits DEF EarnedInv
  <2>2. CASE paid' = paid /\ SamePayouts(reg, reg')
    <3>1. config' = config \/ paid = {}
      BY ConfigStep DEF PaidAreClaimed
    <3>2. QED
      BY <1>1, <2>2, <3>1, SameCredits DEF EarnedInv
  <2>3. QED
    BY <2>1, <2>2, PaymentStep
<1>3. \A g \in reg'.review_credited : ReviewEarned(g)'
  BY ReviewsStep DEF EarnedInv
<1>4. \A g \in reg'.dispute_credited : \E id : DisputeLost(g, id)'
  BY LosersStep DEF EarnedInv, BooksInv
<1>5. QED
  BY <1>2, <1>3, <1>4 DEF EarnedInv

\* When this contract is the only one that may write to the registry, nobody has any
\* reputation, good or bad, that was not earned in it.
THEOREM ReputationEarnedHere ==
  ASSUME Caller = {ThisBounty}
  PROVE  EscrowSpec => []ReputationIsEarned
<1>1. /\ EscrowTypeOK /\ SettlementInv /\ BooksInv /\ PaidAreClaimed /\ EarnedInv
      /\ [EscrowNext]_escrowVars
      => EarnedInv'
  BY EarnedStep
<1>2. EscrowSpec => []EarnedInv
  BY <1>1, InitEarned, SettlementCorrect, BooksCorrect, PaidClaims, PTL DEF EscrowSpec
<1>3. QED
  BY <1>2, EarnedIsEarned, PTL

-----------------------------------------------------------------------------
(* The approvals that revoke leaves.                                       *)

\* The loop of revoke, up to its n-th approval, as a function of n.
IsOut(v, x, n, f) ==
  f = [k \in 0..n |-> IF k = 0 THEN <<>>
                      ELSE IF v[k] = x THEN f[k - 1]
                      ELSE Append(f[k - 1], v[k])]

LEMMA OutExists ==
  ASSUME NEW S, NEW v \in Seq(S), NEW x
  PROVE  \A n \in Nat : \E f : IsOut(v, x, n, f)
<1> DEFINE T == {n \in Nat : \E f : IsOut(v, x, n, f)}
<1>1. 0 \in T
  <2> DEFINE f == [k \in 0..0 |-> <<>>]
  <2>1. f = [k \in 0..0 |-> IF k = 0 THEN <<>>
                            ELSE IF v[k] = x THEN f[k - 1]
                            ELSE Append(f[k - 1], v[k])]
    OBVIOUS
  <2> HIDE DEF f
  <2>2. QED
    BY <2>1 DEF IsOut
<1>2. ASSUME NEW n \in Nat, n \in T  PROVE n + 1 \in T
  <2>1. PICK f : IsOut(v, x, n, f)
    BY <1>2
  <2> DEFINE last == IF v[n + 1] = x THEN f[n] ELSE Append(f[n], v[n + 1])
             g == [k \in 0..(n + 1) |-> IF k = n + 1 THEN last ELSE f[k]]
             h == [k \in 0..(n + 1) |-> IF k = 0 THEN <<>>
                                        ELSE IF v[k] = x THEN g[k - 1]
                                        ELSE Append(g[k - 1], v[k])]
  <2>2. ASSUME NEW k \in 0..(n + 1)  PROVE g[k] = h[k]
    <3>1. CASE k = n + 1
      <4>1. k # 0 /\ k - 1 = n /\ k - 1 \in 0..(n + 1) /\ k - 1 # n + 1
        BY <3>1
      <4>2. g[k - 1] = f[n]
        BY <4>1
      <4>3. QED
        BY <3>1, <4>1, <4>2
    <3>2. CASE k \in 0..n
      <4>1. k # n + 1 /\ (k # 0 => k - 1 \in 0..n /\ k - 1 # n + 1)
        BY <3>2
      <4>2. g[k] = f[k] /\ (k # 0 => g[k - 1] = f[k - 1])
        BY <4>1
      <4>3. f[k] = IF k = 0 THEN <<>> ELSE IF v[k] = x THEN f[k - 1]
                   ELSE Append(f[k - 1], v[k])
        BY <2>1, <3>2 DEF IsOut
      <4>4. QED
        BY <4>2, <4>3
    <3>3. QED
      BY <3>1, <3>2
  <2>3. g = h
    BY <2>2
  <2> HIDE DEF last
  <2>4. IsOut(v, x, n + 1, g)
    BY <2>3 DEF IsOut
  <2>5. QED
    BY <2>4
<1> HIDE DEF T
<1>3. \A n \in Nat : n \in T
  BY <1>1, <1>2, NaturalInduction
<1>4. QED
  BY <1>3 DEF T

\* What the loop has kept of the first n approvals: nothing of x, nothing that
\* is not among them, and nobody twice if nobody was there twice.
KeptOf(v, x, n, s) ==
  /\ Members(s) \subseteq {v[k] : k \in 1..n} \ {x}
  /\ NoDuplicates(v) => NoDuplicates(s)

LEMMA OutKeeps ==
  ASSUME NEW S, NEW v \in Seq(S), NEW x, NEW f, IsOut(v, x, Len(v), f)
  PROVE  f[Len(v)] \in Seq(S) /\ KeptOf(v, x, Len(v), f[Len(v)])
<1> DEFINE T == {n \in Nat : n \in 0..Len(v) => f[n] \in Seq(S) /\ KeptOf(v, x, n, f[n])}
<1>1. Len(v) \in Nat /\ DOMAIN v = 1..Len(v)
  BY LenProperties
<1>2. 0 \in T
  <2>1. f[0] = <<>>
    BY <1>1 DEF IsOut
  <2>2. <<>> \in Seq(S) /\ Members(<<>>) = {} /\ NoDuplicates(<<>>)
    BY DEF Members, NoDuplicates
  <2>3. QED
    BY <2>1, <2>2 DEF KeptOf
<1>3. ASSUME NEW n \in Nat, n \in T  PROVE n + 1 \in T
  <2> SUFFICES ASSUME n + 1 \in 0..Len(v)
               PROVE  f[n + 1] \in Seq(S) /\ KeptOf(v, x, n + 1, f[n + 1])
    OBVIOUS
  <2>1. n \in 0..Len(v) /\ n + 1 \in 1..Len(v) /\ n + 1 # 0 /\ (n + 1) - 1 = n
    BY <1>1
  <2>2. f[n] \in Seq(S) /\ KeptOf(v, x, n, f[n])
    BY <1>3, <2>1
  <2>3. f[n + 1] = IF v[n + 1] = x THEN f[n] ELSE Append(f[n], v[n + 1])
    BY <2>1 DEF IsOut
  <2>4. v[n + 1] \in S
    BY <1>1, <2>1
  <2>5. {v[k] : k \in 1..n} \subseteq {v[k] : k \in 1..(n + 1)}
    BY <1>3
  <2>6. CASE v[n + 1] = x
    BY <2>2, <2>3, <2>5, <2>6 DEF KeptOf
  <2>7. CASE v[n + 1] # x
    <3>1. PICK s, t, e : s = f[n] /\ e = v[n + 1] /\ t = Append(s, e)
      OBVIOUS
    <3>2. s \in Seq(S) /\ t \in Seq(S) /\ f[n + 1] = t
      BY <2>2, <2>3, <2>4, <2>7, <3>1, AppendProperties
    <3>3. /\ Len(s) \in Nat /\ DOMAIN s = 1..Len(s) /\ DOMAIN t = 1..(Len(s) + 1)
          /\ t[Len(s) + 1] = e /\ \A k \in 1..Len(s) : t[k] = s[k]
      BY <2>2, <2>4, <3>1, LenProperties, AppendProperties
    <3>4. Members(t) \subseteq Members(s) \cup {e}
      BY <3>3 DEF Members
    <3>5. Members(t) \subseteq {v[k] : k \in 1..(n + 1)} \ {x}
      BY <1>3, <2>2, <2>5, <2>7, <3>1, <3>4 DEF KeptOf
    <3>6. ASSUME NoDuplicates(v)  PROVE NoDuplicates(t)
      <4>1. e \notin {v[k] : k \in 1..n}
        BY <1>1, <2>1, <3>1, <3>6 DEF NoDuplicates
      <4>2. \A k \in 1..Len(s) : s[k] # e
        BY <2>2, <3>1, <3>3, <4>1 DEF KeptOf, Members
      <4>3. NoDuplicates(s)
        BY <2>2, <3>1, <3>6 DEF KeptOf
      <4>4. QED
        BY <3>3, <4>2, <4>3 DEF NoDuplicates
    <3>7. QED
      BY <3>2, <3>5, <3>6 DEF KeptOf
  <2>8. QED
    BY <2>6, <2>7
<1> HIDE DEF T
<1>4. \A n \in Nat : n \in T
  BY <1>2, <1>3, NaturalInduction
<1>5. QED
  BY <1>1, <1>4 DEF T

\* revoke leaves approvals of the same accounts but the signer, each still once.
LEMMA WithoutParts ==
  ASSUME NEW S, NEW v \in Seq(S), NEW x
  PROVE  /\ Without(v, x) \in Seq(S)
         /\ Members(Without(v, x)) \subseteq Members(v) \ {x}
         /\ NoDuplicates(v) => NoDuplicates(Without(v, x))
<1> DEFINE f == CHOOSE g : IsOut(v, x, Len(v), g)
<1>1. Without(v, x) = f[Len(v)]
  BY DEF Without, IsOut
<1>2. IsOut(v, x, Len(v), f)
  BY OutExists, LenProperties
<1> HIDE DEF f
<1>3. Members(v) = {v[k] : k \in 1..Len(v)}
  BY LenProperties DEF Members
<1>4. PICK w : w = f[Len(v)]
  OBVIOUS
<1>5. w \in Seq(S) /\ KeptOf(v, x, Len(v), w)
  BY <1>2, <1>4, OutKeeps
<1>6. Members(w) \subseteq Members(v) \ {x} /\ (NoDuplicates(v) => NoDuplicates(w))
  BY <1>3, <1>5 DEF KeptOf
<1>7. QED
  BY <1>1, <1>4, <1>5, <1>6


-----------------------------------------------------------------------------
(* The steps of the governance state.                                      *)

\* No proposal counts the approval of anybody twice.
ApprovalsAreDistinct ==
  \A id \in DOMAIN proposal : NoDuplicates(proposal[id].approvals)

\* propose or approve: an open proposal is stored with one approval more, or with
\* its first, and executed if that brings it to the threshold.
Signed(id, p) ==
  /\ config # "uninitialised"
  /\ id \in 1..(Len(proposal) + 1)
  /\ id \in DOMAIN proposal => Open(proposal[id])
  /\ p \in Proposal /\ Open(p) /\ NoDuplicates(p.approvals)
  /\ Members(p.approvals) \subseteq ApprovalsOf(id) \cup signers
  /\ StoreAndTryExecute(id, p)

\* revoke or cancel: an open proposal is replaced, and nothing else happens.
Withdrawn(id, p) ==
  /\ id \in DOMAIN proposal
  /\ Open(proposal[id])
  /\ p \in Proposal /\ ~p.executed /\ NoDuplicates(p.approvals)
  /\ Members(p.approvals) \subseteq ApprovalsOf(id)
  /\ proposal' = [proposal EXCEPT ![id] = p]
  /\ UNCHANGED <<escrowVars, signers, threshold>>

LEMMA StoredProposal ==
  ASSUME BountyTypeOK, NEW id \in DOMAIN proposal
  PROVE  /\ proposal[id] \in Proposal
         /\ id \in 1..Len(proposal) /\ Len(proposal) \in Nat
         /\ DOMAIN proposal = 1..Len(proposal)
<1>1. proposal \in Seq(Proposal)
  BY DEF BountyTypeOK
<1>2. QED
  BY <1>1, LenProperties, ElementOfSeq

\* Writing one proposal, old or new.
LEMMA PutProposal ==
  ASSUME BountyTypeOK, NEW id \in 1..(Len(proposal) + 1), NEW p \in Proposal
  PROVE  Put(proposal, id, p) \in Seq(Proposal)
<1>1. proposal \in Seq(Proposal) /\ Len(proposal) \in Nat /\ DOMAIN proposal = 1..Len(proposal)
  BY LenProperties DEF BountyTypeOK
<1>2. PICK n \in Nat : DOMAIN proposal \cup {id} = 1..n
  <2>1. CASE id = Len(proposal) + 1
    BY <1>1, <2>1
  <2>2. CASE id \in 1..Len(proposal)
    BY <1>1, <2>2
  <2>3. QED
    BY <1>1, <2>1, <2>2
<1>3. \A k \in DOMAIN proposal : proposal[k] \in Proposal
  BY <1>1, ElementOfSeq
<1>4. Put(proposal, id, p) \in [1..n -> Proposal]
  BY <1>2, <1>3 DEF Put
<1>5. QED
  BY <1>4, SeqDef

\* Replacing the approvals of a proposal, cancelling it and executing it.
LEMMA ApprovedParts ==
  ASSUME NEW q \in Proposal, NEW v \in Seq(Address), NEW p, p = [q EXCEPT !.approvals = v]
  PROVE  /\ p \in Proposal /\ p.approvals = v
         /\ p.executed = q.executed /\ p.cancelled = q.cancelled
BY DEF Proposal

LEMMA CancelledParts ==
  ASSUME NEW q \in Proposal, NEW p, p = [q EXCEPT !.cancelled = TRUE]
  PROVE  p \in Proposal /\ p.approvals = q.approvals /\ p.executed = q.executed
BY DEF Proposal

LEMMA ExecutedParts ==
  ASSUME NEW q \in Proposal, NEW p, p = [q EXCEPT !.executed = TRUE]
  PROVE  /\ p \in Proposal /\ p.executed
         /\ p.approvals = q.approvals /\ p.action = q.action
BY DEF Proposal

LEMMA ProposeSigns ==
  ASSUME BountyTypeOK, NEW s \in Address, NEW a \in Proposable, propose(s, a)
  PROVE  \E id, p : Signed(id, p)
<1> DEFINE p == [action |-> a, proposer |-> s, approvals |-> <<s>>,
                 executed |-> FALSE, cancelled |-> FALSE]
<1>1. <<s>> \in Seq(Address) /\ NoDuplicates(<<s>>)
  BY DEF NoDuplicates
<1>2. p \in Proposal /\ Open(p) /\ NoDuplicates(p.approvals)
  BY <1>1 DEF Proposal, Open
<1>3. proposal \in Seq(Proposal) /\ Len(proposal) \in Nat /\ DOMAIN proposal = 1..Len(proposal)
  BY LenProperties DEF BountyTypeOK
<1>4. config # "uninitialised" /\ StoreAndTryExecute(Len(proposal) + 1, p)
  BY DEF propose
<1>7. Members(p.approvals) \subseteq signers
  BY DEF propose, Members
<1> HIDE DEF p
<1>5. Len(proposal) + 1 \in 1..(Len(proposal) + 1) /\ Len(proposal) + 1 \notin DOMAIN proposal
  BY <1>3
<1>6. QED
  BY <1>2, <1>4, <1>5, <1>7 DEF Signed

LEMMA ApproveSigns ==
  ASSUME BountyTypeOK, ApprovalsAreDistinct,
         NEW s \in Address, NEW id \in DOMAIN proposal, approve(s, id)
  PROVE  \E p : Signed(id, p)
<1>1. PICK q, v, p : /\ q = proposal[id] /\ v = Append(q.approvals, s)
                     /\ p = [q EXCEPT !.approvals = v]
  OBVIOUS
<1>2. /\ q \in Proposal /\ id \in 1..(Len(proposal) + 1)
  <2>1. proposal[id] \in Proposal /\ id \in 1..Len(proposal) /\ Len(proposal) \in Nat
    BY StoredProposal
  <2>2. QED
    BY <1>1, <2>1
<1>3. q.approvals \in Seq(Address) /\ v \in Seq(Address)
  <2>1. q.approvals \in Seq(Address)
    BY <1>2 DEF Proposal
  <2>2. QED
    BY <1>1, <2>1, AppendProperties
<1>4. NoDuplicates(v) /\ Members(v) \subseteq ApprovalsOf(id) \cup signers
  <2>1. PICK w : w = q.approvals
    OBVIOUS
  <2>2. NoDuplicates(w) /\ s \notin Members(w) /\ w \in Seq(Address) /\ v = Append(w, s)
    BY <1>1, <1>3, <2>1 DEF approve, HasApproved, ApprovalsAreDistinct
  <2>3. /\ Len(w) \in Nat /\ DOMAIN w = 1..Len(w) /\ DOMAIN v = 1..(Len(w) + 1)
        /\ v[Len(w) + 1] = s /\ \A k \in 1..Len(w) : v[k] = w[k]
    BY <2>2, LenProperties, AppendProperties
  <2>4. NoDuplicates(v)
    BY <2>2, <2>3 DEF NoDuplicates, Members
  <2>5. Members(v) \subseteq Members(w) \cup {s}
    BY <2>3 DEF Members
  <2>6. Members(w) = ApprovalsOf(id) /\ s \in signers
    BY <1>1, <2>1 DEF approve, ApprovalsOf
  <2>7. QED
    BY <2>4, <2>5, <2>6
<1>5. /\ p \in Proposal /\ p.approvals = v
      /\ p.executed = q.executed /\ p.cancelled = q.cancelled
  <2>1. q \in Proposal /\ v \in Seq(Address) /\ p = [q EXCEPT !.approvals = v]
    BY <1>1, <1>2, <1>3
  <2>2. QED
    BY <2>1, ApprovedParts
<1>6. config # "uninitialised" /\ Open(q) /\ StoreAndTryExecute(id, p)
  BY <1>1 DEF approve
<1>7. Open(p)
  BY <1>5, <1>6 DEF Open
<1>8. /\ Open(proposal[id]) /\ NoDuplicates(p.approvals)
      /\ Members(p.approvals) \subseteq ApprovalsOf(id) \cup signers
  BY <1>1, <1>4, <1>5, <1>6
<1>9. QED
  BY <1>2, <1>5, <1>6, <1>7, <1>8 DEF Signed

LEMMA RevokeWithdraws ==
  ASSUME BountyTypeOK, ApprovalsAreDistinct,
         NEW s \in Address, NEW id \in DOMAIN proposal, revoke(s, id)
  PROVE  \E p : Withdrawn(id, p)
<1>1. PICK q, w, v, p : /\ q = proposal[id] /\ w = q.approvals
                        /\ v = Without(w, s) /\ p = [q EXCEPT !.approvals = v]
  OBVIOUS
<1>2. q \in Proposal
  BY <1>1, StoredProposal
<1>3. w \in Seq(Address) /\ NoDuplicates(w)
  BY <1>1, <1>2 DEF Proposal, ApprovalsAreDistinct
<1>4. v \in Seq(Address) /\ NoDuplicates(v) /\ Members(v) \subseteq ApprovalsOf(id)
  <2>1. v \in Seq(Address) /\ NoDuplicates(v) /\ Members(v) \subseteq Members(w)
    BY <1>1, <1>3, WithoutParts
  <2>2. QED
    BY <1>1, <2>1 DEF ApprovalsOf
<1>5. /\ p \in Proposal /\ p.approvals = v /\ p.executed = q.executed
  BY <1>1, <1>2, <1>4, ApprovedParts
<1>6. Open(q) /\ UNCHANGED <<escrowVars, signers, threshold>>
  BY <1>1 DEF revoke
<1>7. proposal' = [proposal EXCEPT ![id] = p]
  BY <1>1 DEF revoke
<1>8. /\ ~p.executed /\ NoDuplicates(p.approvals) /\ Open(proposal[id])
      /\ Members(p.approvals) \subseteq ApprovalsOf(id)
  BY <1>1, <1>4, <1>5, <1>6 DEF Open
<1>9. QED
  BY <1>5, <1>6, <1>7, <1>8 DEF Withdrawn

LEMMA CancelWithdraws ==
  ASSUME BountyTypeOK, ApprovalsAreDistinct,
         NEW s \in Address, NEW id \in DOMAIN proposal, cancel(s, id)
  PROVE  \E p : Withdrawn(id, p)
<1>1. PICK q, p : q = proposal[id] /\ p = [q EXCEPT !.cancelled = TRUE]
  OBVIOUS
<1>2. q \in Proposal
  BY <1>1, StoredProposal
<1>3. q.approvals \in Seq(Address) /\ NoDuplicates(q.approvals)
  BY <1>1, <1>2 DEF Proposal, ApprovalsAreDistinct
<1>4. /\ p \in Proposal /\ p.approvals = q.approvals /\ p.executed = q.executed
  BY <1>1, <1>2, CancelledParts
<1>5. Open(q) /\ UNCHANGED <<escrowVars, signers, threshold>>
  BY <1>1 DEF cancel
<1>6. proposal' = [proposal EXCEPT ![id] = p]
  BY <1>1 DEF cancel
<1>7. /\ ~p.executed /\ NoDuplicates(p.approvals) /\ Open(proposal[id])
      /\ Members(p.approvals) \subseteq ApprovalsOf(id)
  BY <1>1, <1>3, <1>4, <1>5 DEF Open, ApprovalsOf
<1>8. QED
  BY <1>4, <1>5, <1>6, <1>7 DEF Withdrawn

\* Every step is one of five kinds.
LEMMA StepCases ==
  ASSUME BountyTypeOK, ApprovalsAreDistinct, [Next]_vars
  PROVE  \/ \E a \in Deployers, r \in RegistryChoices : init(a, r)
         \/ \E id, p : Signed(id, p)
         \/ \E id, p : Withdrawn(id, p)
         \/ (UserStep \/ RegistryStep) /\ UNCHANGED governanceVars
         \/ UNCHANGED vars
<1>1. (\E s \in Address, a \in Proposable : propose(s, a)) => \E id, p : Signed(id, p)
  BY ProposeSigns
<1>2. (\E s \in Address, id \in DOMAIN proposal : approve(s, id)) => \E id, p : Signed(id, p)
  BY ApproveSigns
<1>3. (\E s \in Address, id \in DOMAIN proposal : revoke(s, id))
        => \E id, p : Withdrawn(id, p)
  BY RevokeWithdraws
<1>4. (\E s \in Address, id \in DOMAIN proposal : cancel(s, id))
        => \E id, p : Withdrawn(id, p)
  BY CancelWithdraws
<1>5. GovernanceStep => \/ \E a \in Deployers, r \in RegistryChoices : init(a, r)
                        \/ \E id, p : Signed(id, p)
                        \/ \E id, p : Withdrawn(id, p)
  BY <1>1, <1>2, <1>3, <1>4 DEF GovernanceStep
<1>6. QED
  BY <1>5 DEF Next


-----------------------------------------------------------------------------
(* The contract is the escrow.                                             *)

LEMMA StepIsEscrowStep ==
  ASSUME BountyTypeOK, ApprovalsAreDistinct, [Next]_vars
  PROVE  [EscrowNext]_escrowVars
<1>1. ASSUME NEW a \in Deployers, NEW r \in RegistryChoices, init(a, r)
      PROVE  EscrowNext
  BY <1>1 DEF init, EscrowNext
<1>2. ASSUME NEW id, NEW p, Signed(id, p)  PROVE [EscrowNext]_escrowVars
  <2>1. p.action \in Proposable /\ config # "uninitialised"
    BY <1>2 DEF Signed, Proposal
  <2>2. StoreAndTryExecute(id, p)
    BY <1>2 DEF Signed
  <2>3. UNCHANGED escrowVars \/ execute_action(p.action)
    BY <2>2 DEF StoreAndTryExecute, Execute
  <2>4. QED
    BY <2>1, <2>3 DEF EscrowNext
<1>3. ASSUME NEW id, NEW p, Withdrawn(id, p)  PROVE UNCHANGED escrowVars
  BY <1>3 DEF Withdrawn
<1>4. UserStep \/ RegistryStep => EscrowNext
  BY DEF EscrowNext
<1>5. UNCHANGED vars => UNCHANGED escrowVars
  BY DEF vars
<1>6. QED
  BY <1>1, <1>2, <1>3, <1>4, <1>5, StepCases

-----------------------------------------------------------------------------
(* The inductive invariant.                                                *)

GovernanceInv == BountyTypeOK /\ ApprovalsAreDistinct /\ SignersCanDecide

LEMMA InitGovernance == Init => GovernanceInv
<1> SUFFICES ASSUME Init PROVE GovernanceInv
  OBVIOUS
<1>1. EscrowTypeOK /\ config = "uninitialised"
  BY EscrowInitType DEF Init, EscrowInit
<1>2. signers = {} /\ threshold = 0 /\ proposal = <<>>
  BY DEF Init
<1>3. proposal \in Seq(Proposal) /\ DOMAIN proposal = {}
  BY <1>2
<1>4. QED
  BY <1>1, <1>2, <1>3
  DEF GovernanceInv, BountyTypeOK, ApprovalsAreDistinct, SignersCanDecide

\* A proposal written keeps every other.
LEMMA WrittenProposals ==
  ASSUME GovernanceInv, NEW id \in 1..(Len(proposal) + 1), NEW p \in Proposal,
         NoDuplicates(p.approvals), proposal' = Put(proposal, id, p)
  PROVE  proposal' \in Seq(Proposal) /\ ApprovalsAreDistinct'
<1>1. proposal' \in Seq(Proposal)
  BY PutProposal DEF GovernanceInv
<1>2. DOMAIN proposal' = DOMAIN proposal \cup {id}
      /\ \A k \in DOMAIN proposal' : proposal'[k] = IF k = id THEN p ELSE proposal[k]
  BY DEF Put
<1>3. \A k \in DOMAIN proposal' : NoDuplicates(proposal'[k].approvals)
  BY <1>2 DEF GovernanceInv, ApprovalsAreDistinct
<1>4. QED
  BY <1>1, <1>3 DEF ApprovalsAreDistinct

\* A new signer set is one that can reach its threshold.
LEMMA SetSignersDecides ==
  ASSUME NEW v \in Seq(Address), NEW n \in Nat, apply_set_signers(v, n)
  PROVE  signers' \subseteq Address /\ threshold' \in Nat /\ SignersCanDecide'
<1>1. IsFiniteSet(Members(v)) /\ Cardinality(Members(v)) = Len(v)
  BY DistinctMembers DEF apply_set_signers
<1>2. Len(v) \in Nat /\ DOMAIN v = 1..Len(v) /\ \A k \in DOMAIN v : v[k] \in Address
  BY LenProperties, ElementOfSeq
<1>3. n \in 1..Len(v) /\ signers' = Members(v) /\ threshold' = n
  BY DEF apply_set_signers
<1>4. Members(v) # {} /\ Members(v) \subseteq Address
  BY <1>2, <1>3 DEF Members
<1>5. QED
  BY <1>1, <1>2, <1>3, <1>4 DEF SignersCanDecide

LEMMA SignedKeepsInv ==
  ASSUME GovernanceInv, EscrowTypeOK', config' = config, NEW id, NEW p, Signed(id, p)
  PROVE  GovernanceInv'
<1>1. /\ id \in 1..(Len(proposal) + 1) /\ p \in Proposal /\ NoDuplicates(p.approvals)
      /\ StoreAndTryExecute(id, p)
  BY DEF Signed
<1>2. PICK q : q = [p EXCEPT !.executed = TRUE]
  OBVIOUS
<1>3. q \in Proposal /\ q.approvals = p.approvals
  BY <1>1, <1>2, ExecutedParts
<1>4. NoDuplicates(q.approvals)
  BY <1>1, <1>3
<1>5. proposal' \in Seq(Proposal) /\ ApprovalsAreDistinct'
  <2>1. proposal' = Put(proposal, id, p) \/ proposal' = Put(proposal, id, q)
    BY <1>1, <1>2 DEF StoreAndTryExecute
  <2>2. CASE proposal' = Put(proposal, id, p)
    BY <1>1, <2>2, WrittenProposals
  <2>3. CASE proposal' = Put(proposal, id, q)
    BY <1>1, <1>3, <1>4, <2>3, WrittenProposals
  <2>4. QED
    BY <2>1, <2>2, <2>3
<1>6. signers' \subseteq Address /\ threshold' \in Nat /\ SignersCanDecide'
  <2>1. CASE UNCHANGED <<signers, threshold>>
    BY <2>1 DEF GovernanceInv, BountyTypeOK, SignersCanDecide
  <2>2. PICK a : a = p.action
    OBVIOUS
  <2>3. CASE a.kind = "SetSigners" /\ apply_set_signers(a.signers, a.threshold)
    <3>1. a \in EscrowAction \cup SignerAction
      BY <1>1, <2>2, EscrowConstants DEF Proposal
    <3>2. a.signers \in Seq(Address) /\ a.threshold \in Nat
      BY <2>3, <3>1 DEF EscrowAction, SignerAction
    <3>3. QED
      BY <2>3, <3>2, SetSignersDecides
  <2>4. QED
    BY <1>1, <2>1, <2>2, <2>3 DEF StoreAndTryExecute, Execute
<1>7. QED
  BY <1>5, <1>6 DEF GovernanceInv, BountyTypeOK

LEMMA WithdrawnKeepsInv ==
  ASSUME GovernanceInv, NEW id, NEW p, Withdrawn(id, p)
  PROVE  GovernanceInv'
<1>1. /\ id \in DOMAIN proposal /\ p \in Proposal /\ NoDuplicates(p.approvals)
      /\ proposal' = [proposal EXCEPT ![id] = p]
      /\ UNCHANGED <<escrowVars, signers, threshold>>
  BY DEF Withdrawn
<1>2. Put(proposal, id, p) = [proposal EXCEPT ![id] = p]
  BY <1>1 DEF Put
<1>3. id \in 1..(Len(proposal) + 1)
  BY <1>1, StoredProposal DEF GovernanceInv
<1>4. proposal' \in Seq(Proposal) /\ ApprovalsAreDistinct'
  BY <1>1, <1>2, <1>3, WrittenProposals
<1>5. EscrowTypeOK'
  <2>1. EscrowTypeOK /\ UNCHANGED escrowVars
    BY <1>1 DEF GovernanceInv, BountyTypeOK
  <2>2. QED
    BY <2>1, TypeStep
<1>6. config' = config /\ signers' = signers /\ threshold' = threshold
  BY <1>1 DEF escrowVars
<1>7. QED
  BY <1>4, <1>5, <1>6 DEF GovernanceInv, BountyTypeOK, SignersCanDecide

LEMMA GovernanceInvStep ==
  ASSUME GovernanceInv, [Next]_vars
  PROVE  GovernanceInv'
<1>1. BountyTypeOK /\ ApprovalsAreDistinct /\ EscrowTypeOK
  BY DEF GovernanceInv, BountyTypeOK
<1>2. [EscrowNext]_escrowVars
  BY <1>1, StepIsEscrowStep
<1>3. EscrowTypeOK'
  BY <1>1, <1>2, TypeStep
<1>4. config' = config \/ config = "uninitialised"
  BY <1>2, ConfigStep
<1>5. ASSUME NEW a \in Deployers, NEW r \in RegistryChoices, init(a, r)
      PROVE  GovernanceInv'
  <2>1. signers' = {a} /\ threshold' = 1 /\ proposal' = proposal /\ a \in Address
    BY <1>5, RegistryConstants DEF init
  <2>2. Cardinality({a}) = 1
    BY FS_Singleton
  <2>3. SignersCanDecide'
    BY <2>1, <2>2 DEF SignersCanDecide
  <2>4. QED
    BY <1>1, <1>3, <2>1, <2>3 DEF GovernanceInv, BountyTypeOK, ApprovalsAreDistinct
<1>6. ASSUME NEW id, NEW p, Signed(id, p)  PROVE GovernanceInv'
  <2>1. config' = config
    BY <1>4, <1>6 DEF Signed
  <2>2. QED
    BY <1>3, <1>6, <2>1, SignedKeepsInv
<1>7. ASSUME NEW id, NEW p, Withdrawn(id, p)  PROVE GovernanceInv'
  BY <1>7, WithdrawnKeepsInv
<1>8. CASE (UserStep \/ RegistryStep) /\ UNCHANGED governanceVars
  <2>1. UNCHANGED <<signers, threshold, proposal>>
    BY <1>8 DEF governanceVars
  <2>2. config' = config
    BY <1>8, UserConfig
  <2>3. QED
    BY <1>1, <1>3, <2>1, <2>2
    DEF GovernanceInv, BountyTypeOK, ApprovalsAreDistinct, SignersCanDecide
<1>9. CASE UNCHANGED vars
  <2>1. UNCHANGED <<config, signers, threshold, proposal>>
    BY <1>9 DEF vars, governanceVars, escrowVars
  <2>2. QED
    BY <1>1, <1>3, <2>1
    DEF GovernanceInv, BountyTypeOK, ApprovalsAreDistinct, SignersCanDecide
<1>10. QED
  BY <1>1, <1>5, <1>6, <1>7, <1>8, <1>9, StepCases


\* In every run of the contract: the stored governance has its types, nobody's
\* approval counts twice, and an initialised contract has signers who can decide.
THEOREM GovernanceCorrect == Spec => []GovernanceInv
<1>1. GovernanceInv /\ [Next]_vars => GovernanceInv'
  BY GovernanceInvStep
<1>2. QED
  BY InitGovernance, <1>1, PTL DEF Spec

\* The refinement: every run of the contract under governance is a run of the
\* escrow, so that proposals only restrict when its actions happen.
THEOREM GovernanceOnlyRestricts == Spec => ImplementsEscrow
<1>1. Init => EscrowInit
  BY DEF Init
<1>2. GovernanceInv /\ [Next]_vars => [EscrowNext]_escrowVars
  BY StepIsEscrowStep DEF GovernanceInv
<1>3. QED
  BY <1>1, <1>2, GovernanceCorrect, PTL DEF Spec, ImplementsEscrow, EscrowSpec

\* What the theorems about the escrow say of the contract: no signer set and no
\* order of proposals breaks the settlement, the books, the votes or the registry.
THEOREM ContractKeepsEscrowSafe ==
  Spec => [](/\ EscrowTypeOK /\ SettlementInv /\ BooksBalance
             /\ VotesMatchBallots /\ PayoutsAreCredited /\ RegistryConsistent)
BY GovernanceOnlyRestricts, SettlementCorrect, BooksAlwaysBalance, VotesAreBallots,
   PaymentsAreCredited, EscrowKeepsRegistryConsistent, PTL DEF ImplementsEscrow

\* Neither the signers nor the reviewers of any bounty are ever asked for more
\* approvals than they can give: no accepted rotation locks them out.
THEOREM EverybodyCanDecide == Spec => []NobodyIsLockedOut
<1>1. GovernanceInv => SignersCanDecide
  BY DEF GovernanceInv
<1>2. SignersCanDecide /\ QuorumReachable => NobodyIsLockedOut
  BY DEF NobodyIsLockedOut
<1>3. Spec => []QuorumReachable
  BY GovernanceOnlyRestricts, QuorumIsReachable, PTL DEF ImplementsEscrow
<1>4. QED
  BY <1>1, <1>2, <1>3, GovernanceCorrect, PTL

-----------------------------------------------------------------------------
(* What a step decides.                                                    *)

\* A step that stores proposal p under id, executed or not, and nothing else.
Stores(id, p) ==
  /\ id \in DOMAIN proposal => ~proposal[id].executed /\ ~proposal[id].cancelled
  /\ DOMAIN proposal' = DOMAIN proposal \cup {id}
  /\ proposal'[id] = p
  /\ \A k \in DOMAIN proposal : k # id => proposal'[k] = proposal[k]

\* A signed proposal is stored as it is, and then nothing else changes, or as
\* executed, and then its action runs and it is backed.
LEMMA SignedStores ==
  ASSUME GovernanceInv, NEW id, NEW p, Signed(id, p)
  PROVE  \/ Stores(id, p) /\ UNCHANGED <<escrowVars, signers, threshold>>
         \/ \E q : /\ Stores(id, q) /\ q.executed /\ Backed(q)
                   /\ q.action = p.action /\ q.approvals = p.approvals
                   /\ p.action \in Proposable /\ Execute(p.action)
<1>1. /\ id \in 1..(Len(proposal) + 1) /\ p \in Proposal /\ NoDuplicates(p.approvals)
      /\ StoreAndTryExecute(id, p)
      /\ id \in DOMAIN proposal => Open(proposal[id])
  BY DEF Signed
<1>2. ASSUME NEW q, proposal' = Put(proposal, id, q)  PROVE Stores(id, q)
  BY <1>1, <1>2 DEF Put, Open, Stores
<1>3. CASE ~Reached(p)
  BY <1>1, <1>2, <1>3 DEF StoreAndTryExecute
<1>4. CASE Reached(p)
  <2>1. PICK q : q = [p EXCEPT !.executed = TRUE]
    OBVIOUS
  <2>2. q \in Proposal /\ q.executed /\ q.approvals = p.approvals /\ q.action = p.action
    BY <1>1, <2>1, ExecutedParts
  <2>3. proposal' = Put(proposal, id, q) /\ Execute(p.action)
    BY <1>1, <1>4, <2>1 DEF StoreAndTryExecute
  <2>4. p.approvals \in Seq(Address)
    BY <1>1 DEF Proposal
  <2>5. Cardinality(Members(q.approvals)) = Len(p.approvals)
    BY <1>1, <2>2, <2>4, DistinctMembers
  <2>6. Backed(q)
    BY <1>4, <2>5 DEF Reached, Backed
  <2>7. p.action \in Proposable
    BY <1>1 DEF Proposal
  <2>8. QED
    BY <1>2, <2>2, <2>3, <2>6, <2>7
<1>5. QED
  BY <1>3, <1>4

LEMMA WithdrawnStores ==
  ASSUME NEW id, NEW p, Withdrawn(id, p)
  PROVE  Stores(id, p) /\ ~p.executed /\ UNCHANGED <<escrowVars, signers, threshold>>
BY DEF Withdrawn, Open, Stores

LEMMA NewlyExecutedOne ==
  ASSUME NEW id, NEW p, Stores(id, p)
  PROVE  NewlyExecuted = IF p.executed THEN {id} ELSE {}
<1>1. ASSUME NEW k \in NewlyExecuted  PROVE k = id /\ p.executed
  BY <1>1 DEF NewlyExecuted, Stores
<1>2. p.executed => id \in NewlyExecuted
  BY DEF NewlyExecuted, Stores
<1>3. QED
  BY <1>1, <1>2

LEMMA SameProposals ==
  ASSUME proposal' = proposal
  PROVE  NewlyExecuted = {}
BY DEF NewlyExecuted

DecideOnce ==
  /\ \A id \in DOMAIN proposal :
       proposal[id].executed \/ proposal[id].cancelled => proposal'[id] = proposal[id]
  /\ \A j, k \in NewlyExecuted : j = k

LEMMA DecideOnceStep ==
  ASSUME GovernanceInv, [Next]_vars
  PROVE  DecideOnce
<1>1. ASSUME NEW id, NEW p, Stores(id, p)  PROVE DecideOnce
  <2>1. \A j, k \in NewlyExecuted : j = k
    BY <1>1, NewlyExecutedOne
  <2>2. QED
    BY <1>1, <2>1 DEF DecideOnce, Stores
<1>2. ASSUME proposal' = proposal  PROVE DecideOnce
  BY <1>2, SameProposals DEF DecideOnce
<1>3. (\E a \in Deployers, r \in RegistryChoices : init(a, r)) => proposal' = proposal
  BY DEF init
<1>4. UNCHANGED governanceVars \/ UNCHANGED vars => proposal' = proposal
  BY DEF governanceVars, vars
<1>5. (\E id, p : Signed(id, p)) => \E id, p : Stores(id, p)
  BY SignedStores
<1>6. (\E id, p : Withdrawn(id, p)) => \E id, p : Stores(id, p)
  BY WithdrawnStores
<1>7. QED
  BY <1>1, <1>2, <1>3, <1>4, <1>5, <1>6, StepCases DEF GovernanceInv

\* A decided proposal is decided for good, and a transaction executes at most one.
THEOREM DecidedForGood == Spec => ProposalsDecideOnce
<1>1. GovernanceInv /\ [Next]_vars => [DecideOnce]_vars
  BY DecideOnceStep
<1>2. QED
  BY <1>1, GovernanceCorrect, PTL DEF Spec, ProposalsDecideOnce, DecideOnce


-----------------------------------------------------------------------------
(* What takes a proposal.                                                  *)

\* What an executed action may pay, return and set.
PaysOnly(a) == \A k \in paid' \ paid : Pays(a, k[1], k[2])

RefundsOnly(a) == \A i \in DOMAIN bounty : returned'[i] # returned[i] => Refunds(a, i)

PanelSet(a, i) ==
  /\ a.kind = "SetReviewers" /\ a.issue = i
  /\ bounty'[i].reviewers = Members(a.reviewers)
  /\ bounty'[i].reviewer_quorum = a.quorum

SetsPanelsOnly(a) == \A i \in DOMAIN bounty : PanelKept(i) \/ PanelSet(a, i)

SetsSignersOnly(a) ==
  \/ signers' = signers /\ threshold' = threshold
  \/ /\ a.kind = "SetSigners"
     /\ signers' = Members(a.signers) /\ threshold' = a.threshold

\* An executed action pays no milestone but its own.
LEMMA ExecutePays ==
  ASSUME NEW a, Execute(a)
  PROVE  PaysOnly(a)
<1>1. CASE a.kind = "Release" /\ apply_release(a.issue, a.milestone)
  <2>1. paid' = paid \cup {<<a.issue, a.milestone>>}
    BY <1>1 DEF apply_release
  <2>2. QED
    BY <1>1, <2>1 DEF Pays, PaysOnly
<1>2. CASE a.kind = "ResolveDispute" /\ a.pay /\ ResolveByPaying(a.id)
  <2>1. PICK i, m : i = dispute[a.id].issue /\ m = dispute[a.id].milestone
    OBVIOUS
  <2>2. paid' = paid \cup {<<i, m>>}
    BY <1>2, <2>1 DEF ResolveByPaying
  <2>3. \A k \in paid' \ paid : k[1] = i /\ k[2] = m
    BY <2>2
  <2>4. QED
    BY <1>2, <2>1, <2>3 DEF Pays, PaysOnly
<1>3. ASSUME UNCHANGED paid  PROVE PaysOnly(a)
  BY <1>3 DEF PaysOnly
<1>4. CASE a.kind = "Reclaim" /\ apply_reclaim(a.issue)
  BY <1>3, <1>4 DEF apply_reclaim, RefundRemaining
<1>5. CASE a.kind = "SetReviewers" /\ apply_set_reviewers(a.issue, a.reviewers, a.quorum)
  BY <1>3, <1>5 DEF apply_set_reviewers
<1>6. CASE a.kind = "ResolveDispute" /\ ~a.pay /\ ResolveByRefunding(a.id)
  BY <1>3, <1>6 DEF ResolveByRefunding
<1>7. CASE a.kind = "SetSigners" /\ UNCHANGED escrowVars
  BY <1>3, <1>7 DEF escrowVars
<1>8. QED
  BY <1>1, <1>2, <1>4, <1>5, <1>6, <1>7 DEF Execute, execute_action

\* An executed action returns money of no bounty but the one it reclaims or whose
\* dispute it decides for the funder.
LEMMA ExecuteRefunds ==
  ASSUME EscrowTypeOK, NEW a, Execute(a)
  PROVE  RefundsOnly(a)
<1>1. returned \in [Issue -> Nat] /\ DOMAIN bounty \subseteq Issue
  BY DEF EscrowTypeOK
<1>2. ASSUME NEW j, NEW n, returned' = [returned EXCEPT ![j] = n]
      PROVE  \A i \in DOMAIN bounty : returned'[i] # returned[i] => i = j
  BY <1>1, <1>2
<1>3. CASE a.kind = "Reclaim" /\ apply_reclaim(a.issue)
  <2>1. PICK n : returned' = [returned EXCEPT ![a.issue] = n]
    BY <1>3 DEF apply_reclaim, RefundRemaining
  <2>2. QED
    BY <1>2, <1>3, <2>1 DEF Refunds, RefundsOnly
<1>4. CASE a.kind = "ResolveDispute" /\ ~a.pay /\ ResolveByRefunding(a.id)
  <2>1. PICK n : returned' = [returned EXCEPT ![dispute[a.id].issue] = n]
    BY <1>4 DEF ResolveByRefunding
  <2>2. QED
    BY <1>2, <1>4, <2>1 DEF Refunds, RefundsOnly
<1>5. ASSUME UNCHANGED returned  PROVE RefundsOnly(a)
  BY <1>5 DEF RefundsOnly
<1>6. CASE a.kind = "Release" /\ apply_release(a.issue, a.milestone)
  BY <1>5, <1>6 DEF apply_release
<1>7. CASE a.kind = "SetReviewers" /\ apply_set_reviewers(a.issue, a.reviewers, a.quorum)
  BY <1>5, <1>7 DEF apply_set_reviewers
<1>8. CASE a.kind = "ResolveDispute" /\ a.pay /\ ResolveByPaying(a.id)
  BY <1>5, <1>8 DEF ResolveByPaying
<1>9. CASE a.kind = "SetSigners" /\ UNCHANGED escrowVars
  BY <1>5, <1>9 DEF escrowVars
<1>10. QED
  BY <1>3, <1>4, <1>6, <1>7, <1>8, <1>9 DEF Execute, execute_action

\* An executed action sets no panel but the one it names, to what it says.
LEMMA ExecutionNamesPanels ==
  ASSUME EscrowTypeOK, NEW a \in Proposable, Execute(a)
  PROVE  SetsPanelsOnly(a)
<1>1. a \in EscrowAction \cup SignerAction
  BY EscrowConstants
<1>2. ASSUME DOMAIN bounty' = DOMAIN bounty, \A j \in DOMAIN bounty' : PanelKept(j)
      PROVE  SetsPanelsOnly(a)
  BY <1>2 DEF SetsPanelsOnly
<1>3. ASSUME NEW i, NEW m, NEW b, NEW c, i \in DOMAIN bounty, b = bounty[i],
             m \in Milestones(b), c = Settle(b, {m}) \/ c = Pay(b, m),
             bounty' = [bounty EXCEPT ![i] = c]
      PROVE  SetsPanelsOnly(a)
  <2>1. b \in Bounty
    BY <1>3, StoredBounty
  <2>2. c.reviewers = b.reviewers /\ c.reviewer_quorum = b.reviewer_quorum
    BY <1>3, <2>1, PayParts
  <2>3. \A j \in DOMAIN bounty' : PanelKept(j)
    BY <1>3, <2>2, SamePanels
  <2>4. QED
    BY <1>2, <1>3, <2>3
<1>4. CASE a.kind = "Release" /\ apply_release(a.issue, a.milestone)
  <2>1. PICK i, m, b, c : i = a.issue /\ m = a.milestone /\ b = bounty[i] /\ c = Pay(b, m)
    OBVIOUS
  <2>2. i \in DOMAIN bounty /\ m \in Milestones(b) /\ bounty' = [bounty EXCEPT ![i] = c]
    BY <1>4, <2>1 DEF apply_release
  <2>3. QED
    BY <1>3, <2>1, <2>2
<1>5. CASE a.kind = "Reclaim" /\ apply_reclaim(a.issue)
  <2>1. a.issue \in DOMAIN bounty /\ RefundRemaining(a.issue)
    BY <1>5 DEF apply_reclaim
  <2>2. QED
    BY <1>2, <2>1, RefundPanels DEF RefundRemaining
<1>6. CASE a.kind = "SetReviewers" /\ apply_set_reviewers(a.issue, a.reviewers, a.quorum)
  <2>1. PICK i, rs, q : i = a.issue /\ rs = a.reviewers /\ q = a.quorum
    OBVIOUS
  <2>2. /\ i \in DOMAIN bounty /\ bounty[i] \in Bounty
        /\ bounty' = [bounty EXCEPT ![i] = [bounty[i] EXCEPT !.reviewers = Members(rs),
                                                             !.reviewer_quorum = q]]
    BY <1>6, <2>1, StoredBounty DEF apply_set_reviewers
  <2>3. bounty'[i].reviewers = Members(rs) /\ bounty'[i].reviewer_quorum = q
    BY <2>2 DEF Bounty
  <2>4. PanelSet(a, i)
    BY <1>6, <2>1, <2>3 DEF PanelSet
  <2>5. \A j \in DOMAIN bounty : j # i => PanelKept(j)
    BY <2>2 DEF PanelKept
  <2>6. QED
    BY <2>4, <2>5 DEF SetsPanelsOnly
<1>7. ASSUME NEW id, ResolveByPaying(id) \/ ResolveByRefunding(id)
      PROVE  SetsPanelsOnly(a)
  <2>1. PICK pay \in BOOLEAN : Resolvable(id, pay)
    BY <1>7 DEF ResolveByPaying, ResolveByRefunding
  <2>2. PICK i, m, b : i = dispute[id].issue /\ m = dispute[id].milestone /\ b = bounty[i]
    OBVIOUS
  <2>3. i \in DOMAIN bounty /\ m \in Milestones(b)
    BY <2>1, <2>2, ResolvableTypes
  <2>4. PICK c : /\ c = Settle(b, {m}) \/ c = Pay(b, m)
                 /\ bounty' = [bounty EXCEPT ![i] = c]
    BY <1>7, <2>2 DEF ResolveByPaying, ResolveByRefunding
  <2>5. QED
    BY <1>3, <2>2, <2>3, <2>4
<1>8. CASE a.kind = "SetSigners" /\ UNCHANGED escrowVars
  BY <1>2, <1>8 DEF escrowVars, PanelKept
<1>9. QED
  BY <1>4, <1>5, <1>6, <1>7, <1>8 DEF Execute, execute_action

LEMMA ExecuteSigners ==
  ASSUME NEW a, Execute(a)
  PROVE  SetsSignersOnly(a)
BY DEF Execute, apply_set_signers, SetsSignersOnly

\* A user gets back only what nobody has claimed.
LEMMA UserRefunds ==
  ASSUME EscrowTypeOK, UserStep \/ RegistryStep
  PROVE  \A i \in DOMAIN bounty : returned'[i] # returned[i] => bounty[i].contributor = NoOne
<1>1. (\E f \in Funders, t \in Token, i \in Issue, l \in MilestoneLists :
         create_bounty(f, t, i, l)) => UNCHANGED returned
  BY DEF create_bounty
<1>2. (\E i \in Issue, w \in Workers : claim(i, w)) => UNCHANGED returned
  BY DEF claim
<1>3. ASSUME NEW j \in Issue, reclaim(j)
      PROVE  \A i \in DOMAIN bounty :
               returned'[i] # returned[i] => bounty[i].contributor = NoOne
  <2>1. /\ bounty[j].contributor = NoOne
        /\ returned' = [returned EXCEPT ![j] = @ + remaining_escrow(bounty[j])]
    BY <1>3 DEF reclaim, RefundRemaining
  <2>2. returned \in [Issue -> Nat] /\ DOMAIN bounty \subseteq Issue
    BY DEF EscrowTypeOK
  <2>3. QED
    BY <2>1, <2>2
<1>4. (\E v \in Address, i \in Issue, m \in Slot, d \in Decision :
         submit_review(v, i, m, d)) => UNCHANGED returned
  BY DEF submit_review
<1>5. (\E a \in Address, i \in Issue, m \in Slot : open_dispute(a, i, m))
        => UNCHANGED returned
  BY DEF open_dispute
<1>6. (\E v \in Address, id \in 1..MaxDisputes, pay \in BOOLEAN :
         vote_on_dispute(v, id, pay)) => UNCHANGED returned
  BY DEF vote_on_dispute
<1>7. RegistryStep => UNCHANGED returned
  BY DEF RegistryStep
<1>8. QED
  BY <1>1, <1>2, <1>3, <1>4, <1>5, <1>6, <1>7 DEF UserStep

MoneyDecided ==
  /\ \A k \in paid' \ paid : \E id \in NewlyExecuted :
       Backed(proposal'[id]) /\ Pays(proposal'[id].action, k[1], k[2])
  /\ \A i \in DOMAIN bounty :
       returned'[i] # returned[i] /\ bounty[i].contributor # NoOne =>
         \E id \in NewlyExecuted :
           Backed(proposal'[id]) /\ Refunds(proposal'[id].action, i)

GovernanceDecided ==
  /\ config # "uninitialised" /\ <<signers', threshold'>> # <<signers, threshold>> =>
       \E id \in NewlyExecuted :
         LET a == proposal'[id].action
         IN  /\ Backed(proposal'[id]) /\ a.kind = "SetSigners"
             /\ signers' = Members(a.signers) /\ threshold' = a.threshold
  /\ \A i \in DOMAIN bounty :
       \/ /\ bounty'[i].reviewers = bounty[i].reviewers
          /\ bounty'[i].reviewer_quorum = bounty[i].reviewer_quorum
       \/ \E id \in NewlyExecuted :
            LET a == proposal'[id].action
            IN  /\ Backed(proposal'[id]) /\ a.kind = "SetReviewers" /\ a.issue = i
                /\ bounty'[i].reviewers = Members(a.reviewers)
                /\ bounty'[i].reviewer_quorum = a.quorum

ApprovalsDecided ==
  \A id \in DOMAIN proposal' :
    Members(proposal'[id].approvals) \subseteq ApprovalsOf(id) \cup signers

LEMMA StoredApprovals ==
  ASSUME NEW id, NEW p, Stores(id, p),
         Members(p.approvals) \subseteq ApprovalsOf(id) \cup signers
  PROVE  ApprovalsDecided
BY DEF Stores, ApprovalsDecided, ApprovalsOf

LEMMA SameGovernance ==
  ASSUME UNCHANGED <<escrowVars, signers, threshold>>
  PROVE  MoneyDecided /\ GovernanceDecided
<1>1. UNCHANGED <<bounty, paid, returned, signers, threshold>>
  BY DEF escrowVars
<1>2. QED
  BY <1>1 DEF MoneyDecided, GovernanceDecided

\* What is decided when a backed proposal is executed.
LEMMA ExecutedDecisions ==
  ASSUME EscrowTypeOK, NEW id, NEW q, Stores(id, q), q.executed, Backed(q),
         q.action \in Proposable, Execute(q.action)
  PROVE  MoneyDecided /\ GovernanceDecided
<1>1. NewlyExecuted = {id} /\ proposal'[id] = q
  BY NewlyExecutedOne DEF Stores
<1>2. PICK a : a = q.action
  OBVIOUS
<1>3. PaysOnly(a) /\ RefundsOnly(a) /\ SetsPanelsOnly(a) /\ SetsSignersOnly(a)
  BY <1>2, ExecutePays, ExecuteRefunds, ExecutionNamesPanels, ExecuteSigners
<1>4. MoneyDecided
  BY <1>1, <1>2, <1>3 DEF MoneyDecided, PaysOnly, RefundsOnly
<1>5. GovernanceDecided
  BY <1>1, <1>2, <1>3
  DEF GovernanceDecided, SetsPanelsOnly, SetsSignersOnly, PanelKept, PanelSet
<1>6. QED
  BY <1>4, <1>5

LEMMA DecisionsStep ==
  ASSUME GovernanceInv, SettlementInv, [Next]_vars
  PROVE  MoneyDecided /\ GovernanceDecided /\ ApprovalsDecided
<1>1. BountyTypeOK /\ ApprovalsAreDistinct /\ EscrowTypeOK
  BY DEF GovernanceInv, BountyTypeOK
<1>2. ASSUME proposal' = proposal  PROVE ApprovalsDecided
  BY <1>2 DEF ApprovalsDecided, ApprovalsOf
<1>3. ASSUME NEW a \in Deployers, NEW r \in RegistryChoices, init(a, r)
      PROVE  MoneyDecided /\ GovernanceDecided /\ ApprovalsDecided
  <2>1. /\ UNCHANGED <<bounty, paid, returned>> /\ config = "uninitialised"
        /\ proposal' = proposal
    BY <1>3 DEF init, InitContract
  <2>2. QED
    BY <1>2, <2>1 DEF MoneyDecided, GovernanceDecided
<1>4. ASSUME NEW id, NEW p, Signed(id, p)
      PROVE  MoneyDecided /\ GovernanceDecided /\ ApprovalsDecided
  <2>1. Members(p.approvals) \subseteq ApprovalsOf(id) \cup signers
    BY <1>4 DEF Signed
  <2>2. CASE Stores(id, p) /\ UNCHANGED <<escrowVars, signers, threshold>>
    BY <2>1, <2>2, StoredApprovals, SameGovernance
  <2>3. ASSUME NEW q, Stores(id, q), q.executed, Backed(q), q.action = p.action,
               q.approvals = p.approvals, p.action \in Proposable, Execute(p.action)
        PROVE  MoneyDecided /\ GovernanceDecided /\ ApprovalsDecided
    <3>1. ApprovalsDecided
      BY <2>1, <2>3, StoredApprovals
    <3>2. q.action \in Proposable /\ Execute(q.action)
      BY <2>3
    <3>3. QED
      BY <1>1, <2>3, <3>1, <3>2, ExecutedDecisions
  <2>4. QED
    BY <1>4, <2>2, <2>3, SignedStores
<1>5. ASSUME NEW id, NEW p, Withdrawn(id, p)
      PROVE  MoneyDecided /\ GovernanceDecided /\ ApprovalsDecided
  <2>1. Stores(id, p) /\ UNCHANGED <<escrowVars, signers, threshold>>
    BY <1>5, WithdrawnStores
  <2>2. Members(p.approvals) \subseteq ApprovalsOf(id) \cup signers
    BY <1>5 DEF Withdrawn
  <2>3. QED
    BY <2>1, <2>2, StoredApprovals, SameGovernance
<1>6. CASE (UserStep \/ RegistryStep) /\ UNCHANGED governanceVars
  <2>1. UNCHANGED <<paid, signers, threshold, proposal>>
    BY <1>6, UserConfig DEF governanceVars
  <2>2. \A i \in DOMAIN bounty : returned'[i] # returned[i] => bounty[i].contributor = NoOne
    BY <1>1, <1>6, UserRefunds
  <2>3. \A i \in DOMAIN bounty : i \in DOMAIN bounty'
    <3>1. [EscrowNext]_escrowVars
      BY <1>1, StepIsEscrowStep
    <3>2. QED
      BY <1>1, <3>1, TermsStep DEF TermsKept
  <2>4. \A i \in DOMAIN bounty : PanelKept(i)
    BY <1>1, <1>6, <2>3, UserPanels DEF PanelFresh
  <2>5. QED
    BY <1>2, <2>1, <2>2, <2>4 DEF MoneyDecided, GovernanceDecided, PanelKept
<1>7. CASE UNCHANGED vars
  <2>1. UNCHANGED <<escrowVars, signers, threshold, proposal>>
    BY <1>7 DEF vars, governanceVars
  <2>2. QED
    BY <1>2, <2>1, SameGovernance
<1>8. QED
  BY <1>1, <1>3, <1>4, <1>5, <1>6, <1>7, StepCases

\* A milestone is paid, a claimed bounty refunded, and signers, threshold and
\* panels replaced, only in a transaction that executes a proposal for just that
\* milestone, bounty, set or panel, which as many different accounts as the
\* threshold asks for have approved, each while it was a signer.
THEOREM SignersDecide == Spec => DecisionsNeedProposals
<1>1. GovernanceInv /\ SettlementInv /\ [Next]_vars
        => [MoneyDecided]_vars /\ [GovernanceDecided]_vars /\ [ApprovalsDecided]_vars
  BY DecisionsStep
<1>2. Spec => []SettlementInv
  BY GovernanceOnlyRestricts, SettlementCorrect, PTL DEF ImplementsEscrow
<1>3. Spec => [][MoneyDecided]_vars /\ [][GovernanceDecided]_vars /\ [][ApprovalsDecided]_vars
  BY <1>1, <1>2, GovernanceCorrect, PTL DEF Spec
<1>4. QED
  BY <1>3, PTL DEF DecisionsNeedProposals, ClaimedMoneyNeedsAProposal, MoneyDecided,
                   GovernanceNeedsAProposal, GovernanceDecided,
                   SignersApprove, ApprovalsDecided
=============================================================================
