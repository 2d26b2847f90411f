----------------------------- MODULE Settlement -----------------------------
(***************************************************************************)
(* What the escrow does with the money it holds: it moves only together    *)
(* with the fate of the milestones it belongs to, and by just their worth. *)
(* A milestone's money is locked once, and once it is paid it is gone for  *)
(* good.  While the milestone is disputed only the decision of the dispute *)
(* moves it, and nothing else of that bounty can be refunded.              *)
(*                                                                         *)
(* Refunds are weaker than that.  Refunding the rest of a bounty moves     *)
(* whatever was not PAID, so money that a dispute has already refunded     *)
(* leaves a second time, at the expense of other bounties: the fate        *)
(* "refunded twice".  No other money leaves twice.                         *)
(*                                                                         *)
(* Escrow.tla implements this specification (MoneyMovesWithFate).          *)
(***************************************************************************)
EXTENDS Naturals, Sequences

CONSTANTS
  Issue,           \* issue ids with a bounty
  MaxMilestones,   \* bound: milestones of one bounty
  Token,           \* token contracts
  MilestoneLists,  \* amounts of the milestones of a bounty
  Worth(_, _)      \* what some positions of such a list are worth together

VARIABLES
  fate,   \* of the money of each (issue, milestone)
  terms,  \* of each bounty: its token, its amounts and what was locked for it
  funds   \* what the escrow holds of each token

settlementVars == <<fate, terms, funds>>

Key == Issue \X (1..MaxMilestones)

\* The fates of the milestones of an issue.
FatesOf(issue) == {fate[<<issue, m>>] : m \in 1..MaxMilestones}

Leave(token, n) == funds[token] >= n /\ funds' = [funds EXCEPT ![token] = @ - n]

Init ==
  /\ fate = [k \in Key |-> "absent"]
  /\ terms = [i \in {} |-> 0]
  /\ funds = [t \in Token |-> 0]

\* create_bounty: all milestones of the issue are locked.
Lock(issue, token, amounts) ==
  LET locked == Worth(amounts, DOMAIN amounts)
  IN  /\ issue \notin DOMAIN terms
      /\ terms' = [i \in DOMAIN terms \cup {issue} |->
                     IF i = issue
                     THEN [token |-> token, amounts |-> amounts, locked |-> locked]
                     ELSE terms[i]]
      /\ fate' = [k \in Key |->
                    IF k[1] = issue /\ k[2] \in DOMAIN amounts THEN "held" ELSE fate[k]]
      /\ funds' = [funds EXCEPT ![token] = @ + locked]

\* open_dispute
Contest(k) ==
  /\ fate[k] = "held"
  /\ fate' = [fate EXCEPT ![k] = "disputed"]
  /\ UNCHANGED <<terms, funds>>

\* apply_release, apply_resolve_dispute: the money of one milestone leaves.
Settle(k, from, to) ==
  /\ fate[k] = from
  /\ fate' = [fate EXCEPT ![k] = to]
  /\ Leave(terms[k[1]].token, terms[k[1]].amounts[k[2]])
  /\ UNCHANGED terms

Pay(k) == Settle(k, "held", "paid")
Decide(k, outcome) == Settle(k, "disputed", outcome)

\* reclaim, apply_reclaim: whatever was not paid leaves.
RefundRest(issue) ==
  /\ "held" \in FatesOf(issue)
  /\ "disputed" \notin FatesOf(issue)
  /\ fate' = [k \in Key |->
                IF k[1] # issue THEN fate[k]
                ELSE IF fate[k] = "held" THEN "refunded"
                ELSE IF fate[k] = "refunded" THEN "refunded twice"
                ELSE fate[k]]
  /\ LET b    == terms[issue]
         gone == {m \in 1..MaxMilestones : fate[<<issue, m>>] = "paid"}
     IN  Leave(b.token, b.locked - Worth(b.amounts, gone))
  /\ UNCHANGED terms

Next ==
  \/ \E issue \in Issue, token \in Token, amounts \in MilestoneLists :
       Lock(issue, token, amounts)
  \/ \E k \in Key : Contest(k) \/ Pay(k)
  \/ \E k \in Key, outcome \in {"paid", "refunded"} : Decide(k, outcome)
  \/ \E issue \in Issue : RefundRest(issue)

Spec == Init /\ [][Next]_settlementVars
=============================================================================
