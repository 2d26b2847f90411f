--------------------------- MODULE ReadModelProofs ---------------------------
(***************************************************************************)
(* Proofs about the index and the answers of the API, for any runs of the  *)
(* contract and any schedule of the passes that index its events.          *)
(*                                                                         *)
(* Every step of the read model is a step of the contract or leaves it     *)
(* alone, so what is proved of the contract holds here.  What the tables   *)
(* say is proved of the tables that are caught up: a fold over the events  *)
(* not yet indexed, which a pass leaves as it is and a transaction         *)
(* continues by the events that it emits.                                  *)
(***************************************************************************)
EXTENDS ReadModel, BountyContractProofs

-----------------------------------------------------------------------------
(* The contract under the index.                                           *)

LEMMA ReadStepIsStep ==
  ASSUME [ReadNext]_readVars
  PROVE  [Next]_vars
<1>1. EmitUser => UserStep
  BY Zenon DEF EmitUser, UserStep
<1>2. EmitGovernance => GovernanceStep
  BY Zenon DEF EmitGovernance, GovernanceStep
<1>3. EmitRegistry => RegistryStep /\ UNCHANGED governanceVars
  BY DEF EmitRegistry, RegistryStep
<1>4. IndexEvents => UNCHANGED vars
  BY DEF IndexEvents
<1>5. QED
  BY <1>1, <1>2, <1>3, <1>4 DEF ReadNext, Next, readVars

\* Indexing changes nothing in the contract: every run of the read model is a run
\* of the contract, whatever is indexed when.
THEOREM IndexingOnlyReads == ReadSpec => Spec
<1>1. ReadInit => Init
  BY DEF ReadInit
<1>2. [ReadNext]_readVars => [Next]_vars
  BY ReadStepIsStep
<1>3. QED
  BY <1>1, <1>2, PTL DEF ReadSpec, Spec

-----------------------------------------------------------------------------
(* Answers composed from several reads of the ledger.                      *)

\* The statistics of a contributor and their reputation are two writes of one
\* transaction, each answered only if there is something in it.
LEMMA StatsAnswer ==
  ASSUME reg \in RegistryState, RegistrySound(reg), NEW a \in Address
  PROVE  readContributorStats(a) =
           {[count |-> r.payouts, total |-> r.payout_total] :
              r \in {r \in readReputation(a) : r.payouts > 0}}
<1>1. /\ reg.stats[a] \in Stats /\ reg.rep[a] \in Reputation
      /\ reg.stats[a].count = reg.rep[a].payouts
      /\ reg.stats[a].total = reg.rep[a].payout_total
      /\ reg.rep[a].payouts = 0 => reg.rep[a].payout_total = 0
  BY DEF RegistryState, RegistrySound, AccountSound
<1>2. reg.stats[a] = [count |-> reg.rep[a].payouts, total |-> reg.rep[a].payout_total]
  BY <1>1 DEF Stats
<1>3. CASE reg.rep[a].payouts = 0
  <2>1. reg.stats[a] = NoStats
    BY <1>1, <1>2, <1>3 DEF NoStats
  <2>2. {r \in readReputation(a) : r.payouts > 0} = {}
    BY <1>3 DEF readReputation
  <2>3. QED
    BY <2>1, <2>2 DEF readContributorStats
<1>4. CASE reg.rep[a].payouts # 0
  <2>1. reg.stats[a] # NoStats /\ reg.rep[a] # NoReputation
    BY <1>2, <1>4 DEF NoStats, NoReputation
  <2>2. reg.rep[a].payouts > 0
    BY <1>1, <1>4 DEF Reputation
  <2>3. {r \in readReputation(a) : r.payouts > 0} = {reg.rep[a]}
    BY <2>1, <2>2 DEF readReputation
  <2>4. QED
    BY <1>2, <2>1, <2>3 DEF readContributorStats
<1>5. QED
  BY <1>3, <1>4

\* A bounty that has released something is covered by the answer about its
\* contributor.
LEMMA PayoutAnswer ==
  ASSUME EscrowTypeOK, RegistrySound(reg), PaidAreClaimed, AccountsExact,
         \A k \in paid : SatAdd(0, PaidOut(k[1]))
                           <= reg.rep[bounty[k[1]].contributor].payout_total,
         NEW i \in DOMAIN bounty, bounty[i].released_amount > 0
  PROVE  \E s \in readContributorStats(bounty[i].contributor) :
           s.total >= bounty[i].released_amount
<1>1. bounty[i].released_amount = SatAdd(0, PaidOut(i))
  BY DEF AccountsExact, SumOf, PaidOut, Sum
<1>2. PaidMilestones(i) # {}
  <2>1. ASSUME PaidMilestones(i) = {}  PROVE FALSE
    <3>1. PaidOut(i) = 0
      BY <2>1, SumEmpty DEF PaidOut
    <3>2. SatAdd(0, 0) = 0
      BY RegistryConstants DEF SatAdd
    <3>3. QED
      BY <1>1, <3>1, <3>2
  <2>2. QED
    BY <2>1
<1>3. PICK m \in Slot : <<i, m>> \in paid
  BY <1>2 DEF PaidMilestones
<1>4. PICK c : c = bounty[i].contributor
  OBVIOUS
<1>5. c \in Address /\ bounty[i].released_amount <= reg.rep[c].payout_total
  <2>1. bounty[i] \in Bounty /\ c # NoOne
    BY <1>3, <1>4, StoredBounty DEF PaidAreClaimed
  <2>2. QED
    BY <1>1, <1>3, <1>4, <2>1, PartyTypes
<1>6. reg.stats[c].total = reg.rep[c].payout_total /\ reg.rep[c].payout_total \in Int
  <2>1. reg \in RegistryState
    BY DEF EscrowTypeOK, RegTypeOK
  <2>2. reg.rep[c] \in Reputation /\ AccountSound(reg, c)
    BY <1>5, <2>1 DEF RegistryState, RegistrySound
  <2>3. QED
    BY <2>2, RegistryConstants DEF AccountSound, Reputation
<1>7. bounty[i].released_amount \in Int
  BY StoredBounty, RegistryConstants DEF Bounty
<1>8. reg.stats[c] # NoStats /\ reg.stats[c].total >= bounty[i].released_amount
  BY <1>5, <1>6, <1>7 DEF NoStats
<1>9. QED
  BY <1>4, <1>8 DEF readContributorStats

\* Endpoints that answer the same question from different places agree.
THEOREM EndpointsAgree == ReadSpec => []AnswersAgree
<1>1. /\ GovernanceInv /\ RegistrySound(reg) /\ PaidAreClaimed /\ PayoutsBacked
      /\ BooksBalance
      => AnswersAgree
  <2> SUFFICES ASSUME GovernanceInv, RegistrySound(reg), PaidAreClaimed, PayoutsBacked,
                      BooksBalance
               PROVE  AnswersAgree
    OBVIOUS
  <2>1. EscrowTypeOK /\ AccountsExact /\ reg \in RegistryState /\ SignersCanDecide
    BY DEF GovernanceInv, BountyTypeOK, BooksBalance, EscrowTypeOK, RegTypeOK
  <2>2. \A a \in Address :
          readContributorStats(a) =
            {[count |-> r.payouts, total |-> r.payout_total] :
               r \in {r \in readReputation(a) : r.payouts > 0}}
    BY <2>1, StatsAnswer
  <2>3. config = "with registry" => \A i \in DOMAIN bounty : \A b \in readBounty(i) :
          b.released_amount > 0 =>
            \E s \in readContributorStats(b.contributor) : s.total >= b.released_amount
    BY <2>1, PayoutAnswer DEF readBounty, PayoutsBacked
  <2>4. isContractInitialised <=> readSigners # {}
    BY DEF isContractInitialised, readSigners
  <2>5. \A s \in readSigners : s.threshold \in 1..Cardinality(s.signers)
    BY <2>1 DEF readSigners, SignersCanDecide
  <2>6. QED
    BY <2>2, <2>3, <2>4, <2>5 DEF AnswersAgree
<1>2. Spec => [](RegistrySound(reg) /\ PaidAreClaimed /\ PayoutsBacked /\ BooksBalance)
  BY GovernanceOnlyRestricts, EscrowKeepsRegistrySound, PaidClaims, TotalsCoverPayouts,
     BooksAlwaysBalance, PTL DEF ImplementsEscrow
<1>3. QED
  BY <1>1, <1>2, IndexingOnlyReads, GovernanceCorrect, PTL

-----------------------------------------------------------------------------
(* The fold of the rebuilds: it exists, it goes through the events in their *)
(* order, and it can be interrupted anywhere.                              *)

Folded(v, s) == FoldLeft(rebuildReadModels, v, s)

\* g is a function that the recursion of the fold describes.
IsIter(v, s, g) ==
  g = [t \in SUBSET DOMAIN s |->
         IF t = {} THEN v ELSE rebuildReadModels(g[t \ {Max(t)}], s[Max(t)])]

LEMMA FoldedIsIter ==
  ASSUME NEW v, NEW s
  PROVE  Folded(v, s) = (CHOOSE g : IsIter(v, s, g))[DOMAIN s]
BY DEF Folded, FoldLeft, MapThenFoldSet, IsIter

\* A nonempty set of positions has a last one.
LEMMA MaxOfPositions ==
  ASSUME NEW n \in Nat, NEW t \in SUBSET (1..n), t # {}
  PROVE  Max(t) \in t /\ \A y \in t : Max(t) >= y
<1> DEFINE U == {k \in Nat : n - k \in t}
<1>1. U # {}
  <2>1. PICK x \in t : TRUE
    OBVIOUS
  <2>2. n - x \in Nat /\ n - (n - x) = x
    OBVIOUS
  <2>3. QED
    BY <2>1, <2>2
<1>2. PICK k \in U : \A z \in U : ~(<<z, k>> \in OpToRel(<, Nat))
  <2> HIDE DEF U
  <2>1. U \subseteq Nat
    BY DEF U
  <2>2. QED
    BY <1>1, <2>1, WFMin, NatLessThanWellFounded
<1>3. n - k \in t /\ k \in Nat
  OBVIOUS
<1>4. ASSUME NEW y \in t  PROVE n - k >= y
  <2>1. n - y \in U
    <3>1. n - y \in Nat /\ n - (n - y) = y
      OBVIOUS
    <3>2. QED
      BY <3>1
  <2>2. ~(n - y < k)
    BY <1>2, <1>3, <2>1 DEF OpToRel
  <2>3. QED
    BY <1>3, <2>2
<1>5. \E x \in t : \A y \in t : x >= y
  BY <1>3, <1>4
<1>6. QED
  BY <1>5 DEF Max

LEMMA MaxOfPrefix ==
  ASSUME NEW n \in Nat, n # 0
  PROVE  Max(1..n) = n /\ (1..n) \ {n} = 1..(n - 1) /\ 1..n # {}
<1>1. n \in 1..n
  OBVIOUS
<1>2. 1..n \in SUBSET (1..n) /\ 1..n # {}
  BY <1>1
<1>3. Max(1..n) \in 1..n /\ Max(1..n) >= n
  BY <1>1, <1>2, MaxOfPositions
<1>4. QED
  BY <1>1, <1>3

\* The fold exists, for the sets of up to n positions after one another.
LEMMA IterExists ==
  ASSUME NEW v, NEW s, NEW len \in Nat, DOMAIN s = 1..len
  PROVE  \E g : IsIter(v, s, g)
<1> DEFINE S == DOMAIN s
           Layer(n) == {t \in SUBSET S : Cardinality(t) <= n}
           Up(n, g) == [t \in Layer(n) |->
                          IF t = {} THEN v
                          ELSE rebuildReadModels(g[t \ {Max(t)}], s[Max(t)])]
           T == {n \in Nat : \E g : g = Up(n, g)}
<1>1. IsFiniteSet(S)
  BY FS_Interval
<1>2. ASSUME NEW t \in SUBSET S, t # {}, NEW n \in Nat, Cardinality(t) <= n + 1
      PROVE  t \ {Max(t)} \in Layer(n)
  <2>1. IsFiniteSet(t) /\ Max(t) \in t
    BY <1>1, <1>2, FS_Subset, MaxOfPositions
  <2>2. Cardinality(t \ {Max(t)}) = Cardinality(t) - 1 /\ Cardinality(t) \in Nat
    BY <2>1, FS_RemoveElement, FS_CardinalityType
  <2>3. QED
    BY <1>2, <2>2
<1>3. 0 \in T
  <2> DEFINE g == [t \in Layer(0) |-> v]
  <2>1. \A t \in Layer(0) : t = {}
    <3>1. ASSUME NEW t \in SUBSET S, Cardinality(t) <= 0  PROVE t = {}
      BY <1>1, <3>1, FS_Subset, FS_CardinalityType, FS_EmptySet
    <3>2. QED
      BY <3>1
  <2>2. g = Up(0, g)
    BY <2>1
  <2>3. QED
    BY <2>2
<1>4. ASSUME NEW n \in Nat, n \in T  PROVE n + 1 \in T
  <2>1. PICK g : g = Up(n, g)
    BY <1>4
  <2> DEFINE h == Up(n + 1, g)
  <2>2. \A t \in Layer(n) : t \in Layer(n + 1)
    <3>1. ASSUME NEW t \in SUBSET S  PROVE Cardinality(t) \in Nat
      BY <1>1, FS_Subset, FS_CardinalityType
    <3>2. QED
      BY <3>1
  <2>3. \A t \in Layer(n) : h[t] = g[t]
    <3>1. TAKE t \in Layer(n)
    <3>2. h[t] = IF t = {} THEN v ELSE rebuildReadModels(g[t \ {Max(t)}], s[Max(t)])
      BY <2>2
    <3>3. g[t] = Up(n, g)[t]
      BY <2>1
    <3>4. Up(n, g)[t] = IF t = {} THEN v
                        ELSE rebuildReadModels(g[t \ {Max(t)}], s[Max(t)])
      OBVIOUS
    <3>5. QED
      BY <3>2, <3>3, <3>4
  <2>4. \A t \in Layer(n + 1) : t # {} => h[t \ {Max(t)}] = g[t \ {Max(t)}]
    <3> HIDE DEF h
    <3>1. QED
      BY <1>2, <2>3
  <2>5. h = Up(n + 1, h)
    <3>1. \A t \in Layer(n + 1) :
            h[t] = IF t = {} THEN v ELSE rebuildReadModels(h[t \ {Max(t)}], s[Max(t)])
      BY <2>4
    <3>2. h = [t \in Layer(n + 1) |-> h[t]]
      OBVIOUS
    <3> HIDE DEF h
    <3>3. QED
      BY <3>1, <3>2
  <2>6. \E k : k = Up(n + 1, k)
    <3> HIDE DEF h, Up
    <3>1. QED
      BY <2>5
  <2>7. n + 1 \in Nat
    OBVIOUS
  <2> HIDE DEF Up
  <2>8. QED
    BY <2>6, <2>7
<1>5. Cardinality(S) \in T
  <2>1. \A n \in Nat : n \in T
    <3> HIDE DEF T
    <3>1. QED
      BY <1>3, <1>4, NaturalInduction
  <2>2. QED
    BY <1>1, <2>1, FS_CardinalityType
<1>6. Layer(Cardinality(S)) = SUBSET S
  <2>1. ASSUME NEW t \in SUBSET S  PROVE Cardinality(t) <= Cardinality(S)
    BY <1>1, FS_Subset
  <2>2. QED
    BY <2>1
<1>7. PICK g : g = Up(Cardinality(S), g)
  BY <1>5
<1>8. IsIter(v, s, g)
  BY <1>6, <1>7 DEF IsIter
<1>9. QED
  BY <1>8

\* The tables after each of the events, one after another.
IsRun(v, s, p) ==
  /\ p[0] = v
  /\ \A n \in 1..Len(s) : p[n] = rebuildReadModels(p[n - 1], s[n])

LEMMA FoldedRuns ==
  ASSUME NEW v, NEW S, NEW s \in Seq(S)
  PROVE  \E p : IsRun(v, s, p) /\ p[Len(s)] = Folded(v, s)
<1>1. Len(s) \in Nat /\ DOMAIN s = 1..Len(s)
  BY LenProperties
<1> DEFINE g == CHOOSE k : IsIter(v, s, k)
           p == [n \in 0..Len(s) |-> g[1..n]]
<1>2. IsIter(v, s, g)
  BY <1>1, IterExists
<1>3. Folded(v, s) = g[DOMAIN s]
  BY FoldedIsIter
<1> HIDE DEF g
<1>4. \A t \in SUBSET DOMAIN s :
        g[t] = IF t = {} THEN v ELSE rebuildReadModels(g[t \ {Max(t)}], s[Max(t)])
  <2> DEFINE F(t) == IF t = {} THEN v
                     ELSE rebuildReadModels(g[t \ {Max(t)}], s[Max(t)])
  <2>1. g = [t \in SUBSET DOMAIN s |-> F(t)]
    BY <1>2 DEF IsIter
  <2> HIDE DEF F
  <2>2. \A t \in SUBSET DOMAIN s : g[t] = F(t)
    BY <2>1
  <2>3. QED
    BY <2>2 DEF F
<1>5. p[0] = v
  <2>1. 1..0 = {} /\ 0 \in 0..Len(s)
    BY <1>1
  <2>2. QED
    BY <1>4, <2>1
<1>6. ASSUME NEW n \in 1..Len(s)
      PROVE  p[n] = rebuildReadModels(p[n - 1], s[n])
  <2>1. /\ n \in Nat /\ n # 0 /\ n \in 0..Len(s) /\ n - 1 \in 0..Len(s)
        /\ 1..n \in SUBSET DOMAIN s
    BY <1>1
  <2>2. Max(1..n) = n /\ (1..n) \ {n} = 1..(n - 1) /\ 1..n # {}
    BY <2>1, MaxOfPrefix
  <2>3. g[1..n] = rebuildReadModels(g[1..(n - 1)], s[n])
    BY <1>4, <2>1, <2>2
  <2>4. QED
    BY <2>1, <2>3
<1>7. p[Len(s)] = Folded(v, s)
  BY <1>1, <1>3
<1> HIDE DEF p
<1>8. QED
  BY <1>5, <1>6, <1>7 DEF IsRun

\* There is only one such run, so the fold ends where any of them does.
LEMMA FoldedIs ==
  ASSUME NEW v, NEW S, NEW s \in Seq(S), NEW p, IsRun(v, s, p)
  PROVE  Folded(v, s) = p[Len(s)]
<1>1. PICK q : IsRun(v, s, q) /\ q[Len(s)] = Folded(v, s)
  BY FoldedRuns
<1> DEFINE T == {n \in Nat : n <= Len(s) => p[n] = q[n]}
<1>2. Len(s) \in Nat
  BY LenProperties
<1>3. 0 \in T
  BY <1>1 DEF IsRun
<1>4. ASSUME NEW n \in Nat, n \in T  PROVE n + 1 \in T
  <2>1. SUFFICES ASSUME n + 1 <= Len(s)  PROVE p[n + 1] = q[n + 1]
    OBVIOUS
  <2>2. n + 1 \in 1..Len(s) /\ (n + 1) - 1 = n /\ p[n] = q[n]
    BY <1>2, <1>4, <2>1
  <2>3. /\ p[n + 1] = rebuildReadModels(p[(n + 1) - 1], s[n + 1])
        /\ q[n + 1] = rebuildReadModels(q[(n + 1) - 1], s[n + 1])
    BY <1>1, <2>2 DEF IsRun
  <2>4. QED
    BY <2>2, <2>3
<1>5. \A n \in Nat : n \in T
  <2> HIDE DEF T
  <2>1. QED
    BY <1>3, <1>4, NaturalInduction
<1>6. QED
  BY <1>1, <1>2, <1>5

LEMMA FoldedNone ==
  ASSUME NEW v
  PROVE  Folded(v, <<>>) = v
<1>1. <<>> \in Seq({}) /\ Len(<<>>) = 0
  OBVIOUS
<1>2. PICK p : p = [n \in {0} |-> v]
  OBVIOUS
<1>3. p[0] = v /\ 1..0 = {}
  BY <1>2
<1>4. IsRun(v, <<>>, p)
  BY <1>1, <1>3 DEF IsRun
<1>5. QED
  BY <1>1, <1>3, <1>4, FoldedIs

\* The events of s and then those of t.
LEMMA FoldedConcat ==
  ASSUME NEW v, NEW S, NEW s \in Seq(S), NEW t \in Seq(S)
  PROVE  Folded(v, s \o t) = Folded(Folded(v, s), t)
<1>1. PICK p : IsRun(v, s, p) /\ p[Len(s)] = Folded(v, s)
  BY FoldedRuns
<1>2. PICK q : IsRun(Folded(v, s), t, q) /\ q[Len(t)] = Folded(Folded(v, s), t)
  BY FoldedRuns
<1>3. PICK m, n : m = Len(s) /\ n = Len(t) /\ m \in Nat /\ n \in Nat
  BY LenProperties
<1>4. /\ s \o t \in Seq(S) /\ Len(s \o t) = m + n
      /\ \A k \in 1..(m + n) : (s \o t)[k] = IF k <= m THEN s[k] ELSE t[k - m]
  BY <1>3, ConcatProperties
<1>5. PICK r : r = [k \in 0..(m + n) |-> IF k <= m THEN p[k] ELSE q[k - m]]
  OBVIOUS
<1>6. r[0] = v
  BY <1>1, <1>3, <1>5 DEF IsRun
<1>7. ASSUME NEW k \in 1..(m + n)
      PROVE  r[k] = rebuildReadModels(r[k - 1], (s \o t)[k])
  <2>1. k \in 0..(m + n) /\ k - 1 \in 0..(m + n)
    BY <1>3
  <2>2. /\ r[k] = (IF k <= m THEN p[k] ELSE q[k - m])
        /\ r[k - 1] = (IF k - 1 <= m THEN p[k - 1] ELSE q[(k - 1) - m])
    BY <1>5, <2>1
  <2>3. CASE k <= m
    <3>1. k \in 1..Len(s) /\ k - 1 <= m
      BY <1>3, <2>3
    <3>2. p[k] = rebuildReadModels(p[k - 1], s[k])
      BY <1>1, <3>1 DEF IsRun
    <3>3. QED
      BY <1>4, <2>2, <2>3, <3>1, <3>2
  <2>4. CASE k = m + 1
    <3>1. 1 \in 1..Len(t) /\ k - 1 = m /\ k - m = 1 /\ ~(k <= m) /\ 1 - 1 = 0
      BY <1>3, <2>4
    <3>2. q[1] = rebuildReadModels(q[1 - 1], t[1]) /\ q[0] = p[m]
      BY <1>1, <1>2, <1>3, <3>1 DEF IsRun
    <3>3. r[k] = q[1] /\ r[k - 1] = p[m] /\ (s \o t)[k] = t[1]
      BY <1>3, <1>4, <2>2, <3>1
    <3>4. QED
      BY <3>1, <3>2, <3>3
  <2>5. CASE k > m + 1
    <3>1. PICK j : j = k - m
      OBVIOUS
    <3>2. j \in 1..Len(t) /\ (k - 1) - m = j - 1 /\ ~(k <= m) /\ ~(k - 1 <= m)
      BY <1>3, <2>5, <3>1
    <3>3. q[j] = rebuildReadModels(q[j - 1], t[j])
      BY <1>2, <3>2 DEF IsRun
    <3>4. r[k] = q[j] /\ r[k - 1] = q[j - 1] /\ (s \o t)[k] = t[j]
      BY <1>4, <2>2, <3>1, <3>2
    <3>5. QED
      BY <3>3, <3>4
  <2>6. QED
    BY <1>3, <2>3, <2>4, <2>5
<1>8. IsRun(v, s \o t, r)
  BY <1>4, <1>6, <1>7 DEF IsRun
<1>9. Folded(v, s \o t) = r[m + n]
  BY <1>4, <1>8, FoldedIs
<1>10. r[m + n] = q[n]
  <2>1. m + n \in 0..(m + n) /\ (m + n) - m = n
    BY <1>3
  <2>2. CASE n = 0
    BY <1>1, <1>2, <1>3, <1>5, <2>1, <2>2 DEF IsRun
  <2>3. CASE n # 0
    BY <1>3, <1>5, <2>1, <2>3
  <2>4. QED
    BY <2>2, <2>3
<1>11. QED
  BY <1>2, <1>3, <1>9, <1>10

LEMMA FoldedOne ==
  ASSUME NEW v, NEW e
  PROVE  Folded(v, <<e>>) = rebuildReadModels(v, e)
<1>1. /\ <<e>> \in Seq({e}) /\ Len(<<e>>) = 1 /\ <<e>>[1] = e
  OBVIOUS
<1>2. PICK p : p = [n \in 0..1 |-> IF n = 0 THEN v ELSE rebuildReadModels(v, e)]
  OBVIOUS
<1>3. p[0] = v /\ p[1] = rebuildReadModels(v, e)
  BY <1>2
<1>4. IsRun(v, <<e>>, p)
  BY <1>1, <1>3 DEF IsRun
<1>5. QED
  BY <1>1, <1>3, <1>4, FoldedIs

\* Sequences, with whatever elements.
IsSeq(s) == \E S : s \in Seq(S)

LEMMA IsSeqConcat ==
  ASSUME NEW s, NEW t, IsSeq(s), IsSeq(t)
  PROVE  \E S : s \in Seq(S) /\ t \in Seq(S) /\ s \o t \in Seq(S)
<1>1. PICK A, B : s \in Seq(A) /\ t \in Seq(B)
  BY DEF IsSeq
<1>2. PICK S : S = A \cup B
  OBVIOUS
<1>3. s \in Seq(S) /\ t \in Seq(S)
  BY <1>1, <1>2, SeqMonotonic
<1>4. s \o t \in Seq(S)
  BY <1>3, ConcatProperties
<1>5. QED
  BY <1>3, <1>4

LEMMA IsSeqOne == ASSUME NEW e PROVE IsSeq(<<e>>)
<1>1. <<e>> \in Seq({e})
  OBVIOUS
<1>2. QED
  BY <1>1 DEF IsSeq

LEMMA IsSeqNone == IsSeq(<<>>)
<1>1. <<>> \in Seq({})
  OBVIOUS
<1>2. QED
  BY <1>1 DEF IsSeq

LEMMA FoldedBoth ==
  ASSUME NEW v, NEW s, NEW t, IsSeq(s), IsSeq(t)
  PROVE  IsSeq(s \o t) /\ Folded(v, s \o t) = Folded(Folded(v, s), t)
<1>1. PICK S : s \in Seq(S) /\ t \in Seq(S) /\ s \o t \in Seq(S)
  BY IsSeqConcat
<1>2. Folded(v, s \o t) = Folded(Folded(v, s), t)
  BY <1>1, FoldedConcat
<1>3. QED
  BY <1>1, <1>2 DEF IsSeq

LEMMA FoldedLast ==
  ASSUME NEW v, NEW s, NEW e, IsSeq(s)
  PROVE  /\ IsSeq(s \o <<e>>)
         /\ Folded(v, s \o <<e>>) = rebuildReadModels(Folded(v, s), e)
<1>1. PICK t, w : t = <<e>> /\ w = Folded(v, s)
  OBVIOUS
<1>2. IsSeq(t)
  BY <1>1, IsSeqOne
<1>3. IsSeq(s \o t) /\ Folded(v, s \o t) = Folded(w, t)
  BY <1>1, <1>2, FoldedBoth
<1>4. Folded(w, t) = rebuildReadModels(w, e)
  BY <1>1, FoldedOne
<1>5. QED
  BY <1>1, <1>3, <1>4

LEMMA FoldedFirst ==
  ASSUME NEW v, NEW s, NEW e, IsSeq(s)
  PROVE  /\ IsSeq(<<e>> \o s)
         /\ Folded(v, <<e>> \o s) = Folded(rebuildReadModels(v, e), s)
<1>1. PICK t, w : t = <<e>> /\ w = rebuildReadModels(v, e)
  OBVIOUS
<1>2. IsSeq(t)
  BY <1>1, IsSeqOne
<1>3. IsSeq(t \o s) /\ Folded(v, t \o s) = Folded(Folded(v, t), s)
  BY <1>2, FoldedBoth
<1>4. Folded(v, t) = w
  BY <1>1, FoldedOne
<1>5. QED
  BY <1>1, <1>3, <1>4

-----------------------------------------------------------------------------
(* The tables when everything emitted is indexed.                          *)

LEMMA CaughtUpIs == CaughtUp = Folded(view, pending) /\ CaughtUp' = Folded(view', pending')
BY DEF CaughtUp, Folded

\* A pass, wherever its page ends, leaves them as they are.
LEMMA IndexKeepsCaughtUp ==
  ASSUME IsSeq(pending), IndexEvents
  PROVE  CaughtUp' = CaughtUp /\ IsSeq(pending') /\ UNCHANGED vars
<1>1. PICK n \in 1..Len(pending) :
        /\ view' = Folded(view, SubSeq(pending, 1, n))
        /\ pending' = SubSeq(pending, n + 1, Len(pending))
        /\ UNCHANGED vars
  BY DEF IndexEvents, Folded
<1>2. PICK S : pending \in Seq(S)
  BY DEF IsSeq
<1>3. PICK s, t : s = SubSeq(pending, 1, n) /\ t = SubSeq(pending, n + 1, Len(pending))
  OBVIOUS
<1>4. Len(pending) \in Nat
  BY <1>2, LenProperties
<1>5. s \in Seq(S) /\ t \in Seq(S)
  BY <1>2, <1>3, <1>4, SubSeqProperties
<1>6. s \o t = pending
  BY <1>2, <1>3, <1>4, ConcatAdjacentSubSeq, SubSeqFull
<1>7. Folded(view, pending) = Folded(Folded(view, s), t)
  <2>1. PICK v : v = view
    OBVIOUS
  <2>2. IsSeq(s) /\ IsSeq(t)
    BY <1>5 DEF IsSeq
  <2>3. Folded(v, s \o t) = Folded(Folded(v, s), t)
    BY <2>2, FoldedBoth
  <2>4. QED
    BY <1>6, <2>1, <2>3
<1>8. QED
  BY <1>1, <1>3, <1>5, <1>7, CaughtUpIs DEF IsSeq

\* A transaction continues them by its events.
LEMMA EmitExtendsCaughtUp ==
  ASSUME IsSeq(pending), NEW s, IsSeq(s), Emit(s)
  PROVE  CaughtUp' = Folded(CaughtUp, s) /\ IsSeq(pending')
<1>1. pending' = pending \o s /\ view' = view
  BY DEF Emit
<1>2. IsSeq(pending \o s) /\ Folded(view, pending \o s) = Folded(Folded(view, pending), s)
  BY FoldedBoth
<1>3. QED
  BY <1>1, <1>2, CaughtUpIs

-----------------------------------------------------------------------------
(* Which events are for which table.                                       *)

BountyTopics ==
  {"bounty_created", "contributor_claimed", "milestone_released",
   "bounty_reclaimed", "bounty_refunded"}

DisputeTopics == {"dispute_opened", "dispute_vote_cast", "dispute_resolved"}

ProposalTopics ==
  {"proposal_created", "proposal_approved", "proposal_executed", "proposal_cancelled"}

IsRows(t) == t = [k \in DOMAIN t |-> t[k]]

\* The tables about bounties, reviews and disputes are the same.
SameTables(v, w) ==
  /\ w.bounties = v.bounties /\ w.milestones = v.milestones
  /\ w.reviewers = v.reviewers /\ w.reviews = v.reviews /\ w.disputes = v.disputes

\* Each of them has taken in event e.
TakeIn(v, w, e) ==
  /\ w.bounties = rebuildBountyState(v.bounties, e)
  /\ w.milestones = rebuildMilestones(v.milestones, e)
  /\ w.reviewers = rebuildReviewers(v.reviewers, e)
  /\ w.reviews = rebuildReviews(v.reviews, e)
  /\ w.disputes = rebuildDisputes(v.disputes, e)

LEMMA RebuildTakesIn ==
  ASSUME NEW v, NEW e, NEW w, w = rebuildReadModels(v, e)
  PROVE  /\ TakeIn(v, w, e)
         /\ w.proposals = rebuildProposals(v.proposals, e)
         /\ w.reputation = rebuildReputation(v.reputation, e)
BY DEF rebuildReadModels, TakeIn

LEMMA ReviewersAreRows ==
  ASSUME NEW t, NEW e
  PROVE  IsRows(rebuildReviewers(t, e))
BY DEF rebuildReviewers, IsRows

LEMMA OtherBountyTopic ==
  ASSUME NEW t, NEW e, e.topic \notin BountyTopics
  PROVE  rebuildBountyState(t, e) = t
BY DEF rebuildBountyState, BountyTopics

LEMMA OtherTopic ==
  ASSUME NEW t, NEW e
  PROVE  /\ e.topic # "milestone_released" => rebuildMilestones(t, e) = t
         /\ e.topic # "reviewers_set" /\ IsRows(t) => rebuildReviewers(t, e) = t
         /\ e.topic # "review_submitted" => rebuildReviews(t, e) = t
         /\ e.topic \notin ProposalTopics => rebuildProposals(t, e) = t
         /\ e.topic \notin DisputeTopics => rebuildDisputes(t, e) = t
         /\ e.topic \notin RegistryTopics => rebuildReputation(t, e) = t
<1>1. e.topic # "milestone_released" => rebuildMilestones(t, e) = t
  BY DEF rebuildMilestones
<1>2. e.topic # "reviewers_set" /\ IsRows(t) => rebuildReviewers(t, e) = t
  <2>1. SUFFICES ASSUME e.topic # "reviewers_set", IsRows(t)
                 PROVE  rebuildReviewers(t, e) = t
    OBVIOUS
  <2>2. rebuildReviewers(t, e) = [k \in DOMAIN t |-> t[k]]
    BY <2>1 DEF rebuildReviewers
  <2>3. QED
    BY <2>1, <2>2 DEF IsRows
<1>3. e.topic # "review_submitted" => rebuildReviews(t, e) = t
  BY DEF rebuildReviews
<1>4. e.topic \notin ProposalTopics => rebuildProposals(t, e) = t
  BY DEF rebuildProposals, ProposalTopics
<1>5. e.topic \notin DisputeTopics => rebuildDisputes(t, e) = t
  BY DEF rebuildDisputes, DisputeTopics
<1>6. e.topic \notin RegistryTopics => rebuildReputation(t, e) = t
  BY DEF rebuildReputation
<1>7. QED
  BY <1>1, <1>2, <1>3, <1>4, <1>5, <1>6

\* Events about none of them.
LEMMA OtherTables ==
  ASSUME NEW v, NEW e, IsRows(v.reviewers),
         e.topic \in RegistryTopics \cup ProposalTopics \cup {"signers_updated"}
  PROVE  SameTables(v, rebuildReadModels(v, e))
<1>1. PICK w : w = rebuildReadModels(v, e)
  OBVIOUS
<1>2. TakeIn(v, w, e)
  BY <1>1, RebuildTakesIn
<1>3. /\ e.topic \notin BountyTopics /\ e.topic \notin DisputeTopics
      /\ e.topic \notin {"milestone_released", "reviewers_set", "review_submitted"}
  BY DEF RegistryTopics, ProposalTopics, BountyTopics, DisputeTopics
<1>4. rebuildBountyState(v.bounties, e) = v.bounties
  BY <1>3, OtherBountyTopic
<1>5. /\ rebuildMilestones(v.milestones, e) = v.milestones
      /\ rebuildReviewers(v.reviewers, e) = v.reviewers
      /\ rebuildReviews(v.reviews, e) = v.reviews
      /\ rebuildDisputes(v.disputes, e) = v.disputes
  BY <1>3, OtherTopic
<1>6. QED
  BY <1>1, <1>2, <1>4, <1>5 DEF TakeIn, SameTables

\* The registry's events.
RegistrySeq(s) == \E S : s \in Seq(S) /\ \A e \in S : e.topic \in RegistryTopics

LEMMA RegistryFold ==
  ASSUME NEW v, NEW s, RegistrySeq(s), IsRows(v.reviewers)
  PROVE  /\ IsSeq(s)
         /\ SameTables(v, Folded(v, s)) /\ Folded(v, s).proposals = v.proposals
<1>1. PICK S : s \in Seq(S) /\ \A e \in S : e.topic \in RegistryTopics
  BY DEF RegistrySeq
<1>2. PICK p : IsRun(v, s, p) /\ p[Len(s)] = Folded(v, s)
  BY <1>1, FoldedRuns
<1>3. Len(s) \in Nat
  BY <1>1, LenProperties
<1> DEFINE T == {n \in Nat : n <= Len(s) =>
                   SameTables(v, p[n]) /\ p[n].proposals = v.proposals}
<1>4. 0 \in T
  BY <1>2 DEF IsRun, SameTables
<1>5. ASSUME NEW n \in Nat, n \in T  PROVE n + 1 \in T
  <2>1. SUFFICES ASSUME n + 1 <= Len(s)
                 PROVE  SameTables(v, p[n + 1]) /\ p[n + 1].proposals = v.proposals
    OBVIOUS
  <2>2. n + 1 \in 1..Len(s) /\ (n + 1) - 1 = n /\ n <= Len(s)
    BY <1>3, <2>1
  <2>3. PICK u, w, e : u = p[n] /\ w = p[n + 1] /\ e = s[n + 1]
    OBVIOUS
  <2>4. w = rebuildReadModels(u, e)
    BY <1>2, <2>2, <2>3 DEF IsRun
  <2>5. e.topic \in RegistryTopics
    BY <1>1, <2>2, <2>3, ElementOfSeq
  <2>6. SameTables(v, u) /\ u.proposals = v.proposals
    BY <1>5, <2>2, <2>3
  <2>7. SameTables(u, w)
    BY <2>4, <2>5, <2>6, OtherTables DEF SameTables
  <2>8. w.proposals = u.proposals
    <3>1. e.topic \notin ProposalTopics
      BY <2>5 DEF RegistryTopics, ProposalTopics
    <3>2. QED
      BY <2>4, <3>1, RebuildTakesIn, OtherTopic
  <2>9. QED
    BY <2>3, <2>6, <2>7, <2>8 DEF SameTables
<1>6. \A n \in Nat : n \in T
  <2> HIDE DEF T
  <2>1. QED
    BY <1>4, <1>5, NaturalInduction
<1>7. SameTables(v, p[Len(s)]) /\ p[Len(s)].proposals = v.proposals
  BY <1>3, <1>6
<1>8. QED
  BY <1>1, <1>2, <1>7 DEF IsSeq

LEMMA RegistrySeqConcat ==
  ASSUME NEW s, NEW t, RegistrySeq(s), RegistrySeq(t)
  PROVE  RegistrySeq(s \o t)
<1>1. PICK A : s \in Seq(A) /\ \A e \in A : e.topic \in RegistryTopics
  BY DEF RegistrySeq
<1>2. PICK B : t \in Seq(B) /\ \A e \in B : e.topic \in RegistryTopics
  BY DEF RegistrySeq
<1>3. PICK S : S = A \cup B
  OBVIOUS
<1>4. s \o t \in Seq(S)
  BY <1>1, <1>2, <1>3, SeqMonotonic, ConcatProperties
<1>5. QED
  BY <1>1, <1>2, <1>3, <1>4 DEF RegistrySeq

LEMMA RegistrySeqNone == RegistrySeq(<<>>)
<1>1. PICK s, S : s = <<>> /\ S = {} /\ s \in Seq(S)
  <2>1. <<>> \in Seq({})
    OBVIOUS
  <2>2. QED
    BY <2>1, Zenon
<1>2. \A e \in S : e.topic \in RegistryTopics
  BY <1>1
<1>3. RegistrySeq(s)
  BY <1>1, <1>2 DEF RegistrySeq
<1>4. QED
  BY <1>1, <1>3

LEMMA RegistrySeqOne ==
  ASSUME NEW e, e.topic \in RegistryTopics
  PROVE  RegistrySeq(<<e>>)
<1>1. PICK s, S : s = <<e>> /\ S = {e} /\ s \in Seq(S)
  <2>1. <<e>> \in Seq({e})
    OBVIOUS
  <2>2. QED
    BY <2>1, Zenon
<1>2. \A x \in S : x.topic \in RegistryTopics
  BY <1>1
<1>3. RegistrySeq(s)
  BY <1>1, <1>2 DEF RegistrySeq
<1>4. QED
  BY <1>1, <1>3

-----------------------------------------------------------------------------
(* The events of an action: those of the registry, then its own.           *)

RegistryEvents(a) ==
  CASE a.kind = "Release" -> PayoutEvents(a.issue, a.milestone)
    [] a.kind = "ResolveDispute" ->
         (IF a.pay THEN PayoutEvents(dispute[a.id].issue, dispute[a.id].milestone)
          ELSE <<>>) \o LossEvents(dispute[a.id], a.pay)
    [] OTHER -> <<>>

OwnEvent(a) ==
  CASE a.kind = "Release" ->
         Event("milestone_released", a.issue, a.milestone, bounty[a.issue].contributor,
               [amount |-> bounty[a.issue].amounts[a.milestone],
                released_amount |-> bounty'[a.issue].released_amount])
    [] a.kind = "Reclaim" ->
         Event("bounty_refunded", a.issue, 0, bounty[a.issue].funder, 0)
    [] a.kind = "SetReviewers" ->
         Event("reviewers_set", a.issue, 0, a.reviewers, a.quorum)
    [] a.kind = "ResolveDispute" ->
         Event("dispute_resolved", dispute[a.id].issue, a.id, NoOne, a.pay)
    [] a.kind = "SetSigners" -> Event("signers_updated", NoOne, 0, NoOne, 0)

ActionKinds == {"Release", "Reclaim", "SetReviewers", "ResolveDispute", "SetSigners"}

LEMMA ProposableKinds == ASSUME NEW a \in Proposable PROVE a.kind \in ActionKinds
BY EscrowConstants DEF EscrowAction, SignerAction, ActionKinds

LEMMA EventTopic ==
  ASSUME NEW t, NEW i, NEW m, NEW w, NEW n
  PROVE  Event(t, i, m, w, n).topic = t
BY DEF Event

LEMMA ActionEventsSplit ==
  ASSUME NEW a, a.kind \in ActionKinds, IsSeq(RegistryEvents(a))
  PROVE  ActionEvents(a) = RegistryEvents(a) \o <<OwnEvent(a)>>
<1>1. \A e : <<>> \o <<e>> = <<e>>
  OBVIOUS
<1>2. CASE a.kind = "Release"
  BY <1>2, Zenon DEF ActionEvents, RegistryEvents, OwnEvent
<1>3. CASE a.kind = "ResolveDispute"
  BY <1>3 DEF ActionEvents, RegistryEvents, OwnEvent
<1>4. CASE a.kind \in {"Reclaim", "SetReviewers", "SetSigners"}
  <2>1. RegistryEvents(a) = <<>>
    BY <1>4 DEF RegistryEvents
  <2>2. ActionEvents(a) = <<OwnEvent(a)>>
    BY <1>4 DEF ActionEvents, OwnEvent
  <2>3. QED
    BY <1>1, <2>1, <2>2
<1>5. QED
  BY <1>2, <1>3, <1>4 DEF ActionKinds

LEMMA OwnTopic ==
  ASSUME NEW a, a.kind \in ActionKinds
  PROVE  OwnEvent(a).topic \notin ProposalTopics \cup RegistryTopics
<1>1. OwnEvent(a).topic \in {"milestone_released", "bounty_refunded", "reviewers_set",
                             "dispute_resolved", "signers_updated"}
  BY EventTopic DEF OwnEvent, ActionKinds
<1>2. QED
  BY <1>1 DEF ProposalTopics, RegistryTopics

\* What an executed proposal does to tables v.
LEMMA ExecutionEffect ==
  ASSUME NEW v, NEW id, NEW a, NEW x, IsRows(v.reviewers),
         proposal'[id].executed, a = proposal'[id].action, a.kind \in ActionKinds,
         RegistrySeq(RegistryEvents(a)), x = Folded(v, Execution(id))
  PROVE  /\ IsSeq(Execution(id))
         /\ TakeIn(v, x, OwnEvent(a))
         /\ x.proposals = rebuildProposals(v.proposals,
                            Event("proposal_executed", NoOne, id, NoOne, 0))
         /\ x.reputation = Folded(v, RegistryEvents(a)).reputation
<1>1. PICK s, e, d : /\ s = RegistryEvents(a) /\ e = OwnEvent(a)
                     /\ d = Event("proposal_executed", NoOne, id, NoOne, 0)
  OBVIOUS
<1>2. PICK u, w : u = Folded(v, s) /\ w = rebuildReadModels(u, e)
  OBVIOUS
<1>3. IsSeq(s) /\ SameTables(v, u) /\ u.proposals = v.proposals
  BY <1>1, <1>2, RegistryFold
<1>4. ActionEvents(a) = s \o <<e>>
  BY <1>1, <1>3, ActionEventsSplit
<1>5. PICK r : r = s \o <<e>>
  OBVIOUS
<1>6. IsSeq(r) /\ Folded(v, r) = w
  BY <1>2, <1>3, <1>5, FoldedLast
<1>7. Execution(id) = r \o <<d>>
  <2>1. Execution(id) = Append(r, d)
    BY <1>1, <1>4, <1>5 DEF Execution
  <2>2. PICK S : r \in Seq(S)
    BY <1>6 DEF IsSeq
  <2>3. PICK T : T = S \cup {d}
    OBVIOUS
  <2>4. r \in Seq(T) /\ d \in T
    BY <2>2, <2>3, SeqMonotonic
  <2>5. Append(r, d) = r \o <<d>>
    BY <2>4, AppendIsConcat
  <2>6. QED
    BY <2>1, <2>5
<1>8. IsSeq(Execution(id)) /\ x = rebuildReadModels(w, d)
  <2>1. IsSeq(r \o <<d>>) /\ Folded(v, r \o <<d>>) = rebuildReadModels(Folded(v, r), d)
    BY <1>6, FoldedLast
  <2>2. QED
    BY <1>6, <1>7, <2>1
<1>9. d.topic = "proposal_executed" /\ e.topic \notin ProposalTopics \cup RegistryTopics
  BY <1>1, EventTopic, OwnTopic
<1>10. /\ TakeIn(u, w, e) /\ w.proposals = rebuildProposals(u.proposals, e)
       /\ w.reputation = rebuildReputation(u.reputation, e)
  BY <1>2, RebuildTakesIn
<1>11. w.proposals = v.proposals /\ w.reputation = u.reputation
  BY <1>3, <1>9, <1>10, OtherTopic
<1>12. IsRows(w.reviewers) /\ TakeIn(v, w, e)
  BY <1>3, <1>10, ReviewersAreRows DEF SameTables, TakeIn
<1>13. SameTables(w, x)
  <2>1. d.topic \in RegistryTopics \cup ProposalTopics \cup {"signers_updated"}
    BY <1>9 DEF ProposalTopics
  <2>2. QED
    BY <1>8, <1>12, <2>1, OtherTables
<1>14. TakeIn(v, x, e)
  BY <1>12, <1>13 DEF SameTables, TakeIn
<1>15. x.proposals = rebuildProposals(v.proposals, d)
  BY <1>8, <1>11, RebuildTakesIn
<1>16. x.reputation = u.reputation
  <2>1. d.topic \notin RegistryTopics
    BY <1>9 DEF RegistryTopics
  <2>2. QED
    BY <1>8, <1>11, <2>1, RebuildTakesIn, OtherTopic
<1>17. QED
  BY <1>1, <1>2, <1>8, <1>14, <1>15, <1>16

LEMMA PayoutEventsSeq ==
  ASSUME NEW i, NEW m, IsFiniteSet(bounty[i].reviewers)
  PROVE  RegistrySeq(PayoutEvents(i, m))
<1>1. CASE config # "with registry"
  BY <1>1, RegistrySeqNone DEF PayoutEvents
<1>2. CASE config = "with registry"
  <2> DEFINE V == Reviewed(i, m, "Approve")
             f(k) == Event("review_recorded", i, m, SetToSeq(V)[k], 1)
             e == Event("contributor_recorded", i, m, bounty[i].contributor,
                        bounty[i].amounts[m])
  <2>1. PICK n \in Nat : n = Cardinality(V)
    <3>1. V \subseteq bounty[i].reviewers
      BY DEF Reviewed
    <3>2. QED
      BY <3>1, FS_Subset, FS_CardinalityType
  <2>2. PayoutEvents(i, m) = <<e>> \o [k \in 1..n |-> f(k)]
    BY <1>2, <2>1 DEF PayoutEvents
  <2>3. \A k \in 1..n : f(k).topic \in RegistryTopics
    BY EventTopic DEF RegistryTopics
  <2>4. e.topic \in RegistryTopics
    BY EventTopic DEF RegistryTopics
  <2> HIDE DEF f, e
  <2>5. PICK S : S = {f(k) : k \in 1..n}
    OBVIOUS
  <2>6. \A x \in S : x.topic \in RegistryTopics
    BY <2>3, <2>5
  <2>7. PICK t : t = [k \in 1..n |-> f(k)]
    OBVIOUS
  <2>8. t \in Seq(S)
    <3>1. t \in [1..n -> S]
      BY <2>5, <2>7
    <3>2. QED
      BY <2>1, <3>1, SeqDef
  <2>9. RegistrySeq(t)
    BY <2>6, <2>8 DEF RegistrySeq
  <2>10. QED
    BY <2>2, <2>4, <2>7, <2>9, RegistrySeqOne, RegistrySeqConcat
<1>3. QED
  BY <1>1, <1>2

LEMMA LossEventsSeq ==
  ASSUME NEW d, NEW pay
  PROVE  RegistrySeq(LossEvents(d, pay))
<1>1. PICK e : e = Event("dispute_recorded", d.issue, d.milestone, Loser(d, pay), TRUE)
  OBVIOUS
<1>2. e.topic \in RegistryTopics
  <2>1. e.topic = "dispute_recorded"
    BY <1>1 DEF Event
  <2>2. QED
    BY <2>1 DEF RegistryTopics
<1>3. RegistrySeq(<<e>>) /\ RegistrySeq(<<>>)
  BY <1>2, RegistrySeqOne, RegistrySeqNone
<1>4. LossEvents(d, pay) = <<>> \/ LossEvents(d, pay) = <<e>>
  BY <1>1 DEF LossEvents
<1>5. QED
  BY <1>3, <1>4

LEMMA RegistryEventsSeq ==
  ASSUME EscrowTypeOK, PanelsFinite, NEW a \in Proposable, Execute(a)
  PROVE  RegistrySeq(RegistryEvents(a))
<1>1. ASSUME NEW i \in DOMAIN bounty, NEW m  PROVE RegistrySeq(PayoutEvents(i, m))
  BY PayoutEventsSeq DEF PanelsFinite
<1>2. CASE a.kind = "Release"
  <2>1. a.issue \in DOMAIN bounty
    BY <1>2 DEF Execute, execute_action, apply_release
  <2>2. QED
    BY <1>1, <1>2, <2>1 DEF RegistryEvents
<1>3. CASE a.kind = "ResolveDispute"
  <2>1. PICK d : d = dispute[a.id]
    OBVIOUS
  <2>2. d.issue \in DOMAIN bounty
    BY <1>3, <2>1 DEF Execute, execute_action, ResolveByPaying, ResolveByRefunding, Resolvable
  <2>3. PICK s : s = IF a.pay THEN PayoutEvents(d.issue, d.milestone) ELSE <<>>
    OBVIOUS
  <2>4. RegistrySeq(s)
    BY <1>1, <2>2, <2>3, RegistrySeqNone
  <2>5. RegistryEvents(a) = s \o LossEvents(d, a.pay)
    BY <1>3, <2>1, <2>3 DEF RegistryEvents
  <2>6. QED
    BY <2>4, <2>5, LossEventsSeq, RegistrySeqConcat
<1>4. CASE a.kind \notin {"Release", "ResolveDispute"}
  BY <1>4, RegistrySeqNone DEF RegistryEvents
<1>5. QED
  BY <1>2, <1>3, <1>4

-----------------------------------------------------------------------------
(* What one step does to the tables that are caught up.                    *)

\* The reputation table depends on nothing but itself.
LEMMA SameReputation ==
  ASSUME NEW u, NEW v, u.reputation = v.reputation, NEW s, IsSeq(s)
  PROVE  Folded(u, s).reputation = Folded(v, s).reputation
<1>1. PICK S : s \in Seq(S)
  BY DEF IsSeq
<1>2. PICK p : IsRun(u, s, p) /\ p[Len(s)] = Folded(u, s)
  BY <1>1, FoldedRuns
<1>3. PICK q : IsRun(v, s, q) /\ q[Len(s)] = Folded(v, s)
  BY <1>1, FoldedRuns
<1>4. Len(s) \in Nat
  BY <1>1, LenProperties
<1> DEFINE T == {n \in Nat : n <= Len(s) => p[n].reputation = q[n].reputation}
<1>5. 0 \in T
  BY <1>2, <1>3 DEF IsRun
<1>6. ASSUME NEW n \in Nat, n \in T  PROVE n + 1 \in T
  <2>1. SUFFICES ASSUME n + 1 <= Len(s)
                 PROVE  p[n + 1].reputation = q[n + 1].reputation
    OBVIOUS
  <2>2. n + 1 \in 1..Len(s) /\ (n + 1) - 1 = n /\ p[n].reputation = q[n].reputation
    BY <1>4, <1>6, <2>1
  <2>3. /\ p[n + 1] = rebuildReadModels(p[n], s[n + 1])
        /\ q[n + 1] = rebuildReadModels(q[n], s[n + 1])
    BY <1>2, <1>3, <2>2 DEF IsRun
  <2>4. /\ p[n + 1].reputation = rebuildReputation(p[n].reputation, s[n + 1])
        /\ q[n + 1].reputation = rebuildReputation(q[n].reputation, s[n + 1])
    BY <2>3, RebuildTakesIn
  <2>5. QED
    BY <2>2, <2>4
<1>7. \A n \in Nat : n \in T
  <2> HIDE DEF T
  <2>1. QED
    BY <1>5, <1>6, NaturalInduction
<1>8. QED
  BY <1>2, <1>3, <1>4, <1>7

\* A step that no table but the proposals learns of.
Quiet ==
  /\ SameTables(CaughtUp, CaughtUp')
  /\ CaughtUp'.reputation = CaughtUp.reputation
  /\ UNCHANGED <<bounty, review, dispute, ballot, balance, paid, returned>>
  /\ UNCHANGED reg \/ Administer

\* An executed action.
Executes(a) ==
  /\ Execute(a)
  /\ TakeIn(CaughtUp, CaughtUp', OwnEvent(a))
  /\ RegistrySeq(RegistryEvents(a))
  /\ CaughtUp'.reputation = Folded(CaughtUp, RegistryEvents(a)).reputation

\* What propose and approve do to the proposals table.
Leads(lead, id, executed) ==
  CaughtUp'.proposals =
    IF executed
    THEN rebuildProposals(rebuildProposals(CaughtUp.proposals, lead),
                          Event("proposal_executed", NoOne, id, NoOne, 0))
    ELSE rebuildProposals(CaughtUp.proposals, lead)

\* What is needed of the tables to say so.
TablesInv == IsSeq(pending) /\ IsRows(CaughtUp.reviewers)

LEMMA StoredExecution ==
  ASSUME NEW id, NEW p \in Proposal, ~p.executed, StoreAndTryExecute(id, p)
  PROVE  \/ /\ ~proposal'[id].executed
            /\ UNCHANGED escrowVars
         \/ /\ proposal'[id].executed /\ proposal'[id].action = p.action
            /\ Execute(p.action)
<1>1. CASE ~Reached(p)
  <2>1. proposal' = Put(proposal, id, p) /\ UNCHANGED escrowVars
    BY <1>1 DEF StoreAndTryExecute
  <2>2. proposal'[id] = p
    BY <2>1 DEF Put
  <2>3. QED
    BY <2>1, <2>2
<1>2. CASE Reached(p)
  <2>1. PICK q : q = [p EXCEPT !.executed = TRUE]
    OBVIOUS
  <2>2. proposal' = Put(proposal, id, q) /\ Execute(p.action)
    BY <1>2, <2>1 DEF StoreAndTryExecute
  <2>3. proposal'[id] = q
    BY <2>2 DEF Put
  <2>4. q.executed /\ q.action = p.action
    BY <2>1, ExecutedParts
  <2>5. QED
    BY <2>2, <2>3, <2>4
<1>3. QED
  BY <1>1, <1>2

LEMMA UnchangedEscrow ==
  ASSUME UNCHANGED escrowVars
  PROVE  UNCHANGED <<bounty, review, dispute, ballot, balance, paid, returned>>
         /\ UNCHANGED reg
BY DEF escrowVars

LEMMA LeadEffect ==
  ASSUME EscrowTypeOK, PanelsFinite, TablesInv,
         NEW id, NEW p \in Proposal, ~p.executed, StoreAndTryExecute(id, p),
         NEW lead, lead.topic \in ProposalTopics, Emit(<<lead>> \o Execution(id))
  PROVE  /\ TablesInv'
         /\ Leads(lead, id, proposal'[id].executed)
         /\ Quiet \/ Executes(p.action)
<1>1. PICK v, u, w, s : /\ v = CaughtUp /\ w = CaughtUp' /\ u = rebuildReadModels(v, lead)
                        /\ s = Execution(id)
  OBVIOUS
<1>2. /\ IsRows(u.reviewers) /\ SameTables(v, u)
      /\ u.proposals = rebuildProposals(v.proposals, lead)
      /\ u.reputation = v.reputation
  <2>1. lead.topic \notin RegistryTopics
    BY DEF ProposalTopics, RegistryTopics
  <2>2. IsRows(v.reviewers)
    BY <1>1 DEF TablesInv
  <2>3. SameTables(v, u)
    BY <1>1, <2>2, OtherTables
  <2>4. u.reputation = rebuildReputation(v.reputation, lead)
        /\ u.proposals = rebuildProposals(v.proposals, lead)
    BY <1>1, RebuildTakesIn
  <2>5. QED
    BY <2>1, <2>2, <2>3, <2>4, OtherTopic DEF SameTables
<1>3. ASSUME IsSeq(s)  PROVE w = Folded(u, s) /\ IsSeq(pending')
  <2>1. IsSeq(<<lead>> \o s) /\ Folded(v, <<lead>> \o s) = Folded(u, s)
    BY <1>1, <1>3, FoldedFirst
  <2>2. PICK t : t = <<lead>> \o s
    OBVIOUS
  <2>3. IsSeq(pending) /\ IsSeq(t) /\ Emit(t)
    BY <1>1, <2>1, <2>2 DEF TablesInv
  <2>4. CaughtUp' = Folded(CaughtUp, t) /\ IsSeq(pending')
    BY <2>3, EmitExtendsCaughtUp
  <2>5. QED
    BY <1>1, <2>1, <2>2, <2>4
<1>4. CASE ~proposal'[id].executed /\ UNCHANGED escrowVars
  <2>1. s = <<>>
    BY <1>1, <1>4 DEF Execution
  <2>2. IsSeq(s) /\ w = u /\ IsSeq(pending')
    BY <1>3, <2>1, IsSeqNone, FoldedNone
  <2>3. Quiet
    BY <1>1, <1>2, <1>4, <2>2, UnchangedEscrow DEF Quiet
  <2>4. Leads(lead, id, proposal'[id].executed)
    BY <1>1, <1>2, <1>4, <2>2 DEF Leads
  <2>5. QED
    BY <1>1, <1>2, <2>2, <2>3, <2>4 DEF TablesInv
<1>5. CASE /\ proposal'[id].executed /\ proposal'[id].action = p.action
           /\ Execute(p.action)
  <2>1. PICK a : a = p.action
    OBVIOUS
  <2>2. a \in Proposable /\ a.kind \in ActionKinds
    <3>1. a \in Proposable
      BY <2>1 DEF Proposal
    <3>2. QED
      BY <3>1, ProposableKinds
  <2>3. RegistrySeq(RegistryEvents(a))
    BY <1>5, <2>1, <2>2, RegistryEventsSeq
  <2>4. PICK x : x = Folded(u, s)
    OBVIOUS
  <2>5. /\ IsSeq(s) /\ TakeIn(u, x, OwnEvent(a))
        /\ x.proposals = rebuildProposals(u.proposals,
                           Event("proposal_executed", NoOne, id, NoOne, 0))
        /\ x.reputation = Folded(u, RegistryEvents(a)).reputation
    BY <1>1, <1>2, <1>5, <2>1, <2>2, <2>3, <2>4, ExecutionEffect
  <2>6. w = x /\ IsSeq(pending')
    BY <1>3, <2>4, <2>5
  <2>7. TakeIn(v, w, OwnEvent(a))
    BY <1>2, <2>5, <2>6 DEF SameTables, TakeIn
  <2>8. w.reputation = Folded(v, RegistryEvents(a)).reputation
    <3>1. IsSeq(RegistryEvents(a))
      BY <2>3 DEF RegistrySeq, IsSeq
    <3>2. QED
      BY <1>2, <2>5, <2>6, <3>1, SameReputation
  <2>9. Executes(p.action)
    BY <1>1, <1>5, <2>1, <2>3, <2>7, <2>8 DEF Executes
  <2>10. Leads(lead, id, proposal'[id].executed)
    BY <1>1, <1>2, <1>5, <2>5, <2>6 DEF Leads
  <2>11. IsRows(w.reviewers)
    BY <2>7, ReviewersAreRows DEF TakeIn
  <2>12. QED
    BY <1>1, <2>6, <2>9, <2>10, <2>11 DEF TablesInv
<1>6. QED
  BY <1>4, <1>5, StoredExecution

\* A transaction that emits one event.
LEMMA EmitOne ==
  ASSUME TablesInv, NEW e, Emit(<<e>>)
  PROVE  TablesInv' /\ CaughtUp' = rebuildReadModels(CaughtUp, e)
<1>1. PICK v, w, s : v = CaughtUp /\ w = CaughtUp' /\ s = <<e>>
  OBVIOUS
<1>2. IsSeq(s) /\ Emit(s) /\ IsSeq(pending)
  BY <1>1, IsSeqOne DEF TablesInv
<1>3. w = Folded(v, s) /\ IsSeq(pending')
  BY <1>1, <1>2, EmitExtendsCaughtUp
<1>4. w = rebuildReadModels(v, e)
  BY <1>1, <1>3, FoldedOne
<1>5. IsRows(w.reviewers)
  BY <1>4, RebuildTakesIn, ReviewersAreRows DEF TakeIn
<1>6. QED
  BY <1>1, <1>3, <1>4, <1>5 DEF TablesInv

LEMMA EmitNone ==
  ASSUME TablesInv, Emit(<<>>)
  PROVE  TablesInv' /\ CaughtUp' = CaughtUp
<1>1. PICK v, w : v = CaughtUp /\ w = CaughtUp'
  OBVIOUS
<1>2. w = Folded(v, <<>>) /\ IsSeq(pending')
  BY <1>1, IsSeqNone, EmitExtendsCaughtUp DEF TablesInv
<1>3. w = v
  BY <1>2, FoldedNone
<1>4. QED
  BY <1>1, <1>2, <1>3 DEF TablesInv

\* The user's transactions, each with the event that the tables take in.
Publishes(e) ==
  /\ TakeIn(CaughtUp, CaughtUp', e)
  /\ e.topic \in BountyTopics \cup DisputeTopics \cup {"review_submitted"}
  /\ CaughtUp'.reputation = CaughtUp.reputation
  /\ CaughtUp'.proposals = CaughtUp.proposals
  /\ UNCHANGED reg

UserPublishes ==
  \/ \E f \in Funders, t \in Token, i \in Issue, l \in MilestoneLists :
       /\ create_bounty(f, t, i, l)
       /\ Publishes(Event("bounty_created", i, 0, f, [token |-> t, amount |-> Total(l)]))
  \/ \E i \in Issue, w \in Workers :
       claim(i, w) /\ Publishes(Event("contributor_claimed", i, 0, w, 0))
  \/ \E i \in Issue :
       reclaim(i) /\ Publishes(Event("bounty_reclaimed", i, 0, bounty[i].funder, 0))
  \/ \E v \in Address, i \in Issue, m \in Slot, d \in Decision :
       submit_review(v, i, m, d) /\ Publishes(Event("review_submitted", i, m, v, d))
  \/ \E a \in Address, i \in Issue, m \in Slot :
       /\ open_dispute(a, i, m)
       /\ Publishes(Event("dispute_opened", i, Len(dispute) + 1, a, m))
  \/ \E v \in Address, id \in 1..MaxDisputes, pay \in BOOLEAN :
       /\ vote_on_dispute(v, id, pay)
       /\ Publishes(Event("dispute_vote_cast", NoOne, id, v, pay))

LEMMA EmitPublishes ==
  ASSUME TablesInv, NEW e, Emit(<<e>>), UNCHANGED reg,
         e.topic \in BountyTopics \cup DisputeTopics \cup {"review_submitted"}
  PROVE  TablesInv' /\ Publishes(e)
<1>1. TablesInv' /\ CaughtUp' = rebuildReadModels(CaughtUp, e)
  BY EmitOne
<1>2. /\ TakeIn(CaughtUp, CaughtUp', e)
      /\ CaughtUp'.proposals = rebuildProposals(CaughtUp.proposals, e)
      /\ CaughtUp'.reputation = rebuildReputation(CaughtUp.reputation, e)
  BY <1>1, RebuildTakesIn
<1>3. e.topic \notin ProposalTopics /\ e.topic \notin RegistryTopics
  BY DEF BountyTopics, DisputeTopics, ProposalTopics, RegistryTopics
<1>4. QED
  BY <1>1, <1>2, <1>3, OtherTopic DEF Publishes

LEMMA UserEffect ==
  ASSUME TablesInv, EmitUser
  PROVE  TablesInv' /\ UserPublishes
<1> DEFINE Topics == BountyTopics \cup DisputeTopics \cup {"review_submitted"}
<1>1. /\ "bounty_created" \in Topics /\ "contributor_claimed" \in Topics
      /\ "bounty_reclaimed" \in Topics /\ "review_submitted" \in Topics
      /\ "dispute_opened" \in Topics /\ "dispute_vote_cast" \in Topics
  BY DEF BountyTopics, DisputeTopics
<1>2. ASSUME NEW t \in Topics, NEW i, NEW m, NEW a, NEW n,
             Emit(<<Event(t, i, m, a, n)>>), UNCHANGED reg
      PROVE  TablesInv' /\ Publishes(Event(t, i, m, a, n))
  BY <1>2, EmitPublishes, EventTopic
<1> HIDE DEF Topics
<1>3. ASSUME NEW f \in Funders, NEW t \in Token, NEW i \in Issue, NEW l \in MilestoneLists,
             create_bounty(f, t, i, l),
             Emit(<<Event("bounty_created", i, 0, f, [token |-> t, amount |-> Total(l)])>>)
      PROVE  TablesInv' /\ UserPublishes
  <2>1. TablesInv' /\ Publishes(Event("bounty_created", i, 0, f,
                                      [token |-> t, amount |-> Total(l)]))
    BY <1>1, <1>2, <1>3 DEF create_bounty
  <2>2. QED
    BY <1>3, <2>1 DEF UserPublishes
<1>4. ASSUME NEW i \in Issue, NEW w \in Workers, claim(i, w),
             Emit(<<Event("contributor_claimed", i, 0, w, 0)>>)
      PROVE  TablesInv' /\ UserPublishes
  <2>1. TablesInv' /\ Publishes(Event("contributor_claimed", i, 0, w, 0))
    BY <1>1, <1>2, <1>4 DEF claim
  <2>2. QED
    BY <1>4, <2>1 DEF UserPublishes
<1>5. ASSUME NEW i \in Issue, reclaim(i),
             Emit(<<Event("bounty_reclaimed", i, 0, bounty[i].funder, 0)>>)
      PROVE  TablesInv' /\ UserPublishes
  <2>1. TablesInv' /\ Publishes(Event("bounty_reclaimed", i, 0, bounty[i].funder, 0))
    BY <1>1, <1>2, <1>5 DEF reclaim, RefundRemaining
  <2>2. QED
    BY <1>5, <2>1 DEF UserPublishes
<1>6. ASSUME NEW v \in Address, NEW i \in Issue, NEW m \in Slot, NEW d \in Decision,
             submit_review(v, i, m, d), Emit(<<Event("review_submitted", i, m, v, d)>>)
      PROVE  TablesInv' /\ UserPublishes
  <2>1. TablesInv' /\ Publishes(Event("review_submitted", i, m, v, d))
    BY <1>1, <1>2, <1>6 DEF submit_review
  <2>2. QED
    BY <1>6, <2>1 DEF UserPublishes
<1>7. ASSUME NEW a \in Address, NEW i \in Issue, NEW m \in Slot, open_dispute(a, i, m),
             Emit(<<Event("dispute_opened", i, Len(dispute) + 1, a, m)>>)
      PROVE  TablesInv' /\ UserPublishes
  <2>1. TablesInv' /\ Publishes(Event("dispute_opened", i, Len(dispute) + 1, a, m))
    BY <1>1, <1>2, <1>7 DEF open_dispute
  <2>2. QED
    BY <1>7, <2>1 DEF UserPublishes
<1>8. ASSUME NEW v \in Address, NEW id \in 1..MaxDisputes, NEW pay \in BOOLEAN,
             vote_on_dispute(v, id, pay),
             Emit(<<Event("dispute_vote_cast", NoOne, id, v, pay)>>)
      PROVE  TablesInv' /\ UserPublishes
  <2>1. TablesInv' /\ Publishes(Event("dispute_vote_cast", NoOne, id, v, pay))
    BY <1>1, <1>2, <1>8 DEF vote_on_dispute
  <2>2. QED
    BY <1>8, <2>1 DEF UserPublishes
<1>9. QED
  BY <1>3, <1>4, <1>5, <1>6, <1>7, <1>8 DEF EmitUser

\* What a step does to the proposals and to their table.
ProposalsMove ==
  \/ proposal' = proposal /\ CaughtUp'.proposals = CaughtUp.proposals
  \/ \E s \in Address, a \in Proposable :
       LET id == Len(proposal) + 1
       IN  /\ propose(s, a)
           /\ Leads(Event("proposal_created", NoOne, id, s, 0), id, proposal'[id].executed)
  \/ \E s \in Address, id \in DOMAIN proposal :
       \/ /\ approve(s, id)
          /\ Leads(Event("proposal_approved", NoOne, id, s, 0), id, proposal'[id].executed)
       \/ revoke(s, id) /\ CaughtUp'.proposals = CaughtUp.proposals
       \/ /\ cancel(s, id)
          /\ CaughtUp'.proposals =
               rebuildProposals(CaughtUp.proposals,
                                Event("proposal_cancelled", NoOne, id, s, 0))

Moves == Quiet \/ \E a \in Proposable : Executes(a)

LEMMA ProposeEffect ==
  ASSUME GovernanceInv, PanelsFinite, TablesInv, NEW s \in Address, NEW a \in Proposable,
         propose(s, a),
         Emit(<<Event("proposal_created", NoOne, Len(proposal) + 1, s, 0)>>
              \o Execution(Len(proposal) + 1))
  PROVE  TablesInv' /\ Moves /\ ProposalsMove
<1>1. PICK id, lead, p :
        /\ id = Len(proposal) + 1
        /\ lead = Event("proposal_created", NoOne, id, s, 0)
        /\ p = [action |-> a, proposer |-> s, approvals |-> <<s>>,
                executed |-> FALSE, cancelled |-> FALSE]
  OBVIOUS
<1>2. p \in Proposal /\ ~p.executed /\ p.action = a
  <2>1. <<s>> \in Seq(Address)
    OBVIOUS
  <2>2. QED
    BY <1>1, <2>1 DEF Proposal
<1>3. lead.topic \in ProposalTopics
  <2>1. lead.topic = "proposal_created"
    BY <1>1 DEF Event
  <2>2. QED
    BY <2>1 DEF ProposalTopics
<1>4. StoreAndTryExecute(id, p) /\ Emit(<<lead>> \o Execution(id)) /\ EscrowTypeOK
  BY <1>1 DEF propose, GovernanceInv, BountyTypeOK
<1>5. TablesInv' /\ Leads(lead, id, proposal'[id].executed) /\ (Quiet \/ Executes(p.action))
  BY <1>2, <1>3, <1>4, LeadEffect
<1>6. ProposalsMove
  BY <1>1, <1>5 DEF ProposalsMove
<1>7. QED
  BY <1>2, <1>5, <1>6 DEF Moves

LEMMA ApproveEffect ==
  ASSUME GovernanceInv, PanelsFinite, TablesInv,
         NEW s \in Address, NEW id \in DOMAIN proposal, approve(s, id),
         Emit(<<Event("proposal_approved", NoOne, id, s, 0)>> \o Execution(id))
  PROVE  TablesInv' /\ Moves /\ ProposalsMove
<1>1. PICK q, v, lead, p :
        /\ q = proposal[id] /\ v = Append(q.approvals, s)
        /\ lead = Event("proposal_approved", NoOne, id, s, 0)
        /\ p = [q EXCEPT !.approvals = v]
  OBVIOUS
<1>2. q \in Proposal /\ BountyTypeOK /\ EscrowTypeOK
  BY <1>1, StoredProposal DEF GovernanceInv, BountyTypeOK
<1>3. v \in Seq(Address)
  <2>1. q.approvals \in Seq(Address)
    BY <1>2 DEF Proposal
  <2>2. QED
    BY <1>1, <2>1, AppendProperties
<1>4. p \in Proposal /\ p.executed = q.executed
  <2>1. p = [q EXCEPT !.approvals = v]
    BY <1>1
  <2>2. QED
    BY <1>2, <1>3, <2>1, ApprovedParts
<1>5. ~q.executed /\ StoreAndTryExecute(id, p) /\ Emit(<<lead>> \o Execution(id))
  BY <1>1 DEF approve, Open
<1>6. lead.topic \in ProposalTopics
  <2>1. lead.topic = "proposal_approved"
    BY <1>1 DEF Event
  <2>2. QED
    BY <2>1 DEF ProposalTopics
<1>7. TablesInv' /\ Leads(lead, id, proposal'[id].executed) /\ (Quiet \/ Executes(p.action))
  BY <1>2, <1>4, <1>5, <1>6, LeadEffect
<1>8. p.action \in Proposable
  BY <1>4 DEF Proposal
<1>9. ProposalsMove
  BY <1>1, <1>7 DEF ProposalsMove
<1>10. QED
  BY <1>7, <1>8, <1>9 DEF Moves

LEMMA QuietStep ==
  ASSUME CaughtUp' = CaughtUp, UNCHANGED escrowVars
  PROVE  Quiet
BY UnchangedEscrow DEF Quiet, SameTables

LEMMA GovernanceEffect ==
  ASSUME GovernanceInv, PanelsFinite, TablesInv, EmitGovernance
  PROVE  TablesInv' /\ Moves /\ ProposalsMove
<1>1. ASSUME NEW a \in Deployers, NEW r \in RegistryChoices, init(a, r), Emit(<<>>)
      PROVE  TablesInv' /\ Moves /\ ProposalsMove
  <2>1. TablesInv' /\ CaughtUp' = CaughtUp
    BY <1>1, EmitNone
  <2>2. UNCHANGED <<bounty, review, dispute, ballot, balance, paid, returned, reg, proposal>>
    BY <1>1 DEF init, InitContract
  <2>3. Quiet
    BY <2>1, <2>2 DEF Quiet, SameTables
  <2>4. QED
    BY <2>1, <2>2, <2>3 DEF Moves, ProposalsMove
<1>2. ASSUME NEW s \in Address, NEW id \in DOMAIN proposal, revoke(s, id), Emit(<<>>)
      PROVE  TablesInv' /\ Moves /\ ProposalsMove
  <2>1. TablesInv' /\ CaughtUp' = CaughtUp
    BY <1>2, EmitNone
  <2>2. Quiet
    BY <1>2, <2>1, QuietStep DEF revoke
  <2>3. QED
    BY <1>2, <2>1, <2>2 DEF Moves, ProposalsMove
<1>3. ASSUME NEW s \in Address, NEW id \in DOMAIN proposal, cancel(s, id),
             Emit(<<Event("proposal_cancelled", NoOne, id, s, 0)>>)
      PROVE  TablesInv' /\ Moves /\ ProposalsMove
  <2>1. PICK e, v, w : /\ e = Event("proposal_cancelled", NoOne, id, s, 0)
                       /\ v = CaughtUp /\ w = CaughtUp'
    OBVIOUS
  <2>2. TablesInv' /\ w = rebuildReadModels(v, e)
    BY <1>3, <2>1, EmitOne
  <2>3. e.topic = "proposal_cancelled"
    BY <2>1 DEF Event
  <2>4. e.topic \in ProposalTopics /\ e.topic \notin RegistryTopics
    BY <2>3 DEF ProposalTopics, RegistryTopics
  <2>5. SameTables(v, w)
    BY <2>1, <2>2, <2>4, OtherTables DEF TablesInv
  <2>6. w.reputation = v.reputation /\ w.proposals = rebuildProposals(v.proposals, e)
    BY <2>2, <2>4, RebuildTakesIn, OtherTopic
  <2>7. Quiet
    BY <1>3, <2>1, <2>5, <2>6, UnchangedEscrow DEF Quiet, cancel
  <2>8. ProposalsMove
    BY <1>3, <2>1, <2>6 DEF ProposalsMove
  <2>9. QED
    BY <2>2, <2>7, <2>8 DEF Moves
<1>4. QED
  BY <1>1, <1>2, <1>3, ProposeEffect, ApproveEffect DEF EmitGovernance

\* Every step, seen from the tables.
LEMMA StepEffect ==
  ASSUME GovernanceInv, PanelsFinite, TablesInv, [ReadNext]_readVars
  PROVE  /\ TablesInv'
         /\ UserPublishes \/ Moves
         /\ ProposalsMove
<1>1. CASE EmitUser /\ UNCHANGED governanceVars
  <2>1. TablesInv' /\ UserPublishes
    BY <1>1, UserEffect
  <2>2. CaughtUp'.proposals = CaughtUp.proposals
    BY <2>1 DEF UserPublishes, Publishes
  <2>3. proposal' = proposal
    BY <1>1 DEF governanceVars
  <2>4. QED
    BY <2>1, <2>2, <2>3 DEF ProposalsMove
<1>2. CASE EmitGovernance
  BY <1>2, GovernanceEffect
<1>3. CASE EmitRegistry
  <2>1. TablesInv' /\ CaughtUp' = CaughtUp
    BY <1>3, EmitNone DEF EmitRegistry
  <2>2. Quiet
    BY <1>3, <2>1 DEF EmitRegistry, Quiet, SameTables
  <2>3. proposal' = proposal
    BY <1>3 DEF EmitRegistry, governanceVars
  <2>4. QED
    BY <2>1, <2>2, <2>3 DEF Moves, ProposalsMove
<1>4. CASE IndexEvents
  <2>1. CaughtUp' = CaughtUp /\ IsSeq(pending') /\ UNCHANGED vars
    BY <1>4, IndexKeepsCaughtUp DEF TablesInv
  <2>2. Quiet /\ proposal' = proposal
    BY <2>1, QuietStep DEF vars, governanceVars
  <2>3. QED
    BY <2>1, <2>2 DEF TablesInv, Moves, ProposalsMove
<1>5. CASE UNCHANGED readVars
  <2>1. CaughtUp' = CaughtUp /\ pending' = pending /\ UNCHANGED vars
    BY <1>5, CaughtUpIs DEF readVars
  <2>2. Quiet /\ proposal' = proposal
    BY <2>1, QuietStep DEF vars, governanceVars
  <2>3. QED
    BY <2>1, <2>2 DEF TablesInv, Moves, ProposalsMove
<1>6. QED
  BY <1>1, <1>2, <1>3, <1>4, <1>5 DEF ReadNext

-----------------------------------------------------------------------------
(* Reviews, disputes and panels are known.                                 *)

PanelRows ==
  \A i \in DOMAIN bounty : \A v \in bounty[i].reviewers :
    /\ <<i, v>> \in DOMAIN CaughtUp.reviewers
    /\ CaughtUp.reviewers[<<i, v>>] = bounty[i].reviewer_quorum

\* What the events of the table's own topic do.
LEMMA ReviewRow ==
  ASSUME NEW t, NEW i, NEW m, NEW v, NEW d, <<i, m, v>> \notin DOMAIN t
  PROVE  rebuildReviews(t, Event("review_submitted", i, m, v, d)) = Put(t, <<i, m, v>>, d)
BY DEF rebuildReviews, Event

LEMMA OpenedRow ==
  ASSUME NEW t, NEW i, NEW id, NEW a, NEW m
  PROVE  rebuildDisputes(t, Event("dispute_opened", i, id, a, m)) =
           Append(t, [issue |-> i, milestone |-> m, opener |-> a,
                      votes_pay_contributor |-> 0, votes_refund_funder |-> 0,
                      resolved |-> FALSE, pay_contributor |-> FALSE])
BY DEF rebuildDisputes, Event

LEMMA VoteRow ==
  ASSUME NEW t, NEW i, NEW id, NEW a, NEW pay
  PROVE  rebuildDisputes(t, Event("dispute_vote_cast", i, id, a, pay)) =
           [t EXCEPT ![id] = CountVote(@, pay)]
BY DEF rebuildDisputes, Event

LEMMA PanelRow ==
  ASSUME NEW t, NEW i, NEW rs, NEW q, NEW u,
         u = rebuildReviewers(t, Event("reviewers_set", i, 0, rs, q))
  PROVE  /\ DOMAIN t \subseteq DOMAIN u
         /\ \A v \in Members(rs) : <<i, v>> \in DOMAIN u /\ u[<<i, v>>] = q
         /\ \A j, v : j # i /\ <<j, v>> \in DOMAIN t => u[<<j, v>>] = t[<<j, v>>]
<1>1. PICK named : named = {i} \X Members(rs)
  OBVIOUS
<1>2. u = [k \in DOMAIN t \cup named |-> IF k \in named THEN q ELSE t[k]]
  BY <1>1 DEF rebuildReviewers, Event
<1>3. DOMAIN u = DOMAIN t \cup named
  BY <1>2
<1>4. \A v \in Members(rs) : <<i, v>> \in named
  BY <1>1
<1>5. \A j, v : j # i => <<j, v>> \notin named
  BY <1>1
<1>6. QED
  BY <1>2, <1>3, <1>4, <1>5

LEMMA PanelRowsKept ==
  ASSUME PanelRows, CaughtUp'.reviewers = CaughtUp.reviewers,
         \A j \in DOMAIN bounty' : PanelKept(j) \/ PanelFresh(j)
  PROVE  PanelRows'
<1>1. ASSUME NEW j \in DOMAIN bounty', NEW v \in bounty'[j].reviewers
      PROVE  /\ <<j, v>> \in DOMAIN CaughtUp'.reviewers
             /\ CaughtUp'.reviewers[<<j, v>>] = bounty'[j].reviewer_quorum
  <2>1. PanelKept(j)
    BY <1>1 DEF PanelFresh
  <2>2. QED
    BY <1>1, <2>1 DEF PanelKept, PanelRows
<1>2. QED
  BY <1>1 DEF PanelRows

\* Only SetReviewers replaces a panel.
LEMMA ExecutePanels ==
  ASSUME EscrowTypeOK, NEW a \in Proposable, Execute(a), a.kind # "SetReviewers"
  PROVE  \A j \in DOMAIN bounty' : PanelKept(j)
<1>1. CASE a.kind = "Release"
  <2>1. PICK i, m, b, c : /\ i = a.issue /\ m = a.milestone
                          /\ b = bounty[i] /\ c = Pay(b, m)
    OBVIOUS
  <2>2. apply_release(i, m)
    BY <1>1, <2>1 DEF Execute, execute_action
  <2>3. /\ i \in DOMAIN bounty /\ b \in Bounty /\ m \in Milestones(b)
        /\ c = Settle(b, {m}) \/ c = Pay(b, m)
        /\ bounty' = [bounty EXCEPT ![i] = c]
    BY <2>1, <2>2, StoredBounty DEF apply_release
  <2>4. c.reviewers = b.reviewers /\ c.reviewer_quorum = b.reviewer_quorum
    BY <2>3, PayParts
  <2>5. QED
    BY <2>1, <2>3, <2>4, SamePanels
<1>2. CASE a.kind = "Reclaim"
  <2>1. PICK i : i = a.issue
    OBVIOUS
  <2>2. i \in DOMAIN bounty /\ RefundRemaining(i)
    BY <1>2, <2>1 DEF Execute, execute_action, apply_reclaim
  <2>3. QED
    BY <2>2, RefundPanels
<1>3. CASE a.kind = "ResolveDispute"
  <2>1. PICK id : id = a.id
    OBVIOUS
  <2>2. ResolveByPaying(id) \/ ResolveByRefunding(id)
    BY <1>3, <2>1 DEF Execute, execute_action
  <2>3. PICK pay \in BOOLEAN : Resolvable(id, pay)
    BY <2>2 DEF ResolveByPaying, ResolveByRefunding
  <2>4. PICK i, m, b : i = dispute[id].issue /\ m = dispute[id].milestone /\ b = bounty[i]
    OBVIOUS
  <2>5. i \in DOMAIN bounty /\ b \in Bounty /\ m \in Milestones(b)
    BY <2>3, <2>4, ResolvableTypes
  <2>6. PICK c : /\ c = Settle(b, {m}) \/ c = Pay(b, m)
                 /\ bounty' = [bounty EXCEPT ![i] = c]
    BY <2>2, <2>4 DEF ResolveByPaying, ResolveByRefunding
  <2>7. c.reviewers = b.reviewers /\ c.reviewer_quorum = b.reviewer_quorum
    BY <2>5, <2>6, PayParts
  <2>8. QED
    BY <2>4, <2>5, <2>6, <2>7, SamePanels
<1>4. CASE a.kind = "SetSigners"
  <2>1. UNCHANGED bounty
    BY <1>4 DEF Execute, execute_action, escrowVars
  <2>2. QED
    BY <2>1 DEF PanelKept
<1>5. QED
  BY <1>1, <1>2, <1>3, <1>4, ProposableKinds DEF ActionKinds

DecidedInv == CaughtUp.reviews = review /\ CaughtUp.disputes = dispute /\ PanelRows

LEMMA QuietDecided ==
  ASSUME DecidedInv, Quiet
  PROVE  DecidedInv'
<1>1. PanelRows'
  BY PanelRowsKept DEF DecidedInv, Quiet, SameTables, PanelKept
<1>2. QED
  BY <1>1 DEF DecidedInv, Quiet, SameTables

LEMMA UserDecided ==
  ASSUME EscrowTypeOK, TablesInv, DecidedInv, UserPublishes
  PROVE  DecidedInv'
<1>1. UserStep
  BY Zenon DEF UserPublishes, UserStep
<1>2. \A j \in DOMAIN bounty' : PanelKept(j) \/ PanelFresh(j)
  BY <1>1, UserPanels
<1>3. ASSUME NEW e, Publishes(e)
      PROVE  /\ CaughtUp'.reviewers = CaughtUp.reviewers
             /\ e.topic # "review_submitted" => CaughtUp'.reviews = review
             /\ e.topic \notin DisputeTopics => CaughtUp'.disputes = dispute
  <2>1. TakeIn(CaughtUp, CaughtUp', e) /\ e.topic # "reviewers_set"
    BY <1>3 DEF Publishes, BountyTopics, DisputeTopics
  <2>2. IsRows(CaughtUp.reviewers)
    BY DEF TablesInv
  <2>3. QED
    BY <2>1, <2>2, OtherTopic DEF TakeIn, DecidedInv
<1>4. PanelRows'
  <2>1. CaughtUp'.reviewers = CaughtUp.reviewers
    BY <1>3 DEF UserPublishes
  <2>2. QED
    BY <1>2, <2>1, PanelRowsKept DEF DecidedInv
<1>5. \A t, i, m, w, n : Event(t, i, m, w, n).topic = t
  BY EventTopic
<1>6. ASSUME NEW t \in BountyTopics, NEW i, NEW m, NEW w, NEW n,
             Publishes(Event(t, i, m, w, n)), UNCHANGED <<review, dispute>>
      PROVE  CaughtUp'.reviews = review' /\ CaughtUp'.disputes = dispute'
  <2>1. t # "review_submitted" /\ t \notin DisputeTopics
    BY DEF BountyTopics, DisputeTopics
  <2>2. QED
    BY <1>3, <1>5, <1>6, <2>1
<1>7. ASSUME NEW f \in Funders, NEW t \in Token, NEW i \in Issue, NEW l \in MilestoneLists,
             create_bounty(f, t, i, l),
             Publishes(Event("bounty_created", i, 0, f, [token |-> t, amount |-> Total(l)]))
      PROVE  CaughtUp'.reviews = review' /\ CaughtUp'.disputes = dispute'
  <2>1. "bounty_created" \in BountyTopics /\ UNCHANGED <<review, dispute>>
    BY <1>7 DEF BountyTopics, create_bounty
  <2>2. QED
    BY <1>6, <1>7, <2>1
<1>8. ASSUME NEW i \in Issue, NEW w \in Workers, claim(i, w),
             Publishes(Event("contributor_claimed", i, 0, w, 0))
      PROVE  CaughtUp'.reviews = review' /\ CaughtUp'.disputes = dispute'
  <2>1. "contributor_claimed" \in BountyTopics /\ UNCHANGED <<review, dispute>>
    BY <1>8 DEF BountyTopics, claim
  <2>2. QED
    BY <1>6, <1>8, <2>1
<1>9. ASSUME NEW i \in Issue, reclaim(i),
             Publishes(Event("bounty_reclaimed", i, 0, bounty[i].funder, 0))
      PROVE  CaughtUp'.reviews = review' /\ CaughtUp'.disputes = dispute'
  <2>1. "bounty_reclaimed" \in BountyTopics /\ UNCHANGED <<review, dispute>>
    BY <1>9 DEF BountyTopics, reclaim, RefundRemaining
  <2>2. QED
    BY <1>6, <1>9, <2>1
<1>10. ASSUME NEW v \in Address, NEW i \in Issue, NEW m \in Slot, NEW d \in Decision,
              submit_review(v, i, m, d), Publishes(Event("review_submitted", i, m, v, d))
       PROVE  CaughtUp'.reviews = review' /\ CaughtUp'.disputes = dispute'
  <2>1. "review_submitted" \notin DisputeTopics
    BY DEF DisputeTopics
  <2>2. CaughtUp'.reviews = rebuildReviews(review, Event("review_submitted", i, m, v, d))
    BY <1>10 DEF Publishes, TakeIn, DecidedInv
  <2>3. <<i, m, v>> \notin DOMAIN review /\ review' = Put(review, <<i, m, v>>, d)
        /\ dispute' = dispute
    BY <1>10 DEF submit_review
  <2>4. QED
    BY <1>3, <1>5, <1>10, <2>1, <2>2, <2>3, ReviewRow
<1>11. ASSUME NEW a \in Address, NEW i \in Issue, NEW m \in Slot, open_dispute(a, i, m),
              Publishes(Event("dispute_opened", i, Len(dispute) + 1, a, m))
       PROVE  CaughtUp'.reviews = review' /\ CaughtUp'.disputes = dispute'
  <2>1. PICK id : id = Len(dispute) + 1
    OBVIOUS
  <2>2. CaughtUp'.disputes = rebuildDisputes(dispute, Event("dispute_opened", i, id, a, m))
    BY <1>11, <2>1 DEF Publishes, TakeIn, DecidedInv
  <2>3. CaughtUp'.disputes = dispute' /\ review' = review
    <3>1. PICK t, row : /\ t = dispute
                        /\ row = [issue |-> i, milestone |-> m, opener |-> a,
                                  votes_pay_contributor |-> 0, votes_refund_funder |-> 0,
                                  resolved |-> FALSE, pay_contributor |-> FALSE]
      OBVIOUS
    <3>2. rebuildDisputes(t, Event("dispute_opened", i, id, a, m)) = Append(t, row)
      BY <3>1, OpenedRow
    <3>3. dispute' = Append(t, row) /\ review' = review
      BY <1>11, <3>1 DEF open_dispute
    <3>4. QED
      BY <2>2, <3>1, <3>2, <3>3
  <2>4. QED
    BY <1>3, <1>5, <1>11, <2>3
<1>12. ASSUME NEW v \in Address, NEW id \in 1..MaxDisputes, NEW pay \in BOOLEAN,
              vote_on_dispute(v, id, pay),
              Publishes(Event("dispute_vote_cast", NoOne, id, v, pay))
       PROVE  CaughtUp'.reviews = review' /\ CaughtUp'.disputes = dispute'
  <2>1. CaughtUp'.disputes = rebuildDisputes(dispute,
                               Event("dispute_vote_cast", NoOne, id, v, pay))
    BY <1>12 DEF Publishes, TakeIn, DecidedInv
  <2>2. /\ dispute' = IF pay THEN [dispute EXCEPT ![id].votes_pay_contributor = @ + 1]
                      ELSE [dispute EXCEPT ![id].votes_refund_funder = @ + 1]
        /\ review' = review
    BY <1>12 DEF vote_on_dispute
  <2>3. CaughtUp'.disputes = dispute'
    <3> PICK t : t = dispute
      OBVIOUS
    <3>1. CASE pay = TRUE
      <4>1. rebuildDisputes(t, Event("dispute_vote_cast", NoOne, id, v, pay)) =
              [t EXCEPT ![id] = CountVote(@, pay)]
        BY VoteRow
      <4>2. [t EXCEPT ![id] = CountVote(@, pay)] = [t EXCEPT ![id].votes_pay_contributor = @ + 1]
        BY <3>1 DEF CountVote
      <4>3. QED
        BY <2>1, <2>2, <3>1, <4>1, <4>2
    <3>2. CASE pay = FALSE
      <4>1. rebuildDisputes(t, Event("dispute_vote_cast", NoOne, id, v, pay)) =
              [t EXCEPT ![id] = CountVote(@, pay)]
        BY VoteRow
      <4>2. [t EXCEPT ![id] = CountVote(@, pay)] = [t EXCEPT ![id].votes_refund_funder = @ + 1]
        BY <3>2 DEF CountVote
      <4>3. QED
        BY <2>1, <2>2, <3>2, <4>1, <4>2
    <3>3. QED
      BY <3>1, <3>2
  <2>4. QED
    BY <1>3, <1>5, <1>12, <2>2, <2>3
<1>13. CaughtUp'.reviews = review' /\ CaughtUp'.disputes = dispute'
  BY <1>7, <1>8, <1>9, <1>10, <1>11, <1>12 DEF UserPublishes
<1>14. QED
  BY <1>4, <1>13 DEF DecidedInv

LEMMA ExecutedDecided ==
  ASSUME EscrowTypeOK, TablesInv, DecidedInv, NEW a \in Proposable, Executes(a)
  PROVE  DecidedInv'
<1>1. PICK v, w, e : v = CaughtUp /\ w = CaughtUp' /\ e = OwnEvent(a)
  OBVIOUS
<1>2. /\ Execute(a) /\ TakeIn(v, w, e) /\ a.kind \in ActionKinds /\ IsRows(v.reviewers)
      /\ v.reviews = review /\ v.disputes = dispute
  BY <1>1, ProposableKinds DEF Executes, TablesInv, DecidedInv
<1>3. ASSUME a.kind # "SetReviewers", e.topic # "reviewers_set"  PROVE PanelRows'
  <2>1. CaughtUp'.reviewers = CaughtUp.reviewers
    BY <1>1, <1>2, <1>3, OtherTopic DEF TakeIn
  <2>2. \A j \in DOMAIN bounty' : PanelKept(j)
    BY <1>2, <1>3, ExecutePanels
  <2>3. QED
    BY <2>1, <2>2, PanelRowsKept DEF DecidedInv
<1>4. ASSUME UNCHANGED <<review, dispute>>, e.topic # "review_submitted",
             e.topic \notin DisputeTopics
      PROVE  w.reviews = review' /\ w.disputes = dispute'
  BY <1>2, <1>4, OtherTopic DEF TakeIn
<1>5. CASE a.kind \in {"Release", "Reclaim", "SetSigners"}
  <2>1. e.topic \in {"milestone_released", "bounty_refunded", "signers_updated"}
    BY <1>1, <1>5, EventTopic DEF OwnEvent
  <2>2. /\ a.kind # "SetReviewers" /\ e.topic # "reviewers_set"
        /\ e.topic # "review_submitted" /\ e.topic \notin DisputeTopics
    BY <1>5, <2>1 DEF DisputeTopics
  <2>3. UNCHANGED <<review, dispute>>
    BY <1>2, <1>5
    DEF Execute, execute_action, apply_release, apply_reclaim, RefundRemaining, escrowVars
  <2>4. QED
    BY <1>1, <1>3, <1>4, <2>2, <2>3 DEF DecidedInv
<1>6. CASE a.kind = "SetReviewers"
  <2>1. PICK i, rs, q : i = a.issue /\ rs = a.reviewers /\ q = a.quorum
    OBVIOUS
  <2>2. e = Event("reviewers_set", i, 0, rs, q)
    BY <1>1, <1>6, <2>1 DEF OwnEvent
  <2>3. apply_set_reviewers(i, rs, q)
    BY <1>2, <1>6, <2>1 DEF Execute, execute_action
  <2>4. e.topic = "reviewers_set"
    BY <2>2, EventTopic
  <2>5. w.reviews = review' /\ w.disputes = dispute'
    <3>1. e.topic # "review_submitted" /\ e.topic \notin DisputeTopics
      BY <2>4 DEF DisputeTopics
    <3>2. UNCHANGED <<review, dispute>>
      BY <2>3 DEF apply_set_reviewers
    <3>3. QED
      BY <1>4, <3>1, <3>2
  <2>6. w.reviewers = rebuildReviewers(v.reviewers, Event("reviewers_set", i, 0, rs, q))
    BY <1>2, <2>2 DEF TakeIn
  <2>7. /\ DOMAIN v.reviewers \subseteq DOMAIN w.reviewers
        /\ \A x \in Members(rs) : <<i, x>> \in DOMAIN w.reviewers
                                  /\ w.reviewers[<<i, x>>] = q
        /\ \A j, x : j # i /\ <<j, x>> \in DOMAIN v.reviewers
                       => w.reviewers[<<j, x>>] = v.reviewers[<<j, x>>]
    BY <2>6, PanelRow
  <2>8. /\ i \in DOMAIN bounty /\ bounty[i] \in Bounty
        /\ bounty' = [bounty EXCEPT ![i] = [bounty[i] EXCEPT !.reviewers = Members(rs),
                                                             !.reviewer_quorum = q]]
    BY <2>3, StoredBounty DEF apply_set_reviewers
  <2>9. /\ DOMAIN bounty' = DOMAIN bounty
        /\ bounty'[i].reviewers = Members(rs) /\ bounty'[i].reviewer_quorum = q
        /\ \A j \in DOMAIN bounty : j # i => bounty'[j] = bounty[j]
    BY <2>8 DEF Bounty
  <2>10. ASSUME NEW j \in DOMAIN bounty', NEW x \in bounty'[j].reviewers
         PROVE  <<j, x>> \in DOMAIN w.reviewers
                /\ w.reviewers[<<j, x>>] = bounty'[j].reviewer_quorum
    <3>1. CASE j = i
      BY <2>7, <2>9, <2>10, <3>1
    <3>2. CASE j # i
      <4>1. bounty'[j] = bounty[j] /\ j \in DOMAIN bounty /\ x \in bounty[j].reviewers
        BY <2>9, <2>10, <3>2
      <4>2. /\ <<j, x>> \in DOMAIN v.reviewers
            /\ v.reviewers[<<j, x>>] = bounty[j].reviewer_quorum
        BY <1>1, <4>1 DEF DecidedInv, PanelRows
      <4>3. QED
        BY <2>7, <3>2, <4>1, <4>2
    <3>3. QED
      BY <3>1, <3>2
  <2>11. PanelRows'
    BY <1>1, <2>10 DEF PanelRows
  <2>12. QED
    BY <1>1, <2>5, <2>11 DEF DecidedInv
<1>7. CASE a.kind = "ResolveDispute"
  <2>1. PICK i, id, pay : i = dispute[a.id].issue /\ id = a.id /\ pay = a.pay
    OBVIOUS
  <2>2. e = Event("dispute_resolved", i, id, NoOne, pay)
    BY <1>1, <1>7, <2>1 DEF OwnEvent
  <2>3. e.topic = "dispute_resolved"
    BY <2>2, EventTopic
  <2>4. w.disputes = [dispute EXCEPT ![id].resolved = TRUE, ![id].pay_contributor = pay]
    <3>1. PICK t : t = dispute
      OBVIOUS
    <3>2. rebuildDisputes(t, Event("dispute_resolved", i, id, NoOne, pay)) =
            [t EXCEPT ![id].resolved = TRUE, ![id].pay_contributor = pay]
      BY DEF rebuildDisputes, Event
    <3>3. QED
      BY <1>2, <2>2, <3>1, <3>2 DEF TakeIn
  <2>5. review' = review /\ ResolutionRecorded(id, pay)
    <3>1. (pay = TRUE /\ ResolveByPaying(id)) \/ (pay = FALSE /\ ResolveByRefunding(id))
      <4>1. (a.pay /\ ResolveByPaying(id)) \/ (~a.pay /\ ResolveByRefunding(id))
        BY <1>2, <1>7, <2>1 DEF Execute, execute_action
      <4>2. a.pay \in BOOLEAN
        BY <1>7, EscrowConstants DEF EscrowAction, SignerAction
      <4>3. QED
        BY <2>1, <4>1, <4>2
    <3>2. QED
      BY <3>1 DEF ResolveByPaying, ResolveByRefunding
  <2>6. w.disputes = dispute'
    BY <2>4, <2>5 DEF ResolutionRecorded
  <2>7. w.reviews = review'
    BY <1>2, <2>3, <2>5, OtherTopic DEF TakeIn
  <2>8. PanelRows'
    BY <1>3, <1>7, <2>3
  <2>9. QED
    BY <1>1, <2>6, <2>7, <2>8 DEF DecidedInv
<1>8. QED
  BY <1>2, <1>5, <1>6, <1>7 DEF ActionKinds

-----------------------------------------------------------------------------
(* The proposals are known.                                                *)

ProposalRow ==
  [proposer: Address \cup {NoOne}, approvals: Seq(Address),
   executed: BOOLEAN, cancelled: BOOLEAN]

\* Row r knows of proposal p what matters.
RowKnown(r, p) ==
  /\ r \in ProposalRow
  /\ r.proposer = p.proposer /\ r.executed = p.executed /\ r.cancelled = p.cancelled
  /\ Members(p.approvals) \subseteq Members(r.approvals)
  /\ NoDuplicates(r.approvals)

KnownTable(t, ps) ==
  /\ DOMAIN t = DOMAIN ps
  /\ \A id \in DOMAIN ps : RowKnown(t[id], ps[id])

ProposalsInv == KnownTable(CaughtUp.proposals, proposal)

\* The rows that an event writes.
LEMMA CreatedRow ==
  ASSUME NEW t, NEW id, NEW s, NEW e, e = Event("proposal_created", NoOne, id, s, 0),
         id \notin DOMAIN t
  PROVE  rebuildProposals(t, e) =
           Put(t, id, [proposer |-> s, approvals |-> <<s>>,
                       executed |-> FALSE, cancelled |-> FALSE])
<1>1. e.topic = "proposal_created" /\ e.milestone = id /\ e.who = s
  BY DEF Event
<1>2. Lookup(t, id, NoProposalRow) = NoProposalRow
  BY DEF Lookup
<1>3. PICK none, a : none = <<>> /\ a = <<s>>
  OBVIOUS
<1>4. /\ NoProposalRow.executed = FALSE /\ NoProposalRow.cancelled = FALSE
      /\ NoProposalRow \in [proposer: {NoOne}, approvals: {none},
                            executed: BOOLEAN, cancelled: BOOLEAN]
  BY <1>3 DEF NoProposalRow
<1>5. PICK r : r = [NoProposalRow EXCEPT !.proposer = s, !.approvals = a]
  OBVIOUS
<1>6. rebuildProposals(t, e) = Put(t, id, [NoProposalRow EXCEPT !.proposer = s,
                                                               !.approvals = a])
  BY <1>1, <1>2, <1>3 DEF rebuildProposals, FirstApprovals
<1>7. r = [proposer |-> s, approvals |-> a, executed |-> FALSE, cancelled |-> FALSE]
  BY <1>4, <1>5
<1>8. QED
  BY <1>3, <1>5, <1>6, <1>7

LEMMA ApprovedRow ==
  ASSUME NEW t, NEW id \in DOMAIN t, NEW s, NEW e,
         e = Event("proposal_approved", NoOne, id, s, 0), NEW row, row = t[id]
  PROVE  rebuildProposals(t, e) =
           Put(t, id, [row EXCEPT !.approvals =
                         IF s \in Members(@) THEN @ ELSE Append(@, s)])
<1>1. e.topic = "proposal_approved" /\ e.milestone = id /\ e.who = s
  BY DEF Event
<1>2. Lookup(t, id, NoProposalRow) = row
  BY DEF Lookup
<1>3. QED
  BY <1>1, <1>2 DEF rebuildProposals

LEMMA ExecutedRow ==
  ASSUME NEW t, NEW id \in DOMAIN t, NEW e,
         e = Event("proposal_executed", NoOne, id, NoOne, 0), NEW row, row = t[id]
  PROVE  rebuildProposals(t, e) = Put(t, id, [row EXCEPT !.executed = TRUE])
<1>1. e.topic = "proposal_executed" /\ e.milestone = id
  BY DEF Event
<1>2. Lookup(t, id, NoProposalRow) = row
  BY DEF Lookup
<1>3. QED
  BY <1>1, <1>2 DEF rebuildProposals

LEMMA CancelledRow ==
  ASSUME NEW t, NEW id \in DOMAIN t, NEW s, NEW e,
         e = Event("proposal_cancelled", NoOne, id, s, 0), NEW row, row = t[id]
  PROVE  rebuildProposals(t, e) = Put(t, id, [row EXCEPT !.cancelled = TRUE])
<1>1. e.topic = "proposal_cancelled" /\ e.milestone = id
  BY DEF Event
<1>2. Lookup(t, id, NoProposalRow) = row
  BY DEF Lookup
<1>3. QED
  BY <1>1, <1>2 DEF rebuildProposals

LEMMA PutKnown ==
  ASSUME NEW t, NEW ps, KnownTable(t, ps), NEW r, NEW p, RowKnown(r, p), NEW id
  PROVE  KnownTable(Put(t, id, r), Put(ps, id, p))
BY DEF KnownTable, Put

\* A proposal once executed is known to be.
LEMMA ExecutedKnown ==
  ASSUME NEW r, NEW p \in Proposal, RowKnown(r, p), NEW x, NEW q,
         x = [r EXCEPT !.executed = TRUE], q = [p EXCEPT !.executed = TRUE]
  PROVE  RowKnown(x, q)
<1>1. r \in ProposalRow
  BY DEF RowKnown
<1>2. /\ x \in ProposalRow /\ x.executed = TRUE /\ x.proposer = r.proposer
      /\ x.cancelled = r.cancelled /\ x.approvals = r.approvals
  BY <1>1 DEF ProposalRow
<1>3. /\ q.executed = TRUE /\ q.proposer = p.proposer
      /\ q.cancelled = p.cancelled /\ q.approvals = p.approvals
  BY DEF Proposal
<1>4. QED
  BY <1>2, <1>3 DEF RowKnown

\* propose and approve, given the row of the event they publish first.
LEMMA LeadKnown ==
  ASSUME ProposalsInv, NEW id, NEW p \in Proposal, ~p.executed, StoreAndTryExecute(id, p),
         NEW lead, Leads(lead, id, proposal'[id].executed),
         NEW r, RowKnown(r, p),
         rebuildProposals(CaughtUp.proposals, lead) = Put(CaughtUp.proposals, id, r)
  PROVE  ProposalsInv'
<1>1. PICK t, u, w : t = CaughtUp.proposals /\ u = Put(t, id, r) /\ w = CaughtUp'.proposals
  OBVIOUS
<1>2. PICK q : q = [p EXCEPT !.executed = TRUE]
  OBVIOUS
<1>3. q.executed = TRUE
  BY <1>2 DEF Proposal
<1>4. KnownTable(t, proposal)
  BY <1>1 DEF ProposalsInv
<1>5. CASE ~Reached(p)
  <2>1. proposal' = Put(proposal, id, p)
    BY <1>5 DEF StoreAndTryExecute
  <2>2. proposal'[id] = p
    BY <2>1 DEF Put
  <2>3. w = u
    BY <1>1, <2>2 DEF Leads
  <2>4. KnownTable(u, proposal')
    BY <1>1, <1>4, <2>1, PutKnown
  <2>5. QED
    BY <1>1, <2>3, <2>4 DEF ProposalsInv
<1>6. CASE Reached(p)
  <2>1. proposal' = Put(proposal, id, q)
    BY <1>2, <1>6 DEF StoreAndTryExecute
  <2>2. proposal'[id] = q
    BY <2>1 DEF Put
  <2>3. PICK e, x : /\ e = Event("proposal_executed", NoOne, id, NoOne, 0)
                    /\ x = [r EXCEPT !.executed = TRUE]
    OBVIOUS
  <2>4. w = rebuildProposals(u, e)
    BY <1>1, <1>3, <2>2, <2>3 DEF Leads
  <2>5. id \in DOMAIN u /\ u[id] = r
    BY <1>1 DEF Put
  <2>6. w = Put(u, id, x)
    BY <2>3, <2>4, <2>5, ExecutedRow
  <2>7. w = Put(t, id, x)
    BY <1>1, <2>6 DEF Put
  <2>8. RowKnown(x, q)
    BY <1>2, <2>3, ExecutedKnown
  <2>9. KnownTable(w, proposal')
    BY <1>4, <2>1, <2>7, <2>8, PutKnown
  <2>10. QED
    BY <1>1, <2>9 DEF ProposalsInv
<1>7. QED
  BY <1>5, <1>6

LEMMA ProposeKnown ==
  ASSUME BountyTypeOK, ProposalsInv, NEW s \in Address, NEW a \in Proposable, propose(s, a),
         NEW id, id = Len(proposal) + 1,
         Leads(Event("proposal_created", NoOne, id, s, 0), id, proposal'[id].executed)
  PROVE  ProposalsInv'
<1>1. PICK e, p, r : /\ e = Event("proposal_created", NoOne, id, s, 0)
                     /\ p = [action |-> a, proposer |-> s, approvals |-> <<s>>,
                             executed |-> FALSE, cancelled |-> FALSE]
                     /\ r = [proposer |-> s, approvals |-> <<s>>,
                             executed |-> FALSE, cancelled |-> FALSE]
  OBVIOUS
<1>2. <<s>> \in Seq(Address) /\ NoDuplicates(<<s>>)
  BY DEF NoDuplicates
<1>3. p \in Proposal /\ ~p.executed
  BY <1>1, <1>2 DEF Proposal
<1>4. RowKnown(r, p)
  BY <1>1, <1>2 DEF RowKnown, ProposalRow
<1>5. StoreAndTryExecute(id, p)
  BY <1>1 DEF propose
<1>6. id \notin DOMAIN CaughtUp.proposals
  <2>1. DOMAIN CaughtUp.proposals = DOMAIN proposal
    BY DEF ProposalsInv, KnownTable
  <2>2. id \notin DOMAIN proposal
    BY LenProperties DEF BountyTypeOK
  <2>3. QED
    BY <2>1, <2>2
<1>7. rebuildProposals(CaughtUp.proposals, e) = Put(CaughtUp.proposals, id, r)
  <2>1. PICK t : t = CaughtUp.proposals
    OBVIOUS
  <2>2. rebuildProposals(t, e) = Put(t, id, r)
    BY <1>1, <1>6, <2>1, CreatedRow
  <2>3. QED
    BY <2>1, <2>2
<1>8. Leads(e, id, proposal'[id].executed)
  BY <1>1
<1>9. QED
  BY <1>3, <1>4, <1>5, <1>7, <1>8, LeadKnown

LEMMA ApproveKnown ==
  ASSUME BountyTypeOK, ProposalsInv, NEW s \in Address, NEW id \in DOMAIN proposal,
         approve(s, id),
         Leads(Event("proposal_approved", NoOne, id, s, 0), id, proposal'[id].executed)
  PROVE  ProposalsInv'
<1>1. PICK t, e, row, q : /\ t = CaughtUp.proposals
                          /\ e = Event("proposal_approved", NoOne, id, s, 0)
                          /\ row = t[id] /\ q = proposal[id]
  OBVIOUS
<1>2. PICK v, w, p, r :
        /\ v = Append(q.approvals, s) /\ p = [q EXCEPT !.approvals = v]
        /\ w = IF s \in Members(row.approvals) THEN row.approvals
               ELSE Append(row.approvals, s)
        /\ r = [row EXCEPT !.approvals = w]
  OBVIOUS
<1>3. q \in Proposal
  BY <1>1, StoredProposal
<1>4. RowKnown(row, q) /\ row \in ProposalRow /\ id \in DOMAIN t
  BY <1>1 DEF ProposalsInv, KnownTable, RowKnown
<1>5. q.approvals \in Seq(Address) /\ row.approvals \in Seq(Address)
  BY <1>3, <1>4 DEF Proposal, ProposalRow
<1>6. v \in Seq(Address) /\ w \in Seq(Address)
  BY <1>2, <1>5, AppendProperties
<1>7. /\ p \in Proposal /\ p.approvals = v /\ p.executed = q.executed
      /\ p.cancelled = q.cancelled /\ p.proposer = q.proposer
  BY <1>2, <1>3, <1>6 DEF Proposal
<1>8. /\ r \in ProposalRow /\ r.approvals = w /\ r.executed = row.executed
      /\ r.cancelled = row.cancelled /\ r.proposer = row.proposer
  BY <1>2, <1>4, <1>6 DEF ProposalRow
<1>9. ASSUME NEW x \in Seq(Address)
      PROVE  /\ Members(Append(x, s)) = Members(x) \cup {s}
             /\ s \notin Members(x) /\ NoDuplicates(x) => NoDuplicates(Append(x, s))
  <2>1. PICK y : y = Append(x, s)
    OBVIOUS
  <2>2. /\ Len(x) \in Nat /\ DOMAIN x = 1..Len(x) /\ DOMAIN y = 1..(Len(x) + 1)
        /\ y[Len(x) + 1] = s /\ \A k \in 1..Len(x) : y[k] = x[k]
    BY <2>1, LenProperties, AppendProperties
  <2>3. Members(y) = Members(x) \cup {s}
    BY <2>2 DEF Members
  <2>4. s \notin Members(x) /\ NoDuplicates(x) => NoDuplicates(y)
    BY <2>2 DEF NoDuplicates, Members
  <2>5. QED
    BY <2>1, <2>3, <2>4
<1>10. Members(v) \subseteq Members(w) /\ NoDuplicates(w)
  BY <1>2, <1>4, <1>5, <1>9 DEF RowKnown
<1>11. RowKnown(r, p)
  BY <1>4, <1>7, <1>8, <1>10 DEF RowKnown
<1>12. rebuildProposals(t, e) = Put(t, id, r)
  <2>1. r = [row EXCEPT !.approvals = IF s \in Members(@) THEN @ ELSE Append(@, s)]
    BY <1>2
  <2>2. QED
    BY <1>1, <1>4, <2>1, ApprovedRow
<1>13. ~p.executed /\ StoreAndTryExecute(id, p)
  BY <1>1, <1>2, <1>7 DEF approve, Open
<1>14. Leads(e, id, proposal'[id].executed)
  BY <1>1
<1>15. rebuildProposals(CaughtUp.proposals, e) = Put(CaughtUp.proposals, id, r)
  BY <1>1, <1>12
<1>16. QED
  BY <1>7, <1>11, <1>13, <1>14, <1>15, LeadKnown

\* No event tells of a revoked approval: its row keeps it.
LEMMA RevokeKnown ==
  ASSUME BountyTypeOK, ProposalsInv, NEW s \in Address, NEW id \in DOMAIN proposal,
         revoke(s, id), CaughtUp'.proposals = CaughtUp.proposals
  PROVE  ProposalsInv'
<1>1. PICK t, row, q, v, p : /\ t = CaughtUp.proposals /\ row = t[id] /\ q = proposal[id]
                             /\ v = Without(q.approvals, s)
                             /\ p = [q EXCEPT !.approvals = v]
  OBVIOUS
<1>2. q \in Proposal /\ RowKnown(row, q)
  BY <1>1, StoredProposal DEF ProposalsInv, KnownTable
<1>3. q.approvals \in Seq(Address)
  BY <1>2 DEF Proposal
<1>4. Members(v) \subseteq Members(q.approvals)
  BY <1>1, <1>3, WithoutParts
<1>5. /\ p.approvals = v /\ p.executed = q.executed
      /\ p.cancelled = q.cancelled /\ p.proposer = q.proposer
  BY <1>1, <1>2 DEF Proposal
<1>6. RowKnown(row, p)
  BY <1>2, <1>4, <1>5 DEF RowKnown
<1>7. proposal' = [proposal EXCEPT ![id] = p]
  BY <1>1 DEF revoke
<1>8. KnownTable(t, proposal')
  BY <1>1, <1>6, <1>7 DEF ProposalsInv, KnownTable
<1>9. QED
  BY <1>1, <1>8 DEF ProposalsInv

LEMMA CancelKnown ==
  ASSUME BountyTypeOK, ProposalsInv, NEW s \in Address, NEW id \in DOMAIN proposal,
         cancel(s, id),
         CaughtUp'.proposals = rebuildProposals(CaughtUp.proposals,
                                 Event("proposal_cancelled", NoOne, id, s, 0))
  PROVE  ProposalsInv'
<1>1. PICK t, e, row, q, p, r :
        /\ t = CaughtUp.proposals /\ e = Event("proposal_cancelled", NoOne, id, s, 0)
        /\ row = t[id] /\ q = proposal[id]
        /\ p = [q EXCEPT !.cancelled = TRUE] /\ r = [row EXCEPT !.cancelled = TRUE]
  OBVIOUS
<1>2. q \in Proposal /\ RowKnown(row, q) /\ row \in ProposalRow /\ id \in DOMAIN t
  BY <1>1, StoredProposal DEF ProposalsInv, KnownTable, RowKnown
<1>3. /\ p.approvals = q.approvals /\ p.executed = q.executed
      /\ p.cancelled = TRUE /\ p.proposer = q.proposer
  BY <1>1, <1>2 DEF Proposal
<1>4. /\ r \in ProposalRow /\ r.approvals = row.approvals /\ r.executed = row.executed
      /\ r.cancelled = TRUE /\ r.proposer = row.proposer
  BY <1>1, <1>2 DEF ProposalRow
<1>5. RowKnown(r, p)
  BY <1>2, <1>3, <1>4 DEF RowKnown
<1>6. rebuildProposals(t, e) = Put(t, id, r)
  BY <1>1, <1>2, CancelledRow
<1>7. proposal' = Put(proposal, id, p)
  <2>1. proposal' = [proposal EXCEPT ![id] = p]
    BY <1>1 DEF cancel
  <2>2. proposal \in [DOMAIN proposal -> Proposal]
    BY LenProperties, ElementOfSeq DEF BountyTypeOK
  <2>3. QED
    BY <2>1, <2>2 DEF Put
<1>8. KnownTable(t, proposal)
  BY <1>1 DEF ProposalsInv
<1>9. KnownTable(Put(t, id, r), Put(proposal, id, p))
  BY <1>5, <1>8, PutKnown
<1>10. QED
  BY <1>1, <1>6, <1>7, <1>9 DEF ProposalsInv

LEMMA ProposalsStep ==
  ASSUME BountyTypeOK, ProposalsInv, ProposalsMove
  PROVE  ProposalsInv'
<1>1. CASE proposal' = proposal /\ CaughtUp'.proposals = CaughtUp.proposals
  BY <1>1 DEF ProposalsInv
<1>2. ASSUME NEW s \in Address, NEW a \in Proposable, NEW id, id = Len(proposal) + 1,
             propose(s, a),
             Leads(Event("proposal_created", NoOne, id, s, 0), id, proposal'[id].executed)
      PROVE  ProposalsInv'
  BY <1>2, ProposeKnown
<1>3. QED
  BY <1>1, <1>2, ApproveKnown, RevokeKnown, CancelKnown DEF ProposalsMove

-----------------------------------------------------------------------------
(* The decisions are known, in every run.                                  *)

LEMMA DecidedStep ==
  ASSUME GovernanceInv, PanelsFinite, TablesInv, DecidedInv, [ReadNext]_readVars
  PROVE  DecidedInv'
<1>1. EscrowTypeOK
  BY DEF GovernanceInv, BountyTypeOK
<1>2. UserPublishes \/ Quiet \/ \E a \in Proposable : Executes(a)
  BY StepEffect DEF Moves
<1>3. QED
  BY <1>1, <1>2, QuietDecided, UserDecided, ExecutedDecided

LEMMA ReadInitTables ==
  ASSUME ReadInit
  PROVE  /\ TablesInv /\ CaughtUp = view
<1>1. pending = <<>>
  BY DEF ReadInit
<1>2. CaughtUp = view
  BY <1>1, CaughtUpIs, FoldedNone
<1>3. view.reviewers = [k \in {} |-> NoOne]
  BY DEF ReadInit, Empty
<1>4. IsRows(view.reviewers)
  BY <1>3 DEF IsRows
<1>5. QED
  BY <1>1, <1>2, <1>4, IsSeqNone DEF TablesInv

LEMMA ReadInitDecided ==
  ASSUME ReadInit
  PROVE  DecidedInv /\ ProposalsInv
<1>1. PICK v : v = CaughtUp
  OBVIOUS
<1>2. v = view
  BY <1>1, ReadInitTables
<1>3. /\ view.reviews = Empty /\ view.disputes = <<>> /\ view.proposals = Empty
  BY DEF ReadInit
<1>4. /\ review = Empty /\ dispute = <<>> /\ proposal = <<>> /\ DOMAIN bounty = {}
  BY DEF ReadInit, Init, EscrowInit, Empty
<1>5. PanelRows
  BY <1>4 DEF PanelRows
<1>6. DOMAIN Empty = {} /\ DOMAIN <<>> = {}
  BY DEF Empty
<1>7. KnownTable(v.proposals, proposal)
  BY <1>2, <1>3, <1>4, <1>6 DEF KnownTable
<1>8. QED
  BY <1>1, <1>2, <1>3, <1>4, <1>5, <1>7 DEF DecidedInv, ProposalsInv

LEMMA TablesCorrect ==
  ReadSpec => [](GovernanceInv /\ PanelsFinite /\ TablesInv /\ DecidedInv /\ ProposalsInv)
<1>1. ReadInit => TablesInv /\ DecidedInv /\ ProposalsInv
  BY ReadInitTables, ReadInitDecided
<1>2. GovernanceInv /\ PanelsFinite /\ TablesInv /\ DecidedInv /\ ProposalsInv
        /\ [ReadNext]_readVars
        => TablesInv' /\ DecidedInv' /\ ProposalsInv'
  BY StepEffect, DecidedStep, ProposalsStep DEF GovernanceInv
<1>3. Spec => [](GovernanceInv /\ PanelsFinite)
  BY GovernanceCorrect, GovernanceOnlyRestricts, PanelsInvariant, PTL DEF ImplementsEscrow
<1>4. QED
  BY <1>1, <1>2, <1>3, IndexingOnlyReads, PTL DEF ReadSpec

\* Once what is emitted is indexed, the tables have every review, every dispute with
\* its votes, the panels in force and every proposal with its state and at least the
\* approvals that stand, whatever the passes cut in two.
THEOREM DecisionsStayKnown == ReadSpec => []DecisionsAreKnown
<1>1. DecidedInv /\ ProposalsInv => DecisionsAreKnown
  <2> SUFFICES ASSUME DecidedInv, ProposalsInv  PROVE DecisionsAreKnown
    OBVIOUS
  <2>1. ReviewsAndDisputesAreExact
    BY DEF DecidedInv, PanelRows, ReviewsAndDisputesAreExact
  <2>2. ProposalsAreKnown
    BY DEF ProposalsInv, KnownTable, RowKnown, ProposalsAreKnown
  <2>3. QED
    BY <2>1, <2>2 DEF DecisionsAreKnown
<1>2. QED
  BY <1>1, TablesCorrect, PTL

-----------------------------------------------------------------------------
(* What a step does to the settlement and to the tables that show it.      *)

\* The milestones that a resolved dispute paid, or refunded.
Decisions(pay) ==
  {<<dispute[id].issue, dispute[id].milestone>> :
     id \in {id \in DOMAIN dispute :
               dispute[id].resolved /\ dispute[id].pay_contributor = pay}}

NoDecision == \A pay : Decisions(pay)' = Decisions(pay)

LEMMA SameDecisions ==
  ASSUME DOMAIN dispute \subseteq DOMAIN dispute',
         \A id \in DOMAIN dispute' : dispute'[id].resolved => id \in DOMAIN dispute,
         \A id \in DOMAIN dispute :
           /\ dispute'[id].issue = dispute[id].issue
           /\ dispute'[id].milestone = dispute[id].milestone
           /\ dispute'[id].resolved = dispute[id].resolved
           /\ dispute'[id].pay_contributor = dispute[id].pay_contributor
  PROVE  NoDecision
<1>1. ASSUME NEW pay
      PROVE  {id \in DOMAIN dispute : dispute[id].resolved /\ dispute[id].pay_contributor = pay}
             = {id \in DOMAIN dispute' :
                  dispute'[id].resolved /\ dispute'[id].pay_contributor = pay}
  OBVIOUS
<1>2. QED
  BY <1>1 DEF NoDecision, Decisions

LEMMA OpenedDecisions ==
  ASSUME EscrowTypeOK, NEW a \in Address, NEW i \in Issue, NEW m \in Slot,
         open_dispute(a, i, m)
  PROVE  NoDecision
<1> DEFINE d == [issue |-> i, milestone |-> m, opener |-> a,
                 votes_pay_contributor |-> 0, votes_refund_funder |-> 0,
                 resolved |-> FALSE, pay_contributor |-> FALSE]
<1>1. d \in Dispute /\ ~d.resolved
  BY DEF Dispute
<1>2. dispute' = Append(dispute, d) /\ dispute \in Seq(Dispute)
  BY DEF open_dispute, EscrowTypeOK
<1> HIDE DEF d
<1>3. /\ DOMAIN dispute = 1..Len(dispute) /\ Len(dispute) \in Nat
      /\ DOMAIN dispute' = 1..(Len(dispute) + 1)
      /\ dispute'[Len(dispute) + 1] = d
      /\ \A id \in 1..Len(dispute) : dispute'[id] = dispute[id]
  BY <1>1, <1>2, AppendProperties, LenProperties
<1>4. /\ DOMAIN dispute \subseteq DOMAIN dispute'
      /\ \A id \in DOMAIN dispute' : dispute'[id].resolved => id \in DOMAIN dispute
      /\ \A id \in DOMAIN dispute : dispute'[id] = dispute[id]
  BY <1>1, <1>3
<1>5. QED
  BY <1>4, SameDecisions

LEMMA VotedDecisions ==
  ASSUME EscrowTypeOK, NEW v, NEW id, NEW pay, vote_on_dispute(v, id, pay)
  PROVE  NoDecision
<1>1. dispute[id] \in Dispute
  BY StoredDispute DEF vote_on_dispute
<1>2. /\ DOMAIN dispute' = DOMAIN dispute
      /\ \A k \in DOMAIN dispute :
           /\ dispute'[k].issue = dispute[k].issue
           /\ dispute'[k].milestone = dispute[k].milestone
           /\ dispute'[k].resolved = dispute[k].resolved
           /\ dispute'[k].pay_contributor = dispute[k].pay_contributor
  BY <1>1 DEF vote_on_dispute, Dispute
<1>3. QED
  BY <1>2, SameDecisions

\* A resolution decides its milestone, and no other.
LEMMA ResolvedDecisions ==
  ASSUME EscrowTypeOK, NEW id, NEW pay \in BOOLEAN, Resolvable(id, pay),
         ResolutionRecorded(id, pay)
  PROVE  \A out : Decisions(out)' =
           IF out = pay
           THEN Decisions(out) \cup {<<dispute[id].issue, dispute[id].milestone>>}
           ELSE Decisions(out)
<1>1. id \in DOMAIN dispute /\ dispute[id] \in Dispute /\ ~dispute[id].resolved
  BY ResolvableTypes DEF Resolvable
<1>2. /\ DOMAIN dispute' = DOMAIN dispute
      /\ dispute'[id].issue = dispute[id].issue
      /\ dispute'[id].milestone = dispute[id].milestone
      /\ dispute'[id].resolved = TRUE /\ dispute'[id].pay_contributor = pay
      /\ \A k \in DOMAIN dispute : k # id => dispute'[k] = dispute[k]
  BY <1>1 DEF ResolutionRecorded, Dispute
<1>3. ASSUME NEW out
      PROVE  Decisions(out)' =
               IF out = pay
               THEN Decisions(out) \cup {<<dispute[id].issue, dispute[id].milestone>>}
               ELSE Decisions(out)
  <2> DEFINE old == {k \in DOMAIN dispute :
                       dispute[k].resolved /\ dispute[k].pay_contributor = out}
             new == {k \in DOMAIN dispute' :
                       dispute'[k].resolved /\ dispute'[k].pay_contributor = out}
  <2>1. new = IF out = pay THEN old \cup {id} ELSE old
    BY <1>1, <1>2
  <2>2. id \notin old
    BY <1>1
  <2>3. /\ Decisions(out) = {<<dispute[k].issue, dispute[k].milestone>> : k \in old}
        /\ Decisions(out)' = {<<dispute'[k].issue, dispute'[k].milestone>> : k \in new}
    BY DEF Decisions
  <2>4. \A k \in old : dispute'[k] = dispute[k]
    BY <1>2, <2>2
  <2> HIDE DEF old, new
  <2>5. CASE out = pay
    BY <1>2, <2>1, <2>3, <2>4, <2>5
  <2>6. CASE out # pay
    BY <2>1, <2>3, <2>4, <2>6
  <2>7. QED
    BY <2>5, <2>6
<1>4. QED
  BY <1>3

\* The steps, by what they do to the bounties.
SameSettledTables ==
  /\ CaughtUp'.bounties = CaughtUp.bounties
  /\ CaughtUp'.milestones = CaughtUp.milestones

IsCalm ==
  UNCHANGED <<bounty, paid>> /\ NoDecision /\ SameSettledTables

IsCreation ==
  /\ CaughtUp'.milestones = CaughtUp.milestones
  /\ \E f \in Funders, t \in Token, i \in Issue, l \in MilestoneLists :
       /\ create_bounty(f, t, i, l)
       /\ CaughtUp'.bounties = rebuildBountyState(CaughtUp.bounties,
            Event("bounty_created", i, 0, f, [token |-> t, amount |-> Total(l)]))

IsClaim ==
  /\ CaughtUp'.milestones = CaughtUp.milestones
  /\ \E i \in Issue, w \in Workers :
       /\ claim(i, w)
       /\ CaughtUp'.bounties = rebuildBountyState(CaughtUp.bounties,
            Event("contributor_claimed", i, 0, w, 0))

IsRefund ==
  /\ CaughtUp'.milestones = CaughtUp.milestones
  /\ \E i \in DOMAIN bounty, t \in {"bounty_reclaimed", "bounty_refunded"} :
       /\ ~bounty[i].released /\ RefundRemaining(i)
       /\ CaughtUp'.bounties = rebuildBountyState(CaughtUp.bounties,
            Event(t, i, 0, bounty[i].funder, 0))

IsRelease ==
  \E i, m : \E e :
    /\ apply_release(i, m)
    /\ e = Event("milestone_released", i, m, bounty[i].contributor,
                 [amount |-> bounty[i].amounts[m],
                  released_amount |-> bounty'[i].released_amount])
    /\ CaughtUp'.bounties = rebuildBountyState(CaughtUp.bounties, e)
    /\ CaughtUp'.milestones = rebuildMilestones(CaughtUp.milestones, e)

IsPanel ==
  SameSettledTables /\ \E i, rs, q : apply_set_reviewers(i, rs, q)

IsDecision ==
  /\ SameSettledTables
  /\ \E id : ResolveByPaying(id) \/ ResolveByRefunding(id)

\* An event about reviews or disputes leaves both tables alone.
LEMMA OtherSettledTables ==
  ASSUME NEW e, TakeIn(CaughtUp, CaughtUp', e), e.topic \notin BountyTopics
  PROVE  SameSettledTables
<1>1. PICK v, w : v = CaughtUp /\ w = CaughtUp'
  OBVIOUS
<1>2. e.topic # "milestone_released"
  BY DEF BountyTopics
<1>3. rebuildBountyState(v.bounties, e) = v.bounties
  BY OtherBountyTopic
<1>4. rebuildMilestones(v.milestones, e) = v.milestones
  BY <1>2, OtherTopic
<1>5. w.bounties = rebuildBountyState(v.bounties, e)
      /\ w.milestones = rebuildMilestones(v.milestones, e)
  BY <1>1 DEF TakeIn
<1>6. QED
  BY <1>1, <1>3, <1>4, <1>5 DEF SameSettledTables

LEMMA BountyTakeIn ==
  ASSUME NEW e, TakeIn(CaughtUp, CaughtUp', e), e.topic # "milestone_released"
  PROVE  /\ CaughtUp'.milestones = CaughtUp.milestones
         /\ CaughtUp'.bounties = rebuildBountyState(CaughtUp.bounties, e)
<1>1. PICK v, w : v = CaughtUp /\ w = CaughtUp'
  OBVIOUS
<1>2. rebuildMilestones(v.milestones, e) = v.milestones
  BY OtherTopic
<1>3. w.bounties = rebuildBountyState(v.bounties, e)
      /\ w.milestones = rebuildMilestones(v.milestones, e)
  BY <1>1 DEF TakeIn
<1>4. QED
  BY <1>1, <1>2, <1>3

LEMMA UserSettles ==
  ASSUME EscrowTypeOK, UserPublishes
  PROVE  IsCalm \/ IsCreation \/ IsClaim \/ IsRefund
<1>1. ASSUME NEW f \in Funders, NEW t \in Token, NEW i \in Issue, NEW l \in MilestoneLists,
             create_bounty(f, t, i, l),
             Publishes(Event("bounty_created", i, 0, f, [token |-> t, amount |-> Total(l)]))
      PROVE  IsCreation
  <2>1. PICK e : e = Event("bounty_created", i, 0, f, [token |-> t, amount |-> Total(l)])
    OBVIOUS
  <2>2. TakeIn(CaughtUp, CaughtUp', e) /\ e.topic # "milestone_released"
    BY <1>1, <2>1, EventTopic DEF Publishes
  <2>3. /\ CaughtUp'.milestones = CaughtUp.milestones
        /\ CaughtUp'.bounties = rebuildBountyState(CaughtUp.bounties, e)
    BY <2>2, BountyTakeIn
  <2>4. QED
    BY <1>1, <2>1, <2>3 DEF IsCreation
<1>2. ASSUME NEW i \in Issue, NEW w \in Workers, claim(i, w),
             Publishes(Event("contributor_claimed", i, 0, w, 0))
      PROVE  IsClaim
  <2>1. PICK e : e = Event("contributor_claimed", i, 0, w, 0)
    OBVIOUS
  <2>2. TakeIn(CaughtUp, CaughtUp', e) /\ e.topic # "milestone_released"
    BY <1>2, <2>1, EventTopic DEF Publishes
  <2>3. /\ CaughtUp'.milestones = CaughtUp.milestones
        /\ CaughtUp'.bounties = rebuildBountyState(CaughtUp.bounties, e)
    BY <2>2, BountyTakeIn
  <2>4. QED
    BY <1>2, <2>1, <2>3 DEF IsClaim
<1>3. ASSUME NEW i \in Issue, reclaim(i),
             Publishes(Event("bounty_reclaimed", i, 0, bounty[i].funder, 0))
      PROVE  IsRefund
  <2>1. PICK e : e = Event("bounty_reclaimed", i, 0, bounty[i].funder, 0)
    OBVIOUS
  <2>2. TakeIn(CaughtUp, CaughtUp', e) /\ e.topic # "milestone_released"
    BY <1>3, <2>1, EventTopic DEF Publishes
  <2>3. /\ CaughtUp'.milestones = CaughtUp.milestones
        /\ CaughtUp'.bounties = rebuildBountyState(CaughtUp.bounties, e)
    BY <2>2, BountyTakeIn
  <2>4. i \in DOMAIN bounty /\ ~bounty[i].released /\ RefundRemaining(i)
    BY <1>3 DEF reclaim
  <2>5. QED
    BY <2>1, <2>3, <2>4 DEF IsRefund
<1>4. ASSUME NEW v \in Address, NEW i \in Issue, NEW m \in Slot, NEW d \in Decision,
             submit_review(v, i, m, d), Publishes(Event("review_submitted", i, m, v, d))
      PROVE  IsCalm
  <2>1. PICK e : e = Event("review_submitted", i, m, v, d)
    OBVIOUS
  <2>2. TakeIn(CaughtUp, CaughtUp', e) /\ e.topic \notin BountyTopics
    BY <1>4, <2>1, EventTopic DEF Publishes, BountyTopics
  <2>3. SameSettledTables
    BY <2>2, OtherSettledTables
  <2>4. UNCHANGED <<bounty, paid, dispute>>
    BY <1>4 DEF submit_review
  <2>5. NoDecision
    BY <2>4, SameDecisions
  <2>6. QED
    BY <2>3, <2>4, <2>5 DEF IsCalm
<1>5. ASSUME NEW a \in Address, NEW i \in Issue, NEW m \in Slot, open_dispute(a, i, m),
             Publishes(Event("dispute_opened", i, Len(dispute) + 1, a, m))
      PROVE  IsCalm
  <2>1. PICK e : e = Event("dispute_opened", i, Len(dispute) + 1, a, m)
    OBVIOUS
  <2>2. TakeIn(CaughtUp, CaughtUp', e) /\ e.topic \notin BountyTopics
    BY <1>5, <2>1, EventTopic DEF Publishes, BountyTopics
  <2>3. SameSettledTables
    BY <2>2, OtherSettledTables
  <2>4. UNCHANGED <<bounty, paid>>
    BY <1>5 DEF open_dispute
  <2>5. NoDecision
    BY <1>5, OpenedDecisions
  <2>6. QED
    BY <2>3, <2>4, <2>5 DEF IsCalm
<1>6. ASSUME NEW v \in Address, NEW id \in 1..MaxDisputes, NEW pay \in BOOLEAN,
             vote_on_dispute(v, id, pay),
             Publishes(Event("dispute_vote_cast", NoOne, id, v, pay))
      PROVE  IsCalm
  <2>1. PICK e : e = Event("dispute_vote_cast", NoOne, id, v, pay)
    OBVIOUS
  <2>2. TakeIn(CaughtUp, CaughtUp', e) /\ e.topic \notin BountyTopics
    BY <1>6, <2>1, EventTopic DEF Publishes, BountyTopics
  <2>3. SameSettledTables
    BY <2>2, OtherSettledTables
  <2>4. UNCHANGED <<bounty, paid>>
    BY <1>6 DEF vote_on_dispute
  <2>5. NoDecision
    BY <1>6, VotedDecisions
  <2>6. QED
    BY <2>3, <2>4, <2>5 DEF IsCalm
<1>7. QED
  BY <1>1, <1>2, <1>3, <1>4, <1>5, <1>6 DEF UserPublishes

LEMMA ExecuteSettles ==
  ASSUME EscrowTypeOK, NEW a \in Proposable, Executes(a)
  PROVE  IsCalm \/ IsRelease \/ IsRefund \/ IsPanel \/ IsDecision
<1>1. PICK e : e = OwnEvent(a)
  OBVIOUS
<1>2. Execute(a) /\ TakeIn(CaughtUp, CaughtUp', e)
  BY <1>1 DEF Executes
<1>3. CASE a.kind = "Release"
  <2>1. PICK i, m : i = a.issue /\ m = a.milestone
    OBVIOUS
  <2>2. apply_release(i, m)
    BY <1>2, <1>3, <2>1 DEF Execute, execute_action
  <2>3. e = Event("milestone_released", i, m, bounty[i].contributor,
                  [amount |-> bounty[i].amounts[m],
                   released_amount |-> bounty'[i].released_amount])
    BY <1>1, <1>3, <2>1 DEF OwnEvent
  <2>4. /\ CaughtUp'.bounties = rebuildBountyState(CaughtUp.bounties, e)
        /\ CaughtUp'.milestones = rebuildMilestones(CaughtUp.milestones, e)
    BY <1>2 DEF TakeIn
  <2>5. QED
    BY <2>2, <2>3, <2>4 DEF IsRelease
<1>4. CASE a.kind = "Reclaim"
  <2>1. PICK i : i = a.issue
    OBVIOUS
  <2>2. i \in DOMAIN bounty /\ ~bounty[i].released /\ RefundRemaining(i)
    BY <1>2, <1>4, <2>1 DEF Execute, execute_action, apply_reclaim
  <2>3. e = Event("bounty_refunded", i, 0, bounty[i].funder, 0)
    BY <1>1, <1>4, <2>1 DEF OwnEvent
  <2>4. e.topic # "milestone_released"
    BY <2>3, EventTopic
  <2>5. /\ CaughtUp'.milestones = CaughtUp.milestones
        /\ CaughtUp'.bounties = rebuildBountyState(CaughtUp.bounties, e)
    BY <1>2, <2>4, BountyTakeIn
  <2>6. QED
    BY <2>2, <2>3, <2>5 DEF IsRefund
<1>5. CASE a.kind = "SetReviewers"
  <2>1. apply_set_reviewers(a.issue, a.reviewers, a.quorum)
    BY <1>2, <1>5 DEF Execute, execute_action
  <2>2. e.topic = "reviewers_set"
    BY <1>1, <1>5, EventTopic DEF OwnEvent
  <2>3. SameSettledTables
    BY <1>2, <2>2, OtherSettledTables DEF BountyTopics
  <2>4. QED
    BY <2>1, <2>3 DEF IsPanel
<1>6. CASE a.kind = "ResolveDispute"
  <2>1. ResolveByPaying(a.id) \/ ResolveByRefunding(a.id)
    BY <1>2, <1>6 DEF Execute, execute_action
  <2>2. e.topic = "dispute_resolved"
    BY <1>1, <1>6, EventTopic DEF OwnEvent
  <2>3. SameSettledTables
    BY <1>2, <2>2, OtherSettledTables DEF BountyTopics
  <2>4. QED
    BY <2>1, <2>3 DEF IsDecision
<1>7. CASE a.kind = "SetSigners"
  <2>1. UNCHANGED <<bounty, paid, dispute>>
    BY <1>2, <1>7 DEF Execute, execute_action, escrowVars
  <2>2. e.topic = "signers_updated"
    BY <1>1, <1>7, EventTopic DEF OwnEvent
  <2>3. SameSettledTables
    BY <1>2, <2>2, OtherSettledTables DEF BountyTopics
  <2>4. NoDecision
    BY <2>1, SameDecisions
  <2>5. QED
    BY <2>1, <2>3, <2>4 DEF IsCalm
<1>8. QED
  BY <1>3, <1>4, <1>5, <1>6, <1>7, ProposableKinds DEF ActionKinds

Settles ==
  IsCalm \/ IsCreation \/ IsClaim \/ IsRefund \/ IsRelease \/ IsPanel \/ IsDecision

LEMMA StepSettles ==
  ASSUME GovernanceInv, PanelsFinite, TablesInv, [ReadNext]_readVars
  PROVE  Settles
<1>1. EscrowTypeOK
  BY DEF GovernanceInv, BountyTypeOK
<1>2. CASE Quiet
  <2>1. UNCHANGED <<bounty, paid, dispute>> /\ SameSettledTables
    BY <1>2 DEF Quiet, SameTables, SameSettledTables
  <2>2. QED
    BY <2>1, SameDecisions DEF IsCalm, Settles
<1>3. UserPublishes \/ Quiet \/ \E a \in Proposable : Executes(a)
  BY StepEffect DEF Moves
<1>4. QED
  BY <1>1, <1>2, <1>3, UserSettles, ExecuteSettles DEF Settles

-----------------------------------------------------------------------------
(* How each milestone was settled can be read off the tables.              *)

\* What was paid has a row or a dispute that paid it, never both; what else is
\* settled, in a bounty that was not reclaimed, was refunded by a dispute.
MilestonesInv ==
  /\ DOMAIN CaughtUp.milestones \cap (Decisions(TRUE) \cup Decisions(FALSE)) = {}
  /\ DOMAIN CaughtUp.milestones \cup Decisions(TRUE) = paid
  /\ \A i \in DOMAIN bounty : ~bounty[i].refunded =>
       \A m \in bounty[i].settled : <<i, m>> \in paid \cup Decisions(FALSE)

LEMMA DecisionsAreSettled ==
  ASSUME DecidedAreSettled, NEW pay, NEW i, NEW m, <<i, m>> \in Decisions(pay)
  PROVE  i \in DOMAIN bounty /\ m \in bounty[i].settled
BY DEF DecidedAreSettled, Decisions

\* Nothing is paid or decided, and what every bounty has settled is as it was or
\* the bounty is new or refunded.
LEMMA SameMilestones ==
  ASSUME MilestonesInv, CaughtUp'.milestones = CaughtUp.milestones,
         paid' = paid, NoDecision,
         \A i \in DOMAIN bounty' :
           \/ bounty'[i].refunded \/ bounty'[i].settled = {}
           \/ /\ i \in DOMAIN bounty /\ ~bounty[i].refunded
              /\ bounty'[i].settled = bounty[i].settled
  PROVE  MilestonesInv'
<1>1. Decisions(TRUE)' = Decisions(TRUE) /\ Decisions(FALSE)' = Decisions(FALSE)
  BY DEF NoDecision
<1>2. ASSUME NEW i \in DOMAIN bounty', ~bounty'[i].refunded, NEW m \in bounty'[i].settled
      PROVE  <<i, m>> \in paid \cup Decisions(FALSE)
  BY <1>2 DEF MilestonesInv
<1>3. QED
  BY <1>1, <1>2 DEF MilestonesInv

\* Replacing one bounty.
LEMMA ReplacedOne ==
  ASSUME EscrowTypeOK, NEW i \in DOMAIN bounty, NEW c, bounty' = [bounty EXCEPT ![i] = c]
  PROVE  /\ DOMAIN bounty' = DOMAIN bounty /\ bounty'[i] = c
         /\ \A j \in DOMAIN bounty : j # i => bounty'[j] = bounty[j]
BY DEF EscrowTypeOK

LEMMA ClaimParts ==
  ASSUME EscrowTypeOK, NEW i \in Issue, NEW w, claim(i, w)
  PROVE  /\ i \in DOMAIN bounty /\ ~bounty[i].released
         /\ bounty[i].contributor = NoOne
         /\ UNCHANGED <<dispute, paid>>
         /\ \E c : /\ bounty' = [bounty EXCEPT ![i] = c]
                   /\ c.contributor = w /\ c.funder = bounty[i].funder
                   /\ c.token = bounty[i].token /\ c.amounts = bounty[i].amounts
                   /\ c.amount = bounty[i].amount /\ c.settled = bounty[i].settled
                   /\ c.released = bounty[i].released /\ c.refunded = bounty[i].refunded
                   /\ c.released_amount = bounty[i].released_amount
<1>1. i \in DOMAIN bounty
  BY DEF claim
<1>2. PICK b, c : b = bounty[i] /\ c = [b EXCEPT !.contributor = w]
  OBVIOUS
<1>3. b \in Bounty
  BY <1>1, <1>2, StoredBounty
<1>4. bounty' = [bounty EXCEPT ![i] = c]
  BY <1>1, <1>2 DEF claim
<1>5. /\ c.contributor = w /\ c.funder = b.funder /\ c.token = b.token
      /\ c.amounts = b.amounts /\ c.amount = b.amount /\ c.settled = b.settled
      /\ c.released = b.released /\ c.refunded = b.refunded
      /\ c.released_amount = b.released_amount
  BY <1>2, <1>3 DEF Bounty
<1>6. ~bounty[i].released /\ bounty[i].contributor = NoOne /\ UNCHANGED <<dispute, paid>>
  BY DEF claim
<1>7. QED
  BY <1>1, <1>2, <1>4, <1>5, <1>6

LEMMA PanelParts ==
  ASSUME EscrowTypeOK, NEW i, NEW rs, NEW q, apply_set_reviewers(i, rs, q)
  PROVE  /\ i \in DOMAIN bounty /\ ~bounty[i].released
         /\ UNCHANGED <<dispute, paid>>
         /\ \E c : /\ bounty' = [bounty EXCEPT ![i] = c]
                   /\ c.contributor = bounty[i].contributor /\ c.funder = bounty[i].funder
                   /\ c.token = bounty[i].token /\ c.amounts = bounty[i].amounts
                   /\ c.amount = bounty[i].amount /\ c.settled = bounty[i].settled
                   /\ c.released = bounty[i].released /\ c.refunded = bounty[i].refunded
                   /\ c.released_amount = bounty[i].released_amount
<1>1. i \in DOMAIN bounty
  BY DEF apply_set_reviewers
<1>2. PICK b, c, s : /\ b = bounty[i] /\ s = Members(rs)
                     /\ c = [b EXCEPT !.reviewers = s, !.reviewer_quorum = q]
  OBVIOUS
<1>3. b \in Bounty
  BY <1>1, <1>2, StoredBounty
<1>4. bounty' = [bounty EXCEPT ![i] = c]
  BY <1>1, <1>2, StoredBounty DEF apply_set_reviewers
<1>5. /\ c.contributor = b.contributor /\ c.funder = b.funder /\ c.token = b.token
      /\ c.amounts = b.amounts /\ c.amount = b.amount /\ c.settled = b.settled
      /\ c.released = b.released /\ c.refunded = b.refunded
      /\ c.released_amount = b.released_amount
  BY <1>2, <1>3 DEF Bounty
<1>6. ~bounty[i].released /\ UNCHANGED <<dispute, paid>>
  BY DEF apply_set_reviewers
<1>7. QED
  BY <1>1, <1>2, <1>4, <1>5, <1>6

LEMMA RefundParts ==
  ASSUME EscrowTypeOK, NEW i \in DOMAIN bounty, RefundRemaining(i)
  PROVE  /\ UNCHANGED <<dispute, paid>>
         /\ \E c : /\ bounty' = [bounty EXCEPT ![i] = c]
                   /\ c.contributor = bounty[i].contributor /\ c.funder = bounty[i].funder
                   /\ c.token = bounty[i].token /\ c.amounts = bounty[i].amounts
                   /\ c.amount = bounty[i].amount
                   /\ c.released = TRUE /\ c.refunded = TRUE
                   /\ c.released_amount = bounty[i].released_amount
<1>1. PICK b, c, s : /\ b = bounty[i] /\ s = Milestones(b)
                     /\ c = [b EXCEPT !.settled = s, !.released = TRUE, !.refunded = TRUE]
  OBVIOUS
<1>2. b \in Bounty
  BY <1>1, StoredBounty
<1>3. bounty' = [bounty EXCEPT ![i] = c] /\ UNCHANGED <<dispute, paid>>
  BY <1>1 DEF RefundRemaining
<1>4. /\ c.contributor = b.contributor /\ c.funder = b.funder /\ c.token = b.token
      /\ c.amounts = b.amounts /\ c.amount = b.amount
      /\ c.released = TRUE /\ c.refunded = TRUE
      /\ c.released_amount = b.released_amount
  BY <1>1, <1>2 DEF Bounty
<1>5. QED
  BY <1>1, <1>3, <1>4

\* Paying a milestone leaves the terms alone.
LEMMA ReleasedParts ==
  ASSUME NEW b \in Bounty, NEW m \in Milestones(b), NEW c, c = Pay(b, m)
  PROVE  /\ c.amounts = b.amounts /\ c.amount = b.amount /\ c.token = b.token
         /\ c.funder = b.funder /\ c.contributor = b.contributor
         /\ c.refunded = b.refunded /\ c.settled = b.settled \cup {m}
<1>1. /\ c.amounts = b.amounts /\ c.amount = b.amount /\ c.token = b.token
      /\ c.funder = b.funder /\ c.contributor = b.contributor
      /\ c.reviewers = b.reviewers /\ c.reviewer_quorum = b.reviewer_quorum
      /\ c.refunded = b.refunded /\ c.settled = b.settled \cup {m}
      /\ c = Settle(b, {m}) => c.released_amount = b.released_amount
      /\ c = Pay(b, m) => c.released_amount = SatAdd(b.released_amount, b.amounts[m])
  BY PayParts
<1>2. QED
  BY <1>1

LEMMA ReleaseMilestones ==
  ASSUME EscrowTypeOK, DecidedAreSettled, MilestonesInv, IsRelease
  PROVE  MilestonesInv'
<1>1. PICK i, m, e :
        /\ apply_release(i, m)
        /\ e = Event("milestone_released", i, m, bounty[i].contributor,
                     [amount |-> bounty[i].amounts[m],
                      released_amount |-> bounty'[i].released_amount])
        /\ CaughtUp'.milestones = rebuildMilestones(CaughtUp.milestones, e)
  BY DEF IsRelease
<1>2. PICK b, c : b = bounty[i] /\ c = Pay(b, m)
  OBVIOUS
<1>3. /\ i \in DOMAIN bounty /\ b \in Bounty /\ m \in Milestones(b) /\ m \notin b.settled
      /\ bounty' = [bounty EXCEPT ![i] = c]
      /\ paid' = paid \cup {<<i, m>>} /\ dispute' = dispute
  BY <1>1, <1>2, StoredBounty DEF apply_release
<1>4. c.settled = b.settled \cup {m} /\ c.refunded = b.refunded
  BY <1>2, <1>3, ReleasedParts
<1>5. /\ DOMAIN bounty' = DOMAIN bounty /\ bounty'[i] = c
      /\ \A j \in DOMAIN bounty : j # i => bounty'[j] = bounty[j]
  BY <1>3, ReplacedOne
<1>6. e.topic = "milestone_released" /\ e.issue = i /\ e.milestone = m
  BY <1>1 DEF Event
<1>7. DOMAIN CaughtUp'.milestones = DOMAIN CaughtUp.milestones \cup {<<i, m>>}
  <2>1. PICK t, n : t = CaughtUp.milestones /\ n = e.value.amount
    OBVIOUS
  <2>2. CaughtUp'.milestones = Put(t, <<i, m>>, n)
    BY <1>1, <1>6, <2>1 DEF rebuildMilestones
  <2>3. QED
    BY <2>1, <2>2 DEF Put
<1>8. \A pay : Decisions(pay)' = Decisions(pay)
  BY <1>3 DEF Decisions
<1>9. <<i, m>> \notin Decisions(TRUE) \cup Decisions(FALSE)
  BY <1>2, <1>3, DecisionsAreSettled
<1>10. ASSUME NEW j \in DOMAIN bounty', ~bounty'[j].refunded, NEW n \in bounty'[j].settled
       PROVE  <<j, n>> \in paid' \cup Decisions(FALSE)
  <2>1. CASE j = i
    BY <1>2, <1>3, <1>4, <1>5, <1>10, <2>1 DEF MilestonesInv
  <2>2. CASE j # i
    BY <1>3, <1>5, <1>10, <2>2 DEF MilestonesInv
  <2>3. QED
    BY <2>1, <2>2
<1>11. QED
  BY <1>3, <1>7, <1>8, <1>9, <1>10 DEF MilestonesInv

LEMMA DecisionMilestones ==
  ASSUME EscrowTypeOK, PaidAreSettled, MilestonesInv, IsDecision
  PROVE  MilestonesInv'
<1>1. PICK id : ResolveByPaying(id) \/ ResolveByRefunding(id)
  BY DEF IsDecision
<1>2. PICK pay \in BOOLEAN :
        (pay = TRUE /\ ResolveByPaying(id)) \/ (pay = FALSE /\ ResolveByRefunding(id))
  BY <1>1
<1>3. PICK i, m : i = dispute[id].issue /\ m = dispute[id].milestone
  OBVIOUS
<1>4. /\ Resolvable(id, pay) /\ ResolutionRecorded(id, pay)
      /\ paid' = IF pay = TRUE THEN paid \cup {<<i, m>>} ELSE paid
  BY <1>2, <1>3 DEF ResolveByPaying, ResolveByRefunding
<1>5. PICK b, c : /\ b = bounty[i] /\ (c = Settle(b, {m}) \/ c = Pay(b, m))
                  /\ bounty' = [bounty EXCEPT ![i] = c]
  BY <1>2, <1>3 DEF ResolveByPaying, ResolveByRefunding
<1>6. i \in DOMAIN bounty /\ b \in Bounty /\ m \in Milestones(b) /\ m \notin b.settled
  BY <1>3, <1>4, <1>5, StoredBounty DEF Resolvable
<1>7. c.settled = b.settled \cup {m} /\ c.refunded = b.refunded
  BY <1>5, <1>6, PayParts
<1>8. /\ DOMAIN bounty' = DOMAIN bounty /\ bounty'[i] = c
      /\ \A j \in DOMAIN bounty : j # i => bounty'[j] = bounty[j]
  BY <1>5, <1>6, ReplacedOne
<1>9. \A out : Decisions(out)' = IF out = pay THEN Decisions(out) \cup {<<i, m>>}
                                 ELSE Decisions(out)
  BY <1>3, <1>4, ResolvedDecisions
<1>10. <<i, m>> \notin paid
  BY <1>5, <1>6 DEF PaidAreSettled
<1>11. CaughtUp'.milestones = CaughtUp.milestones
  BY DEF IsDecision, SameSettledTables
<1>12. ASSUME NEW j \in DOMAIN bounty', ~bounty'[j].refunded, NEW n \in bounty'[j].settled
       PROVE  <<j, n>> \in paid' \cup Decisions(FALSE)'
  <2>1. <<j, n>> \in paid \cup Decisions(FALSE) \cup {<<i, m>>}
    <3>1. CASE j = i
      BY <1>5, <1>6, <1>7, <1>8, <1>12, <3>1 DEF MilestonesInv
    <3>2. CASE j # i
      <4>1. j \in DOMAIN bounty /\ ~bounty[j].refunded /\ n \in bounty[j].settled
        BY <1>8, <1>12, <3>2
      <4>2. <<j, n>> \in paid \cup Decisions(FALSE)
        BY <4>1 DEF MilestonesInv
      <4>3. QED
        BY <4>2
    <3>3. QED
      BY <3>1, <3>2
  <2>2. paid \cup Decisions(FALSE) \cup {<<i, m>>} \subseteq paid' \cup Decisions(FALSE)'
    BY <1>4, <1>9
  <2>3. QED
    BY <2>1, <2>2
<1>13. QED
  BY <1>4, <1>9, <1>10, <1>11, <1>12 DEF MilestonesInv

LEMMA MilestonesStep ==
  ASSUME EscrowTypeOK, PaidAreSettled, DecidedAreSettled, RefundedAreClosed,
         MilestonesInv, Settles
  PROVE  MilestonesInv'
<1>1. CASE IsCalm
  BY <1>1 DEF IsCalm, SameSettledTables, NoDecision, MilestonesInv
<1>2. CASE IsCreation
  <2>1. PICK f \in Funders, t \in Token, i \in Issue, l \in MilestoneLists :
          create_bounty(f, t, i, l)
    BY <1>2 DEF IsCreation
  <2>2. /\ UNCHANGED <<dispute, paid>> /\ i \notin DOMAIN bounty
        /\ DOMAIN bounty' = DOMAIN bounty \cup {i}
        /\ bounty'[i].settled = {}
        /\ \A j \in DOMAIN bounty : bounty'[j] = bounty[j]
    BY <2>1 DEF create_bounty, Put
  <2>3. NoDecision
    BY <2>2, SameDecisions
  <2>4. CaughtUp'.milestones = CaughtUp.milestones
    BY <1>2 DEF IsCreation
  <2>5. ASSUME NEW j \in DOMAIN bounty'
        PROVE  \/ bounty'[j].refunded \/ bounty'[j].settled = {}
               \/ /\ j \in DOMAIN bounty /\ ~bounty[j].refunded
                  /\ bounty'[j].settled = bounty[j].settled
    BY <2>2
  <2>6. QED
    BY <2>2, <2>3, <2>4, <2>5, SameMilestones
<1>3. ASSUME NEW i \in DOMAIN bounty, NEW c, bounty' = [bounty EXCEPT ![i] = c],
             UNCHANGED <<dispute, paid>>, ~bounty[i].released,
             c.refunded = TRUE \/ (/\ c.settled = bounty[i].settled
                                   /\ c.refunded = bounty[i].refunded),
             CaughtUp'.milestones = CaughtUp.milestones
      PROVE  MilestonesInv'
  <2>1. /\ DOMAIN bounty' = DOMAIN bounty /\ bounty'[i] = c
        /\ \A j \in DOMAIN bounty : j # i => bounty'[j] = bounty[j]
    BY <1>3, ReplacedOne
  <2>2. NoDecision
    BY <1>3, SameDecisions
  <2>3. ASSUME NEW j \in DOMAIN bounty'
        PROVE  \/ bounty'[j].refunded \/ bounty'[j].settled = {}
               \/ /\ j \in DOMAIN bounty /\ ~bounty[j].refunded
                  /\ bounty'[j].settled = bounty[j].settled
    BY <1>3, <2>1 DEF RefundedAreClosed
  <2>4. QED
    BY <1>3, <2>2, <2>3, SameMilestones
<1>4. CASE IsClaim
  <2>1. PICK i \in Issue, w \in Workers : claim(i, w)
    BY <1>4 DEF IsClaim
  <2>2. CaughtUp'.milestones = CaughtUp.milestones
    BY <1>4 DEF IsClaim
  <2>3. PICK c : /\ bounty' = [bounty EXCEPT ![i] = c]
                 /\ c.settled = bounty[i].settled /\ c.refunded = bounty[i].refunded
    BY <2>1, ClaimParts
  <2>4. i \in DOMAIN bounty /\ ~bounty[i].released /\ UNCHANGED <<dispute, paid>>
    BY <2>1, ClaimParts
  <2>5. QED
    BY <1>3, <2>2, <2>3, <2>4
<1>5. CASE IsRefund
  <2>1. PICK i \in DOMAIN bounty : ~bounty[i].released /\ RefundRemaining(i)
    BY <1>5 DEF IsRefund
  <2>2. CaughtUp'.milestones = CaughtUp.milestones
    BY <1>5 DEF IsRefund
  <2>3. QED
    BY <1>3, <2>1, <2>2, RefundParts
<1>6. CASE IsPanel
  <2>1. PICK i, rs, q : apply_set_reviewers(i, rs, q)
    BY <1>6 DEF IsPanel
  <2>2. CaughtUp'.milestones = CaughtUp.milestones
    BY <1>6 DEF IsPanel, SameSettledTables
  <2>3. QED
    BY <1>3, <2>1, <2>2, PanelParts
<1>7. QED
  BY <1>1, <1>2, <1>4, <1>5, <1>6, ReleaseMilestones, DecisionMilestones DEF Settles

-----------------------------------------------------------------------------
(* The rows of the bounties table.                                         *)

\* A milestone of bounty i that a dispute has paid, or decided either way.
PaidSome(i) == \E m : <<i, m>> \in Decisions(TRUE)
DecidedSome(i) == PaidSome(i) \/ \E m : <<i, m>> \in Decisions(FALSE)

BountyRow ==
  [funder: Address \cup {NoOne}, contributor: Address \cup {NoOne},
   token: Token \cup {NoOne}, amount: 0..MaxI128,
   released: BOOLEAN, refunded: BOOLEAN, released_amount: 0..MaxI128]

\* Row r tells of bounty b all but what disputes have paid and decided.
RowTells(r, b, paying, deciding) ==
  /\ r \in BountyRow
  /\ r.funder = b.funder /\ r.contributor = b.contributor /\ r.token = b.token
  /\ r.amount = b.amount /\ b.amount = Total(b.amounts)
  /\ r.refunded = b.refunded
  /\ r.released_amount <= b.released_amount
  /\ paying \/ r.released_amount = b.released_amount
  /\ r.released => b.refunded \/ Number[r.released_amount] >= Number[r.amount]
  /\ b.released => deciding \/ r.released

RowsInv ==
  /\ DOMAIN CaughtUp.bounties = DOMAIN bounty
  /\ \A i \in DOMAIN bounty :
       RowTells(CaughtUp.bounties[i], bounty[i], PaidSome(i), DecidedSome(i))

\* A bounty that was paid out in full by releases has released its amount.
LEMMA ClosedByReleases ==
  ASSUME EscrowTypeOK, SettlementInv, AccountsExact, MilestonesInv,
         NEW i \in DOMAIN bounty, bounty[i].released, ~bounty[i].refunded, ~DecidedSome(i)
  PROVE  bounty[i].released_amount = Total(bounty[i].amounts)
<1>1. PICK b : b = bounty[i]
  OBVIOUS
<1>2. b \in Bounty /\ b.amounts \in MilestoneLists
  BY <1>1, StoredBounty DEF Bounty
<1>3. b.settled = Milestones(b)
  BY <1>1 DEF SettlementInv, ReleasedMeansAllSettled
<1>4. PaidMilestones(i) \subseteq b.settled /\ Milestones(b) \subseteq Slot
  BY <1>1, LeftType
<1>5. \A m \in b.settled : <<i, m>> \in paid
  BY <1>1 DEF MilestonesInv, DecidedSome
<1>6. PaidMilestones(i) = DOMAIN b.amounts
  BY <1>3, <1>4, <1>5 DEF PaidMilestones, Milestones
<1>7. b.released_amount = SatAdd(0, Sum(b.amounts, PaidMilestones(i)))
  BY <1>1 DEF AccountsExact, SumOf, Sum
<1>8. Total(b.amounts) = SatAdd(0, Sum(b.amounts, DOMAIN b.amounts))
  BY <1>2, TotalIsSum
<1>9. QED
  BY <1>1, <1>6, <1>7, <1>8

\* One row and one bounty change.
LEMMA RowsFrame ==
  ASSUME RowsInv, NEW i,
         DOMAIN bounty' = DOMAIN bounty \cup {i},
         DOMAIN CaughtUp'.bounties = DOMAIN CaughtUp.bounties \cup {i},
         \A j \in DOMAIN bounty : j # i =>
           /\ bounty'[j] = bounty[j] /\ CaughtUp'.bounties[j] = CaughtUp.bounties[j]
           /\ PaidSome(j)' = PaidSome(j) /\ DecidedSome(j)' = DecidedSome(j),
         RowTells(CaughtUp'.bounties[i], bounty'[i], PaidSome(i)', DecidedSome(i)')
  PROVE  RowsInv'
<1>1. DOMAIN CaughtUp'.bounties = DOMAIN bounty'
  BY DEF RowsInv
<1>2. ASSUME NEW j \in DOMAIN bounty'
      PROVE  RowTells(CaughtUp'.bounties[j], bounty'[j], PaidSome(j)', DecidedSome(j)')
  <2>1. CASE j = i
    BY <2>1
  <2>2. CASE j # i
    <3>1. j \in DOMAIN bounty
      BY <2>2
    <3>2. RowTells(CaughtUp.bounties[j], bounty[j], PaidSome(j), DecidedSome(j))
      BY <3>1 DEF RowsInv
    <3>3. QED
      BY <2>2, <3>1, <3>2
  <2>3. QED
    BY <2>1, <2>2
<1>3. QED
  BY <1>1, <1>2 DEF RowsInv

LEMMA SameSome ==
  ASSUME NoDecision, NEW i
  PROVE  PaidSome(i)' = PaidSome(i) /\ DecidedSome(i)' = DecidedSome(i)
BY DEF NoDecision, PaidSome, DecidedSome

\* What an event does to the row of its bounty.
CreatedFrom(r, f, t, n) == [r EXCEPT !.funder = f, !.token = t, !.amount = n]

ClaimedBy(r, w) == [r EXCEPT !.contributor = w]

ReleasedTo(r, w, n) ==
  [r EXCEPT !.contributor = w, !.released_amount = n,
            !.released = (Number[n] >= Number[r.amount])]

LEMMA ReleasedRow ==
  ASSUME NEW r \in BountyRow, NEW w \in Address \cup {NoOne}, NEW n \in 0..MaxI128
  PROVE  LET s == ReleasedTo(r, w, n)
         IN  /\ s \in BountyRow /\ s.funder = r.funder /\ s.contributor = w
             /\ s.token = r.token /\ s.amount = r.amount
             /\ s.refunded = r.refunded /\ s.released_amount = n
             /\ s.released <=> Number[n] >= Number[r.amount]
<1>1. PICK s : s = ReleasedTo(r, w, n)
  OBVIOUS
<1>2. PICK full \in BOOLEAN : full <=> Number[n] >= Number[r.amount]
  <2>1. CASE Number[n] >= Number[r.amount]
    BY <2>1
  <2>2. CASE ~(Number[n] >= Number[r.amount])
    BY <2>2
  <2>3. QED
    BY <2>1, <2>2
<1>3. full = (Number[n] >= Number[r.amount])
  BY <1>2
<1>4. s = [r EXCEPT !.contributor = w, !.released_amount = n, !.released = full]
  BY <1>1, <1>3, Zenon DEF ReleasedTo
<1>5. /\ s \in BountyRow /\ s.funder = r.funder /\ s.contributor = w
      /\ s.token = r.token /\ s.amount = r.amount /\ s.released = full
      /\ s.refunded = r.refunded /\ s.released_amount = n
  BY <1>4 DEF BountyRow
<1>6. QED
  BY <1>1, <1>2, <1>5, Zenon

LEMMA BountyEvent ==
  ASSUME NEW t, NEW e, NEW r, r = Lookup(t, e.issue, NoRow)
  PROVE  /\ e.topic = "bounty_created" =>
              rebuildBountyState(t, e) =
                Put(t, e.issue, CreatedFrom(r, e.who, e.value.token, e.value.amount))
         /\ e.topic = "contributor_claimed" =>
              rebuildBountyState(t, e) = Put(t, e.issue, ClaimedBy(r, e.who))
         /\ e.topic = "milestone_released" =>
              rebuildBountyState(t, e) =
                Put(t, e.issue, ReleasedTo(r, e.who, e.value.released_amount))
         /\ e.topic \in {"bounty_reclaimed", "bounty_refunded"} =>
              rebuildBountyState(t, e) = Put(t, e.issue, Refunded(r))
<1>1. LET row == Lookup(t, e.issue, NoRow)
      IN  /\ e.topic = "bounty_created" =>
               rebuildBountyState(t, e) =
                 Put(t, e.issue, CreatedFrom(row, e.who, e.value.token, e.value.amount))
          /\ e.topic = "contributor_claimed" =>
               rebuildBountyState(t, e) = Put(t, e.issue, ClaimedBy(row, e.who))
          /\ e.topic = "milestone_released" =>
               rebuildBountyState(t, e) =
                 Put(t, e.issue, ReleasedTo(row, e.who, e.value.released_amount))
          /\ e.topic \in {"bounty_reclaimed", "bounty_refunded"} =>
               rebuildBountyState(t, e) = Put(t, e.issue, Refunded(row))
  BY DEF rebuildBountyState, ReleasedSoFar, CreatedFrom, ClaimedBy, ReleasedTo
<1>2. QED
  BY <1>1

\* The row of a bounty whose only change is a new payee or panel, or nothing.
LEMMA TermsTell ==
  ASSUME NEW r, NEW b, NEW paying, NEW deciding, RowTells(r, b, paying, deciding),
         NEW c, c.funder = b.funder, c.token = b.token, c.amounts = b.amounts,
         c.amount = b.amount, c.released = b.released, c.refunded = b.refunded,
         c.released_amount = b.released_amount, c.contributor \in Address \cup {NoOne},
         NEW s, s = ClaimedBy(r, c.contributor)
  PROVE  RowTells(s, c, paying, deciding)
<1>1. r \in BountyRow
  BY DEF RowTells
<1>2. /\ s \in BountyRow /\ s.funder = r.funder /\ s.contributor = c.contributor
      /\ s.token = r.token /\ s.amount = r.amount /\ s.released = r.released
      /\ s.refunded = r.refunded /\ s.released_amount = r.released_amount
  BY <1>1 DEF BountyRow, ClaimedBy
<1>3. QED
  BY <1>2 DEF RowTells

LEMMA CreationRows ==
  ASSUME EscrowTypeOK, DecidedAreSettled, RowsInv, IsCreation
  PROVE  RowsInv'
<1> PICK f \in Funders, t \in Token, i \in Issue, l \in MilestoneLists : \E e :
       /\ create_bounty(f, t, i, l)
       /\ e = Event("bounty_created", i, 0, f, [token |-> t, amount |-> Total(l)])
       /\ CaughtUp'.bounties = rebuildBountyState(CaughtUp.bounties, e)
  BY DEF IsCreation
<1>1. PICK e :
        /\ create_bounty(f, t, i, l)
        /\ e = Event("bounty_created", i, 0, f, [token |-> t, amount |-> Total(l)])
        /\ CaughtUp'.bounties = rebuildBountyState(CaughtUp.bounties, e)
  OBVIOUS
<1>2. PICK b : b = [funder |-> f, contributor |-> NoOne, token |-> t,
                    amounts |-> l, amount |-> Total(l), settled |-> {},
                    released |-> FALSE, refunded |-> FALSE, released_amount |-> 0,
                    reviewers |-> {}, reviewer_quorum |-> 0]
  OBVIOUS
<1>3. bounty' = Put(bounty, i, b) /\ i \notin DOMAIN bounty /\ dispute' = dispute
  BY <1>1, <1>2 DEF create_bounty
<1>4. PICK v, w, r : /\ v = CaughtUp.bounties /\ w = CaughtUp'.bounties
                     /\ r = CreatedFrom(NoRow, f, t, Total(l))
  OBVIOUS
<1>5. w = Put(v, i, r)
  <2>1. /\ e.topic = "bounty_created" /\ e.issue = i /\ e.who = f
        /\ e.value.token = t /\ e.value.amount = Total(l)
    BY <1>1 DEF Event
  <2>2. Lookup(v, i, NoRow) = NoRow
    BY <1>3, <1>4 DEF Lookup, RowsInv
  <2>3. w = rebuildBountyState(v, e)
    BY <1>1, <1>4
  <2>4. QED
    BY <1>4, <2>1, <2>2, <2>3, BountyEvent
<1>6. NoDecision
  BY <1>3, SameDecisions
<1>7. /\ DOMAIN bounty' = DOMAIN bounty \cup {i} /\ bounty'[i] = b
      /\ \A j \in DOMAIN bounty : j # i => bounty'[j] = bounty[j]
      /\ DOMAIN w = DOMAIN v \cup {i} /\ w[i] = r
      /\ \A j \in DOMAIN v : j # i => w[j] = v[j]
  BY <1>3, <1>5 DEF Put
<1>8. RowTells(r, b, PaidSome(i)', DecidedSome(i)')
  <2>1. Total(l) \in 0..MaxI128 /\ MaxI128 \in Nat /\ f \in Address
    BY TotalInRange, EscrowConstants, RegistryConstants
  <2>2. /\ r.funder = f /\ r.token = t /\ r.amount = Total(l) /\ r.contributor = NoOne
        /\ r.released = FALSE /\ r.refunded = FALSE /\ r.released_amount = 0
        /\ r \in BountyRow
    <3>1. PICK o : o = NoRow
      OBVIOUS
    <3>2. /\ o \in BountyRow /\ o.contributor = NoOne /\ o.released = FALSE
          /\ o.refunded = FALSE /\ o.released_amount = 0
      BY <2>1, <3>1 DEF NoRow, BountyRow
    <3>3. r = [o EXCEPT !.funder = f, !.token = t, !.amount = Total(l)]
      BY <1>4, <3>1 DEF CreatedFrom
    <3>4. QED
      BY <2>1, <3>2, <3>3 DEF BountyRow
  <2>3. /\ b.funder = f /\ b.contributor = NoOne /\ b.token = t
        /\ b.amounts = l /\ b.amount = Total(l)
        /\ b.released = FALSE /\ b.refunded = FALSE /\ b.released_amount = 0
    BY <1>2
  <2>4. 0 <= 0
    OBVIOUS
  <2>5. QED
    BY <2>2, <2>3, <2>4, Zenon DEF RowTells
<1>9. QED
  BY <1>4, <1>6, <1>7, <1>8, SameSome, RowsFrame DEF RowsInv

LEMMA TermsRows ==
  ASSUME EscrowTypeOK, RowsInv, NEW i \in DOMAIN bounty, NEW c,
         bounty' = [bounty EXCEPT ![i] = c], NoDecision,
         c.funder = bounty[i].funder, c.token = bounty[i].token,
         c.amounts = bounty[i].amounts, c.amount = bounty[i].amount,
         c.released = bounty[i].released, c.refunded = bounty[i].refunded,
         c.released_amount = bounty[i].released_amount,
         c.contributor \in Address \cup {NoOne},
         CaughtUp'.bounties =
           Put(CaughtUp.bounties, i, ClaimedBy(CaughtUp.bounties[i], c.contributor))
  PROVE  RowsInv'
<1>1. PICK v, w, b, s : /\ v = CaughtUp.bounties /\ w = CaughtUp'.bounties /\ b = bounty[i]
                        /\ s = ClaimedBy(v[i], c.contributor)
  OBVIOUS
<1>2. w = Put(v, i, s)
  BY <1>1
<1>3. /\ DOMAIN w = DOMAIN v \cup {i} /\ w[i] = s
      /\ \A j \in DOMAIN v : j # i => w[j] = v[j]
  BY <1>2 DEF Put
<1>4. /\ DOMAIN bounty' = DOMAIN bounty /\ bounty'[i] = c
      /\ \A j \in DOMAIN bounty : j # i => bounty'[j] = bounty[j]
  BY ReplacedOne
<1>5. RowTells(v[i], b, PaidSome(i), DecidedSome(i))
  BY <1>1 DEF RowsInv
<1>6. RowTells(s, c, PaidSome(i), DecidedSome(i))
  BY <1>1, <1>5, TermsTell
<1>7. QED
  BY <1>1, <1>3, <1>4, <1>6, SameSome, RowsFrame DEF RowsInv

LEMMA ClaimRows ==
  ASSUME EscrowTypeOK, RowsInv, IsClaim
  PROVE  RowsInv'
<1> PICK i \in Issue, w \in Workers : \E e :
       /\ claim(i, w) /\ e = Event("contributor_claimed", i, 0, w, 0)
       /\ CaughtUp'.bounties = rebuildBountyState(CaughtUp.bounties, e)
  BY DEF IsClaim
<1>1. PICK e :
        /\ claim(i, w) /\ e = Event("contributor_claimed", i, 0, w, 0)
        /\ CaughtUp'.bounties = rebuildBountyState(CaughtUp.bounties, e)
  OBVIOUS
<1>2. i \in DOMAIN bounty /\ UNCHANGED <<dispute, paid>>
  BY <1>1, ClaimParts
<1>3. PICK c : /\ bounty' = [bounty EXCEPT ![i] = c]
               /\ c.contributor = w /\ c.funder = bounty[i].funder
               /\ c.token = bounty[i].token /\ c.amounts = bounty[i].amounts
               /\ c.amount = bounty[i].amount
               /\ c.released = bounty[i].released /\ c.refunded = bounty[i].refunded
               /\ c.released_amount = bounty[i].released_amount
  BY <1>1, ClaimParts
<1>4. PICK v : v = CaughtUp.bounties
  OBVIOUS
<1>5. CaughtUp'.bounties = Put(v, i, ClaimedBy(v[i], w))
  <2>1. e.topic = "contributor_claimed" /\ e.issue = i /\ e.who = w
    BY <1>1 DEF Event
  <2>2. Lookup(v, i, NoRow) = v[i]
    BY <1>2, <1>4 DEF Lookup, RowsInv
  <2>3. QED
    BY <1>1, <1>4, <2>1, <2>2, BountyEvent
<1>6. NoDecision
  BY <1>2, SameDecisions
<1>7. w \in Address
  BY EscrowConstants
<1>8. QED
  BY <1>2, <1>3, <1>4, <1>5, <1>6, <1>7, TermsRows

LEMMA PanelRowsTell ==
  ASSUME EscrowTypeOK, RowsInv, IsPanel
  PROVE  RowsInv'
<1>1. PICK i, rs, q : apply_set_reviewers(i, rs, q)
  BY DEF IsPanel
<1>2. i \in DOMAIN bounty /\ UNCHANGED <<dispute, paid>>
  BY <1>1, PanelParts
<1>3. PICK c : /\ bounty' = [bounty EXCEPT ![i] = c]
               /\ c.contributor = bounty[i].contributor /\ c.funder = bounty[i].funder
               /\ c.token = bounty[i].token /\ c.amounts = bounty[i].amounts
               /\ c.amount = bounty[i].amount
               /\ c.released = bounty[i].released /\ c.refunded = bounty[i].refunded
               /\ c.released_amount = bounty[i].released_amount
  BY <1>1, PanelParts
<1>4. PICK v, r : v = CaughtUp.bounties /\ r = v[i]
  OBVIOUS
<1>5. /\ DOMAIN bounty' = DOMAIN bounty /\ bounty'[i] = c
      /\ \A j \in DOMAIN bounty : j # i => bounty'[j] = bounty[j]
  BY <1>2, <1>3, ReplacedOne
<1>6. NoDecision
  BY <1>2, SameDecisions
<1>7. RowTells(r, bounty[i], PaidSome(i), DecidedSome(i))
  BY <1>2, <1>4 DEF RowsInv
<1>8. RowTells(r, c, PaidSome(i), DecidedSome(i))
  BY <1>3, <1>7 DEF RowTells
<1>9. CaughtUp'.bounties = v /\ i \in DOMAIN v
  BY <1>2, <1>4 DEF IsPanel, SameSettledTables, RowsInv
<1>10. QED
  BY <1>2, <1>4, <1>5, <1>6, <1>8, <1>9, SameSome, RowsFrame

LEMMA RefundRows ==
  ASSUME EscrowTypeOK, RowsInv, IsRefund
  PROVE  RowsInv'
<1> PICK i \in DOMAIN bounty, t \in {"bounty_reclaimed", "bounty_refunded"} :
      /\ ~bounty[i].released /\ RefundRemaining(i)
      /\ CaughtUp'.bounties = rebuildBountyState(CaughtUp.bounties,
           Event(t, i, 0, bounty[i].funder, 0))
  BY DEF IsRefund
<1>1. PICK v, e, r : /\ v = CaughtUp.bounties /\ e = Event(t, i, 0, bounty[i].funder, 0)
                     /\ r = v[i]
  OBVIOUS
<1>2. PICK c : /\ bounty' = [bounty EXCEPT ![i] = c]
               /\ c.contributor = bounty[i].contributor /\ c.funder = bounty[i].funder
               /\ c.token = bounty[i].token /\ c.amounts = bounty[i].amounts
               /\ c.amount = bounty[i].amount
               /\ c.released = TRUE /\ c.refunded = TRUE
               /\ c.released_amount = bounty[i].released_amount
  BY RefundParts
<1>3. UNCHANGED <<dispute, paid>>
  BY RefundParts
<1>4. PICK s : s = Refunded(r)
  OBVIOUS
<1>5. CaughtUp'.bounties = Put(v, i, s)
  <2>1. e.topic \in {"bounty_reclaimed", "bounty_refunded"} /\ e.issue = i
    BY <1>1 DEF Event
  <2>2. Lookup(v, i, NoRow) = r
    BY <1>1 DEF Lookup, RowsInv
  <2>3. QED
    BY <1>1, <1>4, <2>1, <2>2, BountyEvent
<1>6. /\ DOMAIN Put(v, i, s) = DOMAIN v \cup {i} /\ Put(v, i, s)[i] = s
      /\ \A j \in DOMAIN v : j # i => Put(v, i, s)[j] = v[j]
  BY DEF Put
<1>7. /\ DOMAIN bounty' = DOMAIN bounty /\ bounty'[i] = c
      /\ \A j \in DOMAIN bounty : j # i => bounty'[j] = bounty[j]
  BY <1>2, ReplacedOne
<1>8. NoDecision
  BY <1>3, SameDecisions
<1>9. RowTells(r, bounty[i], PaidSome(i), DecidedSome(i))
  BY <1>1 DEF RowsInv
<1>10. RowTells(s, c, PaidSome(i), DecidedSome(i))
  <2>1. r \in BountyRow
    BY <1>9 DEF RowTells
  <2>2. /\ s \in BountyRow /\ s.funder = r.funder /\ s.contributor = r.contributor
        /\ s.token = r.token /\ s.amount = r.amount /\ s.released = TRUE
        /\ s.refunded = TRUE /\ s.released_amount = r.released_amount
    BY <1>4, <2>1 DEF Refunded, BountyRow
  <2>3. QED
    BY <1>2, <1>9, <2>2 DEF RowTells
<1>11. QED
  BY <1>1, <1>5, <1>6, <1>7, <1>8, <1>10, SameSome, RowsFrame DEF RowsInv

ClosedInFull ==
  \A i \in DOMAIN bounty :
    bounty[i].released /\ ~bounty[i].refunded /\ ~DecidedSome(i)
      => bounty[i].released_amount = Total(bounty[i].amounts)

LEMMA AllClosedInFull ==
  EscrowTypeOK /\ SettlementInv /\ AccountsExact /\ MilestonesInv => ClosedInFull
BY ClosedByReleases DEF ClosedInFull

LEMMA ReleaseRows ==
  ASSUME EscrowTypeOK, EscrowTypeOK', RefundedAreClosed, RowsInv, IsRelease, ClosedInFull'
  PROVE  RowsInv'
<1>1. PICK i, m, e :
        /\ apply_release(i, m)
        /\ e = Event("milestone_released", i, m, bounty[i].contributor,
                     [amount |-> bounty[i].amounts[m],
                      released_amount |-> bounty'[i].released_amount])
        /\ CaughtUp'.bounties = rebuildBountyState(CaughtUp.bounties, e)
  BY DEF IsRelease
<1>2. PICK b, c, v, r : /\ b = bounty[i] /\ c = Pay(b, m)
                        /\ v = CaughtUp.bounties /\ r = v[i]
  OBVIOUS
<1>3. /\ i \in DOMAIN bounty /\ b \in Bounty /\ m \in Milestones(b) /\ ~b.released
      /\ bounty' = [bounty EXCEPT ![i] = c] /\ dispute' = dispute
  BY <1>1, <1>2, StoredBounty DEF apply_release
<1>4. /\ c.amounts = b.amounts /\ c.amount = b.amount /\ c.token = b.token
      /\ c.funder = b.funder /\ c.contributor = b.contributor /\ c.refunded = b.refunded
  BY <1>2, <1>3, ReleasedParts
<1>5. /\ DOMAIN bounty' = DOMAIN bounty /\ bounty'[i] = c
      /\ \A j \in DOMAIN bounty : j # i => bounty'[j] = bounty[j]
  BY <1>3, ReplacedOne
<1>6. c \in Bounty /\ c.released_amount \in 0..MaxI128 /\ c.contributor \in Address \cup {NoOne}
  <2>1. c \in Bounty
    BY <1>2, <1>3, PayType
  <2>2. QED
    BY <2>1 DEF Bounty
<1>7. PICK s : s = ReleasedTo(r, b.contributor, c.released_amount)
  OBVIOUS
<1>8. CaughtUp'.bounties = Put(v, i, s)
  <2>1. /\ e.topic = "milestone_released" /\ e.issue = i /\ e.who = b.contributor
        /\ e.value.released_amount = c.released_amount
    BY <1>1, <1>2, <1>5 DEF Event
  <2>2. Lookup(v, i, NoRow) = r
    BY <1>2, <1>3 DEF Lookup, RowsInv
  <2>3. QED
    BY <1>1, <1>2, <1>7, <2>1, <2>2, BountyEvent
<1>9. /\ DOMAIN Put(v, i, s) = DOMAIN v \cup {i} /\ Put(v, i, s)[i] = s
      /\ \A j \in DOMAIN v : j # i => Put(v, i, s)[j] = v[j]
  BY DEF Put
<1>10. NoDecision
  BY <1>3, SameDecisions
<1>11. RowTells(r, b, PaidSome(i), DecidedSome(i))
  BY <1>2, <1>3 DEF RowsInv
<1>12. RowTells(s, c, PaidSome(i), DecidedSome(i))
  <2>1. r \in BountyRow /\ r.refunded = b.refunded /\ b.refunded = FALSE
    <3>1. b.refunded \in BOOLEAN
      BY <1>3 DEF Bounty
    <3>2. ~b.refunded
      BY <1>2, <1>3 DEF RefundedAreClosed
    <3>3. QED
      BY <1>11, <3>1, <3>2 DEF RowTells
  <2>2. PICK w, n : w = b.contributor /\ n = c.released_amount
    OBVIOUS
  <2>3. w \in Address \cup {NoOne} /\ n \in 0..MaxI128
    BY <1>3, <1>6, <2>2 DEF Bounty
  <2>4. /\ s \in BountyRow /\ s.funder = r.funder /\ s.contributor = w
        /\ s.token = r.token /\ s.amount = r.amount
        /\ s.refunded = r.refunded /\ s.released_amount = n
        /\ s.released <=> Number[n] >= Number[r.amount]
    BY <1>7, <2>1, <2>2, <2>3, ReleasedRow
  <2>5. c.released => DecidedSome(i) \/ s.released
    <3>1. SUFFICES ASSUME c.released, ~DecidedSome(i)  PROVE s.released
      OBVIOUS
    <3>2. ~DecidedSome(i)'
      BY <1>10, <3>1, SameSome
    <3>3. c.released_amount = Total(c.amounts)
      BY <1>3, <1>4, <1>5, <2>1, <3>1, <3>2 DEF ClosedInFull
    <3>4. r.amount = c.released_amount
      BY <1>4, <1>11, <3>3 DEF RowTells
    <3>5. Number[c.released_amount] \in Nat
      BY <1>6, NumberAssumption
    <3>6. QED
      BY <2>2, <2>4, <3>4, <3>5
  <2>6. n <= n
    BY <2>3, RegistryConstants
  <2>7. QED
    BY <1>4, <1>11, <2>2, <2>4, <2>5, <2>6, Zenon DEF RowTells
<1>13. QED
  BY <1>2, <1>3, <1>5, <1>8, <1>9, <1>10, <1>12, SameSome, RowsFrame DEF RowsInv

LEMMA DecisionRows ==
  ASSUME EscrowTypeOK, RowsInv, IsDecision
  PROVE  RowsInv'
<1>1. PICK id : ResolveByPaying(id) \/ ResolveByRefunding(id)
  BY DEF IsDecision
<1>2. PICK pay \in BOOLEAN :
        (pay = TRUE /\ ResolveByPaying(id)) \/ (pay = FALSE /\ ResolveByRefunding(id))
  BY <1>1
<1>3. PICK i, m : i = dispute[id].issue /\ m = dispute[id].milestone
  OBVIOUS
<1>4. Resolvable(id, pay) /\ ResolutionRecorded(id, pay)
  BY <1>2 DEF ResolveByPaying, ResolveByRefunding
<1>5. PICK b, c : /\ b = bounty[i]
                  /\ ((pay = FALSE /\ c = Settle(b, {m})) \/ (pay = TRUE /\ c = Pay(b, m)))
                  /\ bounty' = [bounty EXCEPT ![i] = c]
  BY <1>2, <1>3 DEF ResolveByPaying, ResolveByRefunding
<1>6. i \in DOMAIN bounty /\ b \in Bounty /\ m \in Milestones(b)
  BY <1>3, <1>4, <1>5, StoredBounty DEF Resolvable
<1>7. /\ c.amounts = b.amounts /\ c.amount = b.amount /\ c.token = b.token
      /\ c.funder = b.funder /\ c.contributor = b.contributor /\ c.refunded = b.refunded
      /\ c = Settle(b, {m}) => c.released_amount = b.released_amount
      /\ c = Pay(b, m) => c.released_amount = SatAdd(b.released_amount, b.amounts[m])
  <2>1. b \in Bounty /\ m \in Milestones(b) /\ (c = Settle(b, {m}) \/ c = Pay(b, m))
    BY <1>5, <1>6
  <2>2. QED
    BY <2>1, PayParts
<1>8. /\ DOMAIN bounty' = DOMAIN bounty /\ bounty'[i] = c
      /\ \A j \in DOMAIN bounty : j # i => bounty'[j] = bounty[j]
  BY <1>5, <1>6, ReplacedOne
<1>9. \A out : Decisions(out)' = IF out = pay THEN Decisions(out) \cup {<<i, m>>}
                                 ELSE Decisions(out)
  BY <1>3, <1>4, ResolvedDecisions
<1>10. CaughtUp'.bounties = CaughtUp.bounties
  BY DEF IsDecision, SameSettledTables
<1>11. DecidedSome(i)' /\ (PaidSome(i) \/ pay = TRUE => PaidSome(i)')
  BY <1>2, <1>9 DEF DecidedSome, PaidSome
<1>12. ASSUME NEW j, j # i  PROVE PaidSome(j)' = PaidSome(j) /\ DecidedSome(j)' = DecidedSome(j)
  <2>1. \A out, n : <<j, n>> \in Decisions(out)' <=> <<j, n>> \in Decisions(out)
    BY <1>9, <1>12
  <2>2. QED
    BY <2>1 DEF DecidedSome, PaidSome
<1>13. PICK r : r = CaughtUp.bounties[i]
  OBVIOUS
<1>14. RowTells(r, b, PaidSome(i), DecidedSome(i))
  BY <1>5, <1>6, <1>13 DEF RowsInv
<1>15. /\ r.released_amount <= c.released_amount
       /\ PaidSome(i)' \/ r.released_amount = c.released_amount
  <2>1. /\ r.released_amount \in Nat /\ b.released_amount \in Nat /\ MaxI128 \in Nat
        /\ b.released_amount <= MaxI128 /\ r.released_amount <= b.released_amount
        /\ b.amounts[m] \in Nat
    BY <1>6, <1>14, MilestoneTypes, RegistryConstants DEF RowTells, BountyRow, Bounty
  <2>2. b.released_amount <= SatAdd(b.released_amount, b.amounts[m])
    BY <2>1 DEF SatAdd
  <2>3. CASE pay = FALSE
    <3>1. c.released_amount = b.released_amount
      BY <1>5, <1>7, <2>3
    <3>2. QED
      BY <1>11, <1>14, <3>1 DEF RowTells
  <2>4. CASE pay = TRUE
    <3>1. c.released_amount = SatAdd(b.released_amount, b.amounts[m])
      BY <1>5, <1>7, <2>4
    <3>2. SatAdd(b.released_amount, b.amounts[m]) \in Nat
      BY <2>1 DEF SatAdd
    <3>3. QED
      BY <1>11, <2>1, <2>2, <2>4, <3>1, <3>2
  <2>5. QED
    BY <2>3, <2>4
<1>16. RowTells(r, c, PaidSome(i)', DecidedSome(i)')
  BY <1>7, <1>11, <1>14, <1>15 DEF RowTells
<1>17. i \in DOMAIN CaughtUp.bounties
  BY <1>6 DEF RowsInv
<1>18. QED
  BY <1>6, <1>8, <1>10, <1>12, <1>13, <1>16, <1>17, RowsFrame

LEMMA DecidedHere ==
  ASSUME EscrowTypeOK, NEW i
  PROVE  /\ PaidSome(i) => PaidByDispute(i) # {}
         /\ DecidedSome(i) => RefundedByDispute(i) \cup PaidByDispute(i) # {}
<1>1. ASSUME NEW m, NEW pay, <<i, m>> \in Decisions(pay)
      PROVE  /\ m \in Slot
             /\ \E id \in DOMAIN dispute :
                  /\ dispute[id].issue = i /\ dispute[id].milestone = m
                  /\ dispute[id].resolved /\ dispute[id].pay_contributor = pay
  <2>1. PICK id \in DOMAIN dispute :
          /\ dispute[id].resolved /\ dispute[id].pay_contributor = pay
          /\ dispute[id].issue = i /\ dispute[id].milestone = m
    BY <1>1 DEF Decisions
  <2>2. dispute[id] \in Dispute
    BY StoredDispute
  <2>3. QED
    BY <2>1, <2>2 DEF Dispute
<1>2. PaidSome(i) => PaidByDispute(i) # {}
  <2>1. SUFFICES ASSUME NEW m, <<i, m>> \in Decisions(TRUE)  PROVE PaidByDispute(i) # {}
    BY DEF PaidSome
  <2>2. PICK id \in DOMAIN dispute :
          /\ dispute[id].issue = i /\ dispute[id].milestone = m
          /\ dispute[id].resolved /\ dispute[id].pay_contributor = TRUE
    BY <2>1, Zenon DEF Decisions
  <2>3. m \in Slot
    BY <1>1, <2>1
  <2>4. \E k \in DOMAIN dispute :
          /\ dispute[k].issue = i /\ dispute[k].milestone = m
          /\ dispute[k].resolved /\ dispute[k].pay_contributor
    BY <2>2, Zenon
  <2>5. QED
    BY <2>3, <2>4, Zenon DEF PaidByDispute
<1>3. (\E m : <<i, m>> \in Decisions(FALSE)) => RefundedByDispute(i) # {}
  BY <1>1 DEF RefundedByDispute
<1>4. QED
  BY <1>2, <1>3 DEF DecidedSome

\* A sum of positive summands is larger than the sum over fewer of them.
LEMMA ProperSum ==
  ASSUME NEW S, IsFiniteSet(S), NEW f, \A x \in S : f[x] \in Nat /\ f[x] > 0,
         NEW T, T \subseteq S
  PROVE  /\ Sum(f, T) <= Sum(f, S)
         /\ T # S => Sum(f, T) < Sum(f, S)
<1> DEFINE C == {s \in SUBSET S : \A t \in SUBSET s :
                   Sum(f, t) <= Sum(f, s) /\ (t # s => Sum(f, t) < Sum(f, s))}
<1>1. \A s \in SUBSET S : IsFiniteSet(s) /\ Sum(f, s) \in Nat
  BY FS_Subset, SumType
<1>2. {} \in C
  BY <1>1
<1>3. ASSUME NEW s \in SUBSET S, s # {}, \A x \in s : s \ {x} \in C  PROVE s \in C
  <2>1. ASSUME NEW t \in SUBSET s, t # s  PROVE Sum(f, t) < Sum(f, s)
    <3>1. PICK x \in s : x \notin t
      BY <2>1
    <3>2. Sum(f, s) = f[x] + Sum(f, s \ {x})
      BY <1>1, SumSplit
    <3>3. t \subseteq s \ {x}
      BY <3>1
    <3>4. Sum(f, t) <= Sum(f, s \ {x})
      BY <1>3, <3>3
    <3>5. f[x] \in Nat /\ f[x] > 0 /\ Sum(f, t) \in Nat /\ Sum(f, s \ {x}) \in Nat
      BY <1>1
    <3>6. QED
      BY <3>2, <3>4, <3>5
  <2>2. \A t \in SUBSET s : Sum(f, t) \in Nat
    BY <1>1
  <2>3. ASSUME NEW t \in SUBSET s
        PROVE  Sum(f, t) <= Sum(f, s) /\ (t # s => Sum(f, t) < Sum(f, s))
    BY <1>1, <2>1, <2>2
  <2>4. QED
    BY <2>3
<1>4. \A s \in SUBSET S : s \in C
  <2> HIDE DEF C
  <2>1. QED
    BY <1>2, <1>3, SetInduction
<1>5. QED
  BY <1>4

\* A row closed by comparing doubles is a bounty closed, unless the amount is one
\* that a double may round.
LEMMA ExactlyClosed ==
  ASSUME EscrowTypeOK, SettlementInv, BooksInv, RowsInv,
         NEW i \in DOMAIN bounty, CaughtUp.bounties[i].released
  PROVE  bounty[i].released \/ CaughtUp.bounties[i].amount > MaxExact
<1>1. PICK r, b, l : r = CaughtUp.bounties[i] /\ b = bounty[i] /\ l = b.amounts
  OBVIOUS
<1>2. RowTells(r, b, PaidSome(i), DecidedSome(i)) /\ b \in Bounty
  BY <1>1, StoredBounty DEF RowsInv
<1>3. CASE b.refunded
  BY <1>1, <1>3 DEF BooksInv, RefundedAreClosed
<1>4. CASE ~b.refunded
  <2>1. SUFFICES ASSUME ~(r.amount > MaxExact)  PROVE b.released
    BY <1>1
  <2>2. PICK P, n, k : P = PaidMilestones(i) /\ n = Sum(l, P) /\ k = Sum(l, DOMAIN l)
    OBVIOUS
  <2>3. MaxExact \in 0..(MaxI128 - 1) /\ MaxI128 \in Nat
    BY NumberAssumption, RegistryConstants
  <2>4. /\ \A m \in DOMAIN l : l[m] \in Nat /\ l[m] > 0
        /\ IsFiniteSet(DOMAIN l) /\ P \subseteq DOMAIN l /\ n \in Nat
        /\ P \subseteq b.settled /\ b.settled \subseteq DOMAIN l
    <3>1. \A m \in DOMAIN l : l[m] \in 1..MaxI128
      BY <1>1, <1>2, MilestoneTypes DEF Milestones
    <3>2. P \subseteq DOMAIN l /\ n \in Nat /\ DOMAIN l \subseteq Slot /\ IsFiniteSet(Slot)
          /\ P \subseteq b.settled /\ b.settled \subseteq DOMAIN l
      BY <1>1, <2>2, LeftType DEF Milestones
    <3>3. QED
      BY <2>3, <3>1, <3>2, FS_Subset
  <2>5. k \in Nat /\ n <= k /\ (P # DOMAIN l => n < k)
    BY <2>2, <2>4, ProperSum, SumType
  <2>6. b.released_amount = SatAdd(0, n)
    BY <1>1, <2>2 DEF BooksInv, AccountsExact, SumOf, Sum
  <2>7. r.amount = SatAdd(0, k)
    <3>1. r.amount = Total(l) /\ l \in MilestoneLists
      BY <1>1, <1>2 DEF RowTells, Bounty
    <3>2. QED
      BY <2>2, <3>1, TotalIsSum
  <2>8. r.amount = k /\ k <= MaxExact
    BY <2>1, <2>3, <2>5, <2>7 DEF SatAdd
  <2>9. b.released_amount = n
    BY <2>3, <2>5, <2>4, <2>6, <2>8 DEF SatAdd
  <2>10. PICK x : x = r.released_amount
    OBVIOUS
  <2>11. x \in 0..MaxI128 /\ x <= n
    BY <1>2, <2>9, <2>10 DEF RowTells, BountyRow
  <2>12. Number[x] >= Number[k]
    BY <1>1, <1>2, <1>4, <2>8, <2>10 DEF RowTells
  <2>13. Number[x] = x /\ Number[k] = k
    BY <2>3, <2>4, <2>5, <2>8, <2>11, NumberAssumption
  <2>14. n = k
    BY <2>3, <2>4, <2>5, <2>11, <2>12, <2>13
  <2>15. b.settled = Milestones(b)
    BY <1>1, <2>4, <2>5, <2>14 DEF Milestones
  <2>16. QED
    BY <1>1, <2>15 DEF SettlementInv, ReleasedMeansAllSettled
<1>5. QED
  BY <1>3, <1>4

LEMMA RowsStep ==
  ASSUME EscrowTypeOK, EscrowTypeOK', DecidedAreSettled, RefundedAreClosed, RowsInv, Settles,
         (SettlementInv /\ AccountsExact /\ MilestonesInv)'
  PROVE  RowsInv'
<1>1. CASE IsCalm
  <2>1. NoDecision /\ bounty' = bounty /\ CaughtUp'.bounties = CaughtUp.bounties
    BY <1>1 DEF IsCalm, SameSettledTables
  <2>2. \A i : PaidSome(i)' = PaidSome(i) /\ DecidedSome(i)' = DecidedSome(i)
    BY <2>1, SameSome
  <2>3. QED
    BY <2>1, <2>2 DEF RowsInv
<1>2. CASE IsRelease
  <2>1. ClosedInFull'
    BY AllClosedInFull, PTL
  <2>2. QED
    BY <1>2, <2>1, ReleaseRows
<1>3. QED
  BY <1>1, <1>2, CreationRows, ClaimRows, RefundRows, PanelRowsTell, DecisionRows DEF Settles

LEMMA ReadInitRows == ReadInit => MilestonesInv /\ RowsInv
<1> SUFFICES ASSUME ReadInit  PROVE MilestonesInv /\ RowsInv
  OBVIOUS
<1>1. PICK v : v = view
  OBVIOUS
<1>2. pending = <<>> /\ v.bounties = Empty /\ v.milestones = Empty
  BY <1>1 DEF ReadInit
<1>3. CaughtUp = v
  BY <1>1, <1>2, CaughtUpIs, FoldedNone
<1>4. DOMAIN bounty = {} /\ DOMAIN dispute = {} /\ paid = {}
  BY DEF ReadInit, Init, EscrowInit
<1>5. \A pay : Decisions(pay) = {}
  BY <1>4 DEF Decisions
<1>6. DOMAIN Empty = {}
  BY DEF Empty
<1>7. QED
  BY <1>2, <1>3, <1>4, <1>5, <1>6 DEF MilestonesInv, RowsInv

\* What the tables say of the settlement, next to what the contract's books say.
LEMMA RowsCorrect ==
  ReadSpec => [](/\ EscrowTypeOK /\ SettlementInv /\ BooksInv
                 /\ MilestonesInv /\ RowsInv)
<1>1. Spec => [](EscrowTypeOK /\ SettlementInv /\ BooksInv)
  BY GovernanceOnlyRestricts, SettlementCorrect, BooksCorrect, PTL DEF ImplementsEscrow
<1>2. /\ GovernanceInv /\ PanelsFinite /\ TablesInv
      /\ EscrowTypeOK /\ SettlementInv /\ BooksInv /\ (EscrowTypeOK /\ SettlementInv /\ BooksInv)'
      /\ MilestonesInv /\ RowsInv /\ [ReadNext]_readVars
      => MilestonesInv' /\ RowsInv'
  <2> SUFFICES ASSUME GovernanceInv, PanelsFinite, TablesInv, EscrowTypeOK, SettlementInv,
                      BooksInv, EscrowTypeOK', SettlementInv', BooksInv',
                      MilestonesInv, RowsInv, [ReadNext]_readVars
               PROVE  MilestonesInv' /\ RowsInv'
    OBVIOUS
  <2>1. Settles
    BY StepSettles
  <2>2. PaidAreSettled /\ DecidedAreSettled /\ RefundedAreClosed /\ AccountsExact'
    BY DEF SettlementInv, BooksInv
  <2>3. MilestonesInv'
    BY <2>1, <2>2, MilestonesStep
  <2>4. QED
    BY <2>1, <2>2, <2>3, RowsStep
<1>3. QED
  BY <1>1, <1>2, ReadInitRows, TablesCorrect, IndexingOnlyReads, PTL DEF ReadSpec

\* The bounties table, caught up, has the terms, the payee and the refunds of the
\* ledger, and the releases up to what disputes paid, whatever was indexed when.
THEOREM RowsFollowTheLedger == ReadSpec => []BountyRowsFollowTheLedger
<1>1. EscrowTypeOK /\ SettlementInv /\ BooksInv /\ MilestonesInv /\ RowsInv
      => BountyRowsFollowTheLedger
  <2> SUFFICES ASSUME EscrowTypeOK, SettlementInv, BooksInv, MilestonesInv, RowsInv
               PROVE  BountyRowsFollowTheLedger
    OBVIOUS
  <2>1. PICK rows : rows = CaughtUp.bounties
    OBVIOUS
  <2>2. DOMAIN rows = DOMAIN bounty
    BY <2>1 DEF RowsInv
  <2>3. ASSUME NEW i \in DOMAIN rows
        PROVE  /\ rows[i].funder = bounty[i].funder
               /\ rows[i].contributor = bounty[i].contributor
               /\ rows[i].token = bounty[i].token
               /\ rows[i].amount = bounty[i].amount
               /\ rows[i].refunded = bounty[i].refunded
               /\ rows[i].released => bounty[i].released \/ rows[i].amount > MaxExact
               /\ rows[i].released_amount = bounty[i].released_amount
                    \/ (rows[i].released_amount < bounty[i].released_amount
                          /\ PaidByDispute(i) # {})
               /\ bounty[i].released /\ RefundedByDispute(i) \cup PaidByDispute(i) = {}
                    => rows[i].released
    <3>1. PICK r, b : r = rows[i] /\ b = bounty[i]
      OBVIOUS
    <3>2. RowTells(r, b, PaidSome(i), DecidedSome(i)) /\ i \in DOMAIN bounty /\ b \in Bounty
      BY <2>1, <2>2, <3>1, StoredBounty DEF RowsInv
    <3>3. /\ PaidSome(i) => PaidByDispute(i) # {}
          /\ DecidedSome(i) => RefundedByDispute(i) \cup PaidByDispute(i) # {}
      BY DecidedHere
    <3>4. r.released => b.released \/ r.amount > MaxExact
      BY <2>1, <3>1, <3>2, ExactlyClosed
    <3>5. r.released_amount \in Nat /\ b.released_amount \in Nat
      BY <3>2, RegistryConstants DEF RowTells, BountyRow, Bounty
    <3>6. QED
      BY <3>1, <3>2, <3>3, <3>4, <3>5 DEF RowTells
  <2>4. QED
    BY <2>1, <2>2, <2>3 DEF BountyRowsFollowTheLedger
<1>2. QED
  BY <1>1, RowsCorrect, PTL

\* Which milestones are settled, and how, can be read off the tables.
THEOREM SettlementsAreReadable == ReadSpec => []SettlementsAreReconstructible
<1>1. EscrowTypeOK /\ SettlementInv /\ BooksInv /\ MilestonesInv /\ RowsInv /\ DecidedInv
      => SettlementsAreReconstructible
  <2> SUFFICES ASSUME EscrowTypeOK, SettlementInv, BooksInv, MilestonesInv, RowsInv, DecidedInv
               PROVE  SettlementsAreReconstructible
    OBVIOUS
  <2> DEFINE v == CaughtUp
  <2>1. v.disputes = dispute /\ DOMAIN v.bounties = DOMAIN bounty
        /\ \A i \in DOMAIN bounty : v.bounties[i].refunded = bounty[i].refunded
    BY DEF DecidedInv, RowsInv, RowTells
  <2> DEFINE Rows(i) == {m \in Slot : <<i, m>> \in DOMAIN v.milestones}
             Decided(i, pay) ==
               {v.disputes[id].milestone : id \in {id \in DOMAIN v.disputes :
                  /\ v.disputes[id].issue = i
                  /\ v.disputes[id].resolved /\ v.disputes[id].pay_contributor = pay}}
  <2>2. \A i, pay, m : m \in Decided(i, pay) <=> <<i, m>> \in Decisions(pay)
    BY <2>1 DEF Decisions
  <2>3. ASSUME NEW i \in DOMAIN bounty
        PROVE  /\ Rows(i) \cap (Decided(i, TRUE) \cup Decided(i, FALSE)) = {}
               /\ Rows(i) \cup Decided(i, TRUE) = PaidMilestones(i)
               /\ ~v.bounties[i].refunded =>
                    bounty[i].settled = Rows(i) \cup Decided(i, TRUE) \cup Decided(i, FALSE)
    <3> HIDE DEF Decided
    <3>1. /\ DOMAIN v.milestones \cap (Decisions(TRUE) \cup Decisions(FALSE)) = {}
          /\ DOMAIN v.milestones \cup Decisions(TRUE) = paid
          /\ ~bounty[i].refunded =>
               \A m \in bounty[i].settled : <<i, m>> \in paid \cup Decisions(FALSE)
      BY DEF MilestonesInv
    <3>2. Rows(i) \cap (Decided(i, TRUE) \cup Decided(i, FALSE)) = {}
      BY <2>2, <3>1
    <3>3. \A m : <<i, m>> \in paid => m \in Slot
      BY DEF EscrowTypeOK
    <3>4. Rows(i) \cup Decided(i, TRUE) = PaidMilestones(i)
      BY <2>2, <3>1, <3>3 DEF PaidMilestones
    <3>5. PaidMilestones(i) \subseteq bounty[i].settled
      BY LeftType
    <3>6. \A m \in Decided(i, FALSE) : m \in bounty[i].settled
      BY <2>2, DecisionsAreSettled DEF BooksInv
    <3>7. bounty[i].settled \subseteq Slot
      BY LeftType
    <3>8. ~v.bounties[i].refunded =>
            bounty[i].settled = Rows(i) \cup Decided(i, TRUE) \cup Decided(i, FALSE)
      <4> SUFFICES ASSUME ~v.bounties[i].refunded
                   PROVE  bounty[i].settled = PaidMilestones(i) \cup Decided(i, FALSE)
        BY <3>4
      <4>1. \A m \in bounty[i].settled : m \in PaidMilestones(i) \/ m \in Decided(i, FALSE)
        BY <2>1, <2>2, <3>1, <3>7 DEF PaidMilestones
      <4>2. QED
        BY <3>5, <3>6, <4>1
    <3>9. QED
      BY <3>2, <3>4, <3>8
  <2>4. QED
    BY <2>3 DEF SettlementsAreReconstructible
<1>2. QED
  BY <1>1, RowsCorrect, TablesCorrect, PTL

-----------------------------------------------------------------------------
(* The reputation of the index, account by account.                        *)

\* A list of a set's elements has each of them once.
LEMMA ListOfSet ==
  ASSUME NEW S, IsFiniteSet(S)
  PROVE  /\ Cardinality(S) \in Nat
         /\ SetToSeq(S) \in [1..Cardinality(S) -> S]
         /\ \A j, k \in 1..Cardinality(S) : SetToSeq(S)[j] = SetToSeq(S)[k] => j = k
         /\ \A x \in S : \E k \in 1..Cardinality(S) : SetToSeq(S)[k] = x
<1>1. PICK n \in Nat : n = Cardinality(S)
  BY FS_CardinalityType
<1>2. PICK g : g \in Bijection(1..n, S)
  BY <1>1, FS_CardinalityType DEF ExistsBijection
<1>3. g \in [1..n -> S] /\ IsInjective(g)
  BY <1>2 DEF Bijection, Injection
<1>4. PICK f : f = SetToSeq(S)
  OBVIOUS
<1>5. f \in [1..n -> S] /\ IsInjective(f)
  BY <1>1, <1>3, <1>4, Zenon DEF SetToSeq
<1>6. IsFiniteSet(1..n) /\ Cardinality(1..n) = n
  BY FS_Interval
<1>7. f \in Injection(1..n, S)
  BY <1>5 DEF Injection
<1>8. f \in Surjection(1..n, S)
  BY <1>1, <1>6, <1>7, FS_Injection
<1>9. \A x \in S : \E k \in 1..n : f[k] = x
  BY <1>8 DEF Surjection
<1>10. \A j, k \in 1..n : f[j] = f[k] => j = k
  BY <1>5 DEF IsInjective
<1>11. QED
  BY <1>1, <1>4, <1>5, <1>9, <1>10

RepRow ==
  [payouts: Nat, payout_total: Nat, reviews_upheld: Nat,
   disputes_opened: Nat, disputes_lost: Nat]

RowOf(t, a) == Lookup(t.rep, a, NoReputation)

\* A row after one more record.
Gained(row, e) ==
  CASE e.topic = "contributor_recorded" ->
         [row EXCEPT !.payouts = @ + 1, !.payout_total = @ + e.value]
    [] e.topic = "review_recorded" -> [row EXCEPT !.reviews_upheld = @ + 1]
    [] e.topic = "dispute_recorded" ->
         [row EXCEPT !.disputes_opened = @ + 1,
                     !.disputes_lost = IF e.value THEN @ + 1 ELSE @]

LEMMA NewRecord ==
  ASSUME NEW t, NEW e, e.topic \in RegistryTopics, NEW u, u = rebuildReputation(t, e)
  PROVE  /\ RepGuard(e) \in t.seen => u = t
         /\ RepGuard(e) \notin t.seen =>
              /\ u.seen = t.seen \cup {RepGuard(e)}
              /\ u.rep = Put(t.rep, e.who, Gained(RowOf(t, e.who), e))
BY DEF rebuildReputation, Gained, RowOf

LEMMA NewRow ==
  ASSUME NEW t, NEW e, e.topic \in RegistryTopics, NEW u, u = rebuildReputation(t, e),
         RepGuard(e) \notin t.seen
  PROVE  /\ RowOf(u, e.who) = Gained(RowOf(t, e.who), e)
         /\ \A a : a # e.who => RowOf(u, a) = RowOf(t, a)
<1>1. PICK w, row : w = e.who /\ row = Gained(RowOf(t, w), e)
  OBVIOUS
<1>2. u.rep = Put(t.rep, w, row)
  BY <1>1, NewRecord
<1>3. /\ DOMAIN u.rep = DOMAIN t.rep \cup {w} /\ u.rep[w] = row
      /\ \A a \in DOMAIN t.rep : a # w => u.rep[a] = t.rep[a]
  BY <1>2 DEF Put
<1>4. QED
  BY <1>1, <1>3 DEF RowOf, Lookup

LEMMA GainedPayout ==
  ASSUME NEW e, NEW row \in RepRow, NEW g, g = Gained(row, e),
         e.topic = "contributor_recorded", e.value \in Nat
  PROVE  /\ g \in RepRow
         /\ g.payouts = row.payouts + 1 /\ g.payout_total = row.payout_total + e.value
         /\ g.reviews_upheld = row.reviews_upheld
         /\ g.disputes_opened = row.disputes_opened
         /\ g.disputes_lost = row.disputes_lost
<1>1. PICK k, n : k = row.payouts + 1 /\ n = row.payout_total + e.value
  OBVIOUS
<1>2. g = [row EXCEPT !.payouts = k, !.payout_total = n]
  BY <1>1 DEF Gained
<1>3. k \in Nat /\ n \in Nat
  BY <1>1 DEF RepRow
<1>4. /\ g \in RepRow /\ g.payouts = k /\ g.payout_total = n
      /\ g.reviews_upheld = row.reviews_upheld
      /\ g.disputes_opened = row.disputes_opened
      /\ g.disputes_lost = row.disputes_lost
  BY <1>2, <1>3 DEF RepRow
<1>5. QED
  BY <1>1, <1>4

LEMMA GainedReview ==
  ASSUME NEW e, NEW row \in RepRow, NEW g, g = Gained(row, e), e.topic = "review_recorded"
  PROVE  /\ g \in RepRow
         /\ g.payouts = row.payouts /\ g.payout_total = row.payout_total
         /\ g.reviews_upheld = row.reviews_upheld + 1
         /\ g.disputes_opened = row.disputes_opened
         /\ g.disputes_lost = row.disputes_lost
<1>1. g = [row EXCEPT !.reviews_upheld = @ + 1]
  BY DEF Gained
<1>2. QED
  BY <1>1 DEF RepRow

LEMMA GainedLoss ==
  ASSUME NEW e, NEW row \in RepRow, NEW g, g = Gained(row, e),
         e.topic = "dispute_recorded", e.value
  PROVE  /\ g \in RepRow
         /\ g.payouts = row.payouts /\ g.payout_total = row.payout_total
         /\ g.reviews_upheld = row.reviews_upheld
         /\ g.disputes_opened = row.disputes_opened + 1
         /\ g.disputes_lost = row.disputes_lost + 1
<1>1. PICK k, n : k = row.disputes_lost + 1 /\ n = row.disputes_opened + 1
  OBVIOUS
<1>2. g = [row EXCEPT !.disputes_opened = n, !.disputes_lost = k]
  BY <1>1 DEF Gained
<1>3. k \in Nat /\ n \in Nat
  BY <1>1 DEF RepRow
<1>4. /\ g \in RepRow /\ g.payouts = row.payouts /\ g.payout_total = row.payout_total
      /\ g.reviews_upheld = row.reviews_upheld
      /\ g.disputes_opened = n /\ g.disputes_lost = k
  BY <1>2, <1>3 DEF RepRow
<1>5. QED
  BY <1>1, <1>4

\* What a row of the index, with the guards it stands for, tells of an account of
\* the registry with its three kinds of guards.
Tells(row, known, pay, rev, dis, chain) ==
  /\ row \in RepRow
  /\ known = pay \cup rev \cup dis /\ IsFiniteSet(known)
  /\ row.payouts <= chain.payouts
  /\ row.reviews_upheld <= chain.reviews_upheld
  /\ row.disputes_lost <= chain.disputes_lost
  /\ row.payouts + row.reviews_upheld + row.disputes_opened = Cardinality(known)
  /\ dis \cap (pay \cup rev) = {} => row.disputes_lost = chain.disputes_lost
  /\ row.payout_total <= chain.payout_total \/ chain.payout_total = MaxI128

LEMMA PaidTells ==
  ASSUME NEW row, NEW known, NEW pay, NEW rev, NEW dis, NEW chain \in Reputation,
         Tells(row, known, pay, rev, dis, chain),
         NEW g, NEW n \in Nat, NEW row2, NEW known2, NEW chain2,
         chain2.payouts = chain.payouts + 1,
         chain2.payout_total = SatAdd(chain.payout_total, n),
         chain2.reviews_upheld = chain.reviews_upheld,
         chain2.disputes_lost = chain.disputes_lost,
         g \in known => row2 = row /\ known2 = known,
         g \notin known =>
           /\ known2 = known \cup {g} /\ row2 \in RepRow
           /\ row2.payouts = row.payouts + 1 /\ row2.payout_total = row.payout_total + n
           /\ row2.reviews_upheld = row.reviews_upheld
           /\ row2.disputes_opened = row.disputes_opened
           /\ row2.disputes_lost = row.disputes_lost
  PROVE  Tells(row2, known2, pay \cup {g}, rev, dis, chain2)
<1>1. /\ row \in RepRow /\ row.payouts \in Nat /\ row.payout_total \in Nat
      /\ row.reviews_upheld \in Nat /\ row.disputes_opened \in Nat
      /\ row.disputes_lost \in Nat
      /\ chain.payouts \in Nat /\ chain.payout_total \in 0..MaxI128 /\ MaxI128 \in Nat
  BY RegistryConstants DEF Tells, RepRow, Reputation
<1>2. known2 = (pay \cup {g}) \cup rev \cup dis /\ IsFiniteSet(known2) /\ row2 \in RepRow
  <2>1. known = pay \cup rev \cup dis /\ IsFiniteSet(known) /\ row \in RepRow
    BY DEF Tells
  <2>2. IsFiniteSet(known \cup {g})
    BY <2>1, FS_AddElement
  <2>3. CASE g \in known
    BY <2>1, <2>3
  <2>4. CASE g \notin known
    BY <2>1, <2>2, <2>4
  <2>5. QED
    BY <2>3, <2>4
<1>3. \/ chain2.payout_total = MaxI128
      \/ chain2.payout_total = chain.payout_total + n
  BY DEF SatAdd
<1>4. chain.payout_total = MaxI128 => chain2.payout_total = MaxI128
  BY <1>1 DEF SatAdd
<1>5. row2.payout_total <= chain2.payout_total \/ chain2.payout_total = MaxI128
  BY <1>1, <1>3, <1>4 DEF Tells
<1>6. row2.payouts <= chain2.payouts
  BY <1>1 DEF Tells
<1>7. /\ row2.reviews_upheld <= chain2.reviews_upheld
      /\ row2.disputes_lost <= chain2.disputes_lost
      /\ row2.disputes_lost = row.disputes_lost
  BY DEF Tells
<1>8. row2.payouts + row2.reviews_upheld + row2.disputes_opened = Cardinality(known2)
  <2>1. IsFiniteSet(known) /\ Cardinality(known) \in Nat
    BY FS_CardinalityType DEF Tells
  <2>2. g \notin known => Cardinality(known2) = Cardinality(known) + 1
    BY <2>1, FS_AddElement
  <2>3. row.payouts + row.reviews_upheld + row.disputes_opened = Cardinality(known)
    BY DEF Tells
  <2>4. CASE g \in known
    BY <2>3, <2>4
  <2>5. CASE g \notin known
    BY <1>1, <2>1, <2>2, <2>3, <2>5
  <2>6. QED
    BY <2>4, <2>5
<1>9. dis \cap ((pay \cup {g}) \cup rev) = {} => row2.disputes_lost = chain2.disputes_lost
  BY <1>7 DEF Tells
<1>10. QED
  BY <1>2, <1>5, <1>6, <1>7, <1>8, <1>9 DEF Tells

LEMMA ReviewedTells ==
  ASSUME NEW row, NEW known, NEW pay, NEW rev, NEW dis, NEW chain \in Reputation,
         Tells(row, known, pay, rev, dis, chain),
         NEW g, NEW row2, NEW known2, NEW chain2,
         chain2.payouts = chain.payouts,
         chain2.payout_total = chain.payout_total,
         chain2.reviews_upheld = chain.reviews_upheld + 1,
         chain2.disputes_lost = chain.disputes_lost,
         g \in known => row2 = row /\ known2 = known,
         g \notin known =>
           /\ known2 = known \cup {g} /\ row2 \in RepRow
           /\ row2.payouts = row.payouts /\ row2.payout_total = row.payout_total
           /\ row2.reviews_upheld = row.reviews_upheld + 1
           /\ row2.disputes_opened = row.disputes_opened
           /\ row2.disputes_lost = row.disputes_lost
  PROVE  Tells(row2, known2, pay, rev \cup {g}, dis, chain2)
<1>1. /\ row \in RepRow /\ row.payouts \in Nat
      /\ row.reviews_upheld \in Nat /\ row.disputes_opened \in Nat
      /\ chain.reviews_upheld \in Nat
  BY DEF Tells, RepRow, Reputation
<1>2. known2 = pay \cup (rev \cup {g}) \cup dis /\ IsFiniteSet(known2) /\ row2 \in RepRow
  <2>1. known = pay \cup rev \cup dis /\ IsFiniteSet(known) /\ row \in RepRow
    BY DEF Tells
  <2>2. IsFiniteSet(known \cup {g})
    BY <2>1, FS_AddElement
  <2>3. CASE g \in known
    BY <2>1, <2>3
  <2>4. CASE g \notin known
    BY <2>1, <2>2, <2>4
  <2>5. QED
    BY <2>3, <2>4
<1>3. row2.payout_total <= chain2.payout_total \/ chain2.payout_total = MaxI128
  BY DEF Tells
<1>4. row2.reviews_upheld <= chain2.reviews_upheld
  BY <1>1 DEF Tells
<1>5. /\ row2.payouts <= chain2.payouts
      /\ row2.disputes_lost <= chain2.disputes_lost
      /\ row2.disputes_lost = row.disputes_lost
  BY DEF Tells
<1>6. row2.payouts + row2.reviews_upheld + row2.disputes_opened = Cardinality(known2)
  <2>1. IsFiniteSet(known) /\ Cardinality(known) \in Nat
    BY FS_CardinalityType DEF Tells
  <2>2. g \notin known => Cardinality(known2) = Cardinality(known) + 1
    BY <2>1, FS_AddElement
  <2>3. row.payouts + row.reviews_upheld + row.disputes_opened = Cardinality(known)
    BY DEF Tells
  <2>4. CASE g \in known
    BY <2>3, <2>4
  <2>5. CASE g \notin known
    BY <1>1, <2>1, <2>2, <2>3, <2>5
  <2>6. QED
    BY <2>4, <2>5
<1>7. dis \cap (pay \cup (rev \cup {g})) = {} => row2.disputes_lost = chain2.disputes_lost
  BY <1>5 DEF Tells
<1>8. QED
  BY <1>2, <1>3, <1>4, <1>5, <1>6, <1>7 DEF Tells

LEMMA LostTells ==
  ASSUME NEW row, NEW known, NEW pay, NEW rev, NEW dis, NEW chain \in Reputation,
         Tells(row, known, pay, rev, dis, chain),
         NEW g, g \notin dis, NEW row2, NEW known2, NEW chain2,
         chain2.payouts = chain.payouts,
         chain2.payout_total = chain.payout_total,
         chain2.reviews_upheld = chain.reviews_upheld,
         chain2.disputes_lost = chain.disputes_lost + 1,
         g \in known => row2 = row /\ known2 = known,
         g \notin known =>
           /\ known2 = known \cup {g} /\ row2 \in RepRow
           /\ row2.payouts = row.payouts /\ row2.payout_total = row.payout_total
           /\ row2.reviews_upheld = row.reviews_upheld
           /\ row2.disputes_opened = row.disputes_opened + 1
           /\ row2.disputes_lost = row.disputes_lost + 1
  PROVE  Tells(row2, known2, pay, rev, dis \cup {g}, chain2)
<1>1. /\ row \in RepRow /\ row.payouts \in Nat
      /\ row.reviews_upheld \in Nat /\ row.disputes_opened \in Nat
      /\ row.disputes_lost \in Nat /\ chain.disputes_lost \in Nat
  BY DEF Tells, RepRow, Reputation
<1>2. known2 = pay \cup rev \cup (dis \cup {g}) /\ IsFiniteSet(known2) /\ row2 \in RepRow
  <2>1. known = pay \cup rev \cup dis /\ IsFiniteSet(known) /\ row \in RepRow
    BY DEF Tells
  <2>2. IsFiniteSet(known \cup {g})
    BY <2>1, FS_AddElement
  <2>3. CASE g \in known
    BY <2>1, <2>3
  <2>4. CASE g \notin known
    BY <2>1, <2>2, <2>4
  <2>5. QED
    BY <2>3, <2>4
<1>3. row2.payout_total <= chain2.payout_total \/ chain2.payout_total = MaxI128
  BY DEF Tells
<1>4. row2.disputes_lost <= chain2.disputes_lost
  BY <1>1 DEF Tells
<1>5. row2.payouts <= chain2.payouts /\ row2.reviews_upheld <= chain2.reviews_upheld
  BY DEF Tells
<1>6. row2.payouts + row2.reviews_upheld + row2.disputes_opened = Cardinality(known2)
  <2>1. IsFiniteSet(known) /\ Cardinality(known) \in Nat
    BY FS_CardinalityType DEF Tells
  <2>2. g \notin known => Cardinality(known2) = Cardinality(known) + 1
    BY <2>1, FS_AddElement
  <2>3. row.payouts + row.reviews_upheld + row.disputes_opened = Cardinality(known)
    BY DEF Tells
  <2>4. CASE g \in known
    BY <2>3, <2>4
  <2>5. CASE g \notin known
    BY <1>1, <2>1, <2>2, <2>3, <2>5
  <2>6. QED
    BY <2>4, <2>5
<1>7. (dis \cup {g}) \cap (pay \cup rev) = {} => row2.disputes_lost = chain2.disputes_lost
  <2>1. SUFFICES ASSUME (dis \cup {g}) \cap (pay \cup rev) = {}
                 PROVE  row2.disputes_lost = chain2.disputes_lost
    OBVIOUS
  <2>2. g \notin known /\ dis \cap (pay \cup rev) = {}
    BY <2>1 DEF Tells
  <2>3. QED
    BY <2>2 DEF Tells
<1>8. QED
  BY <1>2, <1>3, <1>4, <1>5, <1>6, <1>7 DEF Tells

LEMMA SameTells ==
  ASSUME NEW row, NEW known, NEW pay, NEW rev, NEW dis, NEW chain,
         Tells(row, known, pay, rev, dis, chain), NEW chain2,
         chain2.payouts = chain.payouts, chain2.payout_total = chain.payout_total,
         chain2.reviews_upheld = chain.reviews_upheld,
         chain2.disputes_lost = chain.disputes_lost
  PROVE  Tells(row, known, pay, rev, dis, chain2)
BY DEF Tells

AccountTells(t, r, a) ==
  Tells(RowOf(t, a), GuardsOf(t.seen, a), GuardsOf(r.credited, a),
        GuardsOf(r.review_credited, a), GuardsOf(r.dispute_credited, a), r.rep[a])

TableTells(t, r) == \A a \in Address : AccountTells(t, r, a)

\* The table after one more event of the registry.
LEMMA RecordTaken ==
  ASSUME NEW t, NEW topic \in RegistryTopics, NEW i, NEW m, NEW w, NEW x, NEW e,
         e = Event(topic, i, m, w, x), NEW u, u = rebuildReputation(t, e)
  PROVE  /\ <<w, i, m>> \in GuardsOf(t.seen, w) =>
              RowOf(u, w) = RowOf(t, w) /\ GuardsOf(u.seen, w) = GuardsOf(t.seen, w)
         /\ <<w, i, m>> \notin GuardsOf(t.seen, w) =>
              /\ GuardsOf(u.seen, w) = GuardsOf(t.seen, w) \cup {<<w, i, m>>}
              /\ RowOf(u, w) = Gained(RowOf(t, w), e)
         /\ \A a : a # w =>
              RowOf(u, a) = RowOf(t, a) /\ GuardsOf(u.seen, a) = GuardsOf(t.seen, a)
<1>1. e.topic = topic /\ e.who = w /\ RepGuard(e) = <<w, i, m>>
  BY DEF Event, RepGuard
<1>2. <<w, i, m>> \in GuardsOf(t.seen, w) <=> RepGuard(e) \in t.seen
  BY <1>1 DEF GuardsOf
<1>3. CASE RepGuard(e) \in t.seen
  <2>1. u = t
    BY <1>1, <1>3, NewRecord
  <2>2. QED
    BY <1>2, <1>3, <2>1
<1>4. CASE RepGuard(e) \notin t.seen
  <2>1. u.seen = t.seen \cup {<<w, i, m>>}
    BY <1>1, <1>4, NewRecord
  <2>2. /\ RowOf(u, e.who) = Gained(RowOf(t, e.who), e)
        /\ \A a : a # e.who => RowOf(u, a) = RowOf(t, a)
    BY <1>1, <1>4, NewRow
  <2>3. PICK S, T : S = t.seen /\ T = u.seen
    OBVIOUS
  <2>4. /\ GuardsOf(T, w) = GuardsOf(S, w) \cup {<<w, i, m>>}
        /\ \A a : a # w => GuardsOf(T, a) = GuardsOf(S, a)
    <3>1. T = S \cup {<<w, i, m>>}
      BY <2>1, <2>3
    <3>2. QED
      BY <3>1 DEF GuardsOf
  <2>5. QED
    BY <1>1, <1>2, <1>4, <2>2, <2>3, <2>4
<1>5. QED
  BY <1>3, <1>4

LEMMA PaidRecord ==
  ASSUME NEW r \in RegistryState, NEW c \in Address, NEW i, NEW m, NEW n \in Nat,
         NEW r2, r2 = Recorded(r, c, i, m, n), NEW t, TableTells(t, r),
         NEW u, u = rebuildReputation(t, Event("contributor_recorded", i, m, c, n))
  PROVE  TableTells(u, r2)
<1>1. PICK e, topic : /\ e = Event(topic, i, m, c, n) /\ topic = "contributor_recorded"
                      /\ topic \in RegistryTopics
  BY DEF RegistryTopics
<1>2. e.topic = "contributor_recorded" /\ e.value = n
  BY <1>1 DEF Event
<1>3. u = rebuildReputation(t, e)
  BY <1>1
<1>4. PICK g : g = <<c, i, m>>
  OBVIOUS
<1>5. /\ g \in GuardsOf(t.seen, c) =>
           RowOf(u, c) = RowOf(t, c) /\ GuardsOf(u.seen, c) = GuardsOf(t.seen, c)
      /\ g \notin GuardsOf(t.seen, c) =>
           /\ GuardsOf(u.seen, c) = GuardsOf(t.seen, c) \cup {g}
           /\ RowOf(u, c) = Gained(RowOf(t, c), e)
      /\ \A a : a # c =>
           RowOf(u, a) = RowOf(t, a) /\ GuardsOf(u.seen, a) = GuardsOf(t.seen, a)
  BY <1>1, <1>3, <1>4, RecordTaken
<1>6. /\ r2.credited = r.credited \cup {<<c, i, m>>}
      /\ r2.review_credited = r.review_credited
      /\ r2.dispute_credited = r.dispute_credited
      /\ r2.rep[c].payouts = r.rep[c].payouts + 1
      /\ r2.rep[c].payout_total = SatAdd(r.rep[c].payout_total, n)
      /\ r2.rep[c].reviews_upheld = r.rep[c].reviews_upheld
      /\ r2.rep[c].disputes_lost = r.rep[c].disputes_lost
      /\ \A b \in Address \ {c} : r2.rep[b] = r.rep[b]
  BY RecordedParts
<1>10. /\ GuardsOf(r2.credited, c) = GuardsOf(r.credited, c) \cup {g}
       /\ \A a : a # c => GuardsOf(r2.credited, a) = GuardsOf(r.credited, a)
  <2>1. PICK S, T : S = r.credited /\ T = r2.credited
    OBVIOUS
  <2>2. /\ GuardsOf(T, c) = GuardsOf(S, c) \cup {<<c, i, m>>}
        /\ \A a : a # c => GuardsOf(T, a) = GuardsOf(S, a)
    <3>1. T = S \cup {<<c, i, m>>}
      BY <1>6, <2>1
    <3>2. QED
      BY <3>1 DEF GuardsOf
  <2>3. QED
    BY <1>4, <2>1, <2>2
<1>7. ASSUME NEW a \in Address, a # c  PROVE AccountTells(u, r2, a)
  <2>1. /\ RowOf(u, a) = RowOf(t, a) /\ GuardsOf(u.seen, a) = GuardsOf(t.seen, a)
        /\ GuardsOf(r2.credited, a) = GuardsOf(r.credited, a) /\ r2.rep[a] = r.rep[a]
    BY <1>5, <1>6, <1>7, <1>10
  <2>2. AccountTells(t, r, a)
    BY DEF TableTells
  <2>3. QED
    BY <1>6, <2>1, <2>2 DEF AccountTells
<1>8. AccountTells(u, r2, c)
  <2>1. PICK row, known, pay, rev, dis, chain :
          /\ row = RowOf(t, c) /\ known = GuardsOf(t.seen, c)
          /\ pay = GuardsOf(r.credited, c) /\ rev = GuardsOf(r.review_credited, c)
          /\ dis = GuardsOf(r.dispute_credited, c) /\ chain = r.rep[c]
    OBVIOUS
  <2>2. PICK row2, known2, chain2 :
          row2 = RowOf(u, c) /\ known2 = GuardsOf(u.seen, c) /\ chain2 = r2.rep[c]
    OBVIOUS
  <2>3. Tells(row, known, pay, rev, dis, chain) /\ chain \in Reputation
    BY <2>1 DEF TableTells, AccountTells, RegistryState
  <2>4. row \in RepRow
    BY <2>3 DEF Tells
  <2>5. g \in known => row2 = row /\ known2 = known
    BY <1>5, <2>1, <2>2
  <2>6. g \notin known =>
           /\ known2 = known \cup {g} /\ row2 \in RepRow
           /\ row2.payouts = row.payouts + 1 /\ row2.payout_total = row.payout_total + n
           /\ row2.reviews_upheld = row.reviews_upheld
           /\ row2.disputes_opened = row.disputes_opened
           /\ row2.disputes_lost = row.disputes_lost
    <3>1. SUFFICES ASSUME g \notin known
                   PROVE  /\ known2 = known \cup {g} /\ row2 \in RepRow
           /\ row2.payouts = row.payouts + 1 /\ row2.payout_total = row.payout_total + n
           /\ row2.reviews_upheld = row.reviews_upheld
           /\ row2.disputes_opened = row.disputes_opened
           /\ row2.disputes_lost = row.disputes_lost
      BY Zenon
    <3>2. known2 = known \cup {g} /\ row2 = Gained(row, e)
      BY <1>5, <2>1, <2>2, <3>1
    <3>3. e.topic = "contributor_recorded" /\ e.value \in Nat
      BY <1>2
    <3>4. /\ row2 \in RepRow
          /\ row2.payouts = row.payouts + 1 /\ row2.payout_total = row.payout_total + e.value
          /\ row2.reviews_upheld = row.reviews_upheld
          /\ row2.disputes_opened = row.disputes_opened
          /\ row2.disputes_lost = row.disputes_lost
      BY <2>4, <3>2, <3>3, GainedPayout
    <3>5. QED
      BY <1>2, <3>2, <3>4
  <2>7. /\ chain2.payouts = chain.payouts + 1
        /\ chain2.payout_total = SatAdd(chain.payout_total, n)
        /\ chain2.reviews_upheld = chain.reviews_upheld
        /\ chain2.disputes_lost = chain.disputes_lost
    BY <1>6, <2>1, <2>2
  <2>8. Tells(row2, known2, pay \cup {g}, rev, dis, chain2)
    BY <2>3, <2>5, <2>6, <2>7, PaidTells
  <2>9. GuardsOf(r2.credited, c) = pay \cup {g}
    BY <1>10, <2>1
  <2>10. QED
    BY <1>6, <2>1, <2>2, <2>8, <2>9 DEF AccountTells
<1>9. QED
  BY <1>7, <1>8 DEF TableTells

\* One review more of those that the registry records at once.
LEMMA ReviewedRecord ==
  ASSUME NEW r0 \in RegistryState, NEW vs \in SUBSET Address, NEW c \in Address, c \notin vs,
         NEW i \in Issue, NEW m \in Slot, NEW r, r = ReviewsRecorded(r0, vs, i, m),
         NEW ws, ws = vs \cup {c}, NEW r2, r2 = ReviewsRecorded(r0, ws, i, m), NEW t, TableTells(t, r),
         NEW n, NEW u, u = rebuildReputation(t, Event("review_recorded", i, m, c, n))
  PROVE  TableTells(u, r2)
<1>1. PICK e, topic : /\ e = Event(topic, i, m, c, n) /\ topic = "review_recorded"
                      /\ topic \in RegistryTopics
  BY DEF RegistryTopics
<1>2. e.topic = "review_recorded"
  BY <1>1 DEF Event
<1>3. u = rebuildReputation(t, e)
  BY <1>1
<1>4. PICK g : g = <<c, i, m>>
  OBVIOUS
<1>5. /\ g \in GuardsOf(t.seen, c) =>
           RowOf(u, c) = RowOf(t, c) /\ GuardsOf(u.seen, c) = GuardsOf(t.seen, c)
      /\ g \notin GuardsOf(t.seen, c) =>
           /\ GuardsOf(u.seen, c) = GuardsOf(t.seen, c) \cup {g}
           /\ RowOf(u, c) = Gained(RowOf(t, c), e)
      /\ \A a : a # c =>
           RowOf(u, a) = RowOf(t, a) /\ GuardsOf(u.seen, a) = GuardsOf(t.seen, a)
  BY <1>1, <1>3, <1>4, RecordTaken
<1>7. r \in RegistryState
  BY ReviewsRecordedType
<1>8. /\ r.credited = r0.credited /\ r.dispute_credited = r0.dispute_credited
      /\ r.review_credited = r0.review_credited \cup ReviewGuards(vs, i, m)
      /\ \A a \in Address :
           /\ r.rep[a].payouts = r0.rep[a].payouts
           /\ r.rep[a].payout_total = r0.rep[a].payout_total
           /\ r.rep[a].reviews_upheld = IF a \in vs THEN r0.rep[a].reviews_upheld + 1
                                        ELSE r0.rep[a].reviews_upheld
           /\ r.rep[a].disputes_lost = r0.rep[a].disputes_lost
  BY ReviewsRecordedParts
<1>10. /\ r2.credited = r0.credited /\ r2.dispute_credited = r0.dispute_credited
       /\ r2.review_credited = r0.review_credited \cup ReviewGuards(ws, i, m)
       /\ \A a \in Address :
            /\ r2.rep[a].payouts = r0.rep[a].payouts
            /\ r2.rep[a].payout_total = r0.rep[a].payout_total
            /\ r2.rep[a].reviews_upheld = IF a \in ws THEN r0.rep[a].reviews_upheld + 1
                                          ELSE r0.rep[a].reviews_upheld
            /\ r2.rep[a].disputes_lost = r0.rep[a].disputes_lost
  BY ReviewsRecordedParts
<1>11. r2.review_credited = r.review_credited \cup {g}
  <2>1. ReviewGuards(ws, i, m) = ReviewGuards(vs, i, m) \cup {<<c, i, m>>}
    BY DEF ReviewGuards
  <2>2. QED
    BY <1>4, <1>8, <1>10, <2>1
<1>12. /\ GuardsOf(r2.review_credited, c) = GuardsOf(r.review_credited, c) \cup {g}
       /\ \A a : a # c => GuardsOf(r2.review_credited, a) = GuardsOf(r.review_credited, a)
  <2>1. PICK S, T : S = r.review_credited /\ T = r2.review_credited
    OBVIOUS
  <2>2. T = S \cup {<<c, i, m>>}
    BY <1>4, <1>11, <2>1
  <2>3. /\ GuardsOf(T, c) = GuardsOf(S, c) \cup {<<c, i, m>>}
        /\ \A a : a # c => GuardsOf(T, a) = GuardsOf(S, a)
    BY <2>2 DEF GuardsOf
  <2>4. QED
    BY <1>4, <2>1, <2>3
<1>13. ASSUME NEW a \in Address, a # c  PROVE AccountTells(u, r2, a)
  <2>1. PICK row, known, pay, rev, dis, chain, chain2 :
          /\ row = RowOf(t, a) /\ known = GuardsOf(t.seen, a)
          /\ pay = GuardsOf(r.credited, a) /\ rev = GuardsOf(r.review_credited, a)
          /\ dis = GuardsOf(r.dispute_credited, a) /\ chain = r.rep[a] /\ chain2 = r2.rep[a]
    OBVIOUS
  <2>2. Tells(row, known, pay, rev, dis, chain)
    BY <2>1 DEF TableTells, AccountTells
  <2>3. /\ chain2.payouts = chain.payouts /\ chain2.payout_total = chain.payout_total
        /\ chain2.reviews_upheld = chain.reviews_upheld
        /\ chain2.disputes_lost = chain.disputes_lost
    BY <1>8, <1>10, <1>13, <2>1
  <2>4. Tells(row, known, pay, rev, dis, chain2)
    BY <2>2, <2>3, SameTells
  <2>5. /\ row = RowOf(u, a) /\ known = GuardsOf(u.seen, a)
        /\ pay = GuardsOf(r2.credited, a) /\ rev = GuardsOf(r2.review_credited, a)
        /\ dis = GuardsOf(r2.dispute_credited, a)
    BY <1>5, <1>8, <1>10, <1>12, <1>13, <2>1
  <2>6. QED
    BY <2>1, <2>4, <2>5 DEF AccountTells
<1>14. AccountTells(u, r2, c)
  <2>1. PICK row, known, pay, rev, dis, chain :
          /\ row = RowOf(t, c) /\ known = GuardsOf(t.seen, c)
          /\ pay = GuardsOf(r.credited, c) /\ rev = GuardsOf(r.review_credited, c)
          /\ dis = GuardsOf(r.dispute_credited, c) /\ chain = r.rep[c]
    OBVIOUS
  <2>2. PICK row2, known2, chain2 :
          row2 = RowOf(u, c) /\ known2 = GuardsOf(u.seen, c) /\ chain2 = r2.rep[c]
    OBVIOUS
  <2>3. Tells(row, known, pay, rev, dis, chain) /\ chain \in Reputation
    BY <1>7, <2>1 DEF TableTells, AccountTells, RegistryState
  <2>4. row \in RepRow
    BY <2>3 DEF Tells
  <2>5. g \in known => row2 = row /\ known2 = known
    BY <1>5, <2>1, <2>2
  <2>6. g \notin known =>
           /\ known2 = known \cup {g} /\ row2 \in RepRow
           /\ row2.payouts = row.payouts /\ row2.payout_total = row.payout_total
           /\ row2.reviews_upheld = row.reviews_upheld + 1
           /\ row2.disputes_opened = row.disputes_opened
           /\ row2.disputes_lost = row.disputes_lost
    <3>1. SUFFICES ASSUME g \notin known
                   PROVE  /\ known2 = known \cup {g} /\ row2 \in RepRow
           /\ row2.payouts = row.payouts /\ row2.payout_total = row.payout_total
           /\ row2.reviews_upheld = row.reviews_upheld + 1
           /\ row2.disputes_opened = row.disputes_opened
           /\ row2.disputes_lost = row.disputes_lost
      BY Zenon
    <3>2. known2 = known \cup {g} /\ row2 = Gained(row, e)
      BY <1>5, <2>1, <2>2, <3>1
    <3>3. /\ row2 \in RepRow
          /\ row2.payouts = row.payouts /\ row2.payout_total = row.payout_total
          /\ row2.reviews_upheld = row.reviews_upheld + 1
          /\ row2.disputes_opened = row.disputes_opened
          /\ row2.disputes_lost = row.disputes_lost
      BY <1>2, <2>4, <3>2, GainedReview
    <3>4. QED
      BY <3>2, <3>3
  <2>7. /\ chain2.payouts = chain.payouts
        /\ chain2.payout_total = chain.payout_total
        /\ chain2.reviews_upheld = chain.reviews_upheld + 1
        /\ chain2.disputes_lost = chain.disputes_lost
    BY <1>8, <1>10, <2>1, <2>2
  <2>8. Tells(row2, known2, pay, rev \cup {g}, dis, chain2)
    BY <2>3, <2>5, <2>6, <2>7, ReviewedTells
  <2>9. /\ GuardsOf(r2.review_credited, c) = rev \cup {g}
        /\ GuardsOf(r2.credited, c) = pay /\ GuardsOf(r2.dispute_credited, c) = dis
    BY <1>8, <1>10, <1>12, <2>1
  <2>10. QED
    BY <2>2, <2>8, <2>9 DEF AccountTells
<1>15. QED
  BY <1>13, <1>14 DEF TableTells

\* The loss of a dispute, in the registry and as it is published.
LossNoted(r, c, i, m) == DisputeRecorded(r, c, i, m, TRUE)
LossEvent(c, i, m) == Event("dispute_recorded", i, m, c, TRUE)

LEMMA LostRecord ==
  ASSUME NEW r \in RegistryState, NEW c \in Address, NEW i, NEW m,
         <<c, i, m>> \notin r.dispute_credited,
         NEW r2, r2 = LossNoted(r, c, i, m), NEW t, TableTells(t, r),
         NEW u, u = rebuildReputation(t, LossEvent(c, i, m))
  PROVE  TableTells(u, r2)
<1>1. PICK lost \in BOOLEAN : lost = TRUE
  OBVIOUS
<1>2. PICK topic : topic = "dispute_recorded"
  OBVIOUS
<1>11. PICK e : e = Event(topic, i, m, c, lost)
  OBVIOUS
<1>12. topic \in RegistryTopics
  BY <1>2 DEF RegistryTopics
<1>13. e.topic = "dispute_recorded" /\ e.value = TRUE
  BY <1>1, <1>2, <1>11 DEF Event
<1>14. e = LossEvent(c, i, m)
  BY <1>1, <1>2, <1>11 DEF LossEvent
<1>15. r2 = DisputeRecorded(r, c, i, m, lost)
  BY <1>1 DEF LossNoted
<1>3. u = rebuildReputation(t, e)
  BY <1>14
<1>4. PICK g : g = <<c, i, m>>
  OBVIOUS
<1>5. /\ g \in GuardsOf(t.seen, c) =>
           RowOf(u, c) = RowOf(t, c) /\ GuardsOf(u.seen, c) = GuardsOf(t.seen, c)
      /\ g \notin GuardsOf(t.seen, c) =>
           /\ GuardsOf(u.seen, c) = GuardsOf(t.seen, c) \cup {g}
           /\ RowOf(u, c) = Gained(RowOf(t, c), e)
      /\ \A a : a # c =>
           RowOf(u, a) = RowOf(t, a) /\ GuardsOf(u.seen, a) = GuardsOf(t.seen, a)
  BY <1>11, <1>12, <1>3, <1>4, RecordTaken
<1>6. /\ r2.credited = r.credited
      /\ r2.review_credited = r.review_credited
      /\ r2.dispute_credited = r.dispute_credited \cup {<<c, i, m>>}
      /\ \A b \in Address : r2.rep[b].payout_total = r.rep[b].payout_total
      /\ r2.rep[c].payouts = r.rep[c].payouts
      /\ r2.rep[c].reviews_upheld = r.rep[c].reviews_upheld
      /\ lost => r2.rep[c].disputes_lost = r.rep[c].disputes_lost + 1
      /\ \A b \in Address \ {c} : r2.rep[b] = r.rep[b]
  BY <1>15, DisputeRecordedParts
<1>16. r2.rep[c].disputes_lost = r.rep[c].disputes_lost + 1
  BY <1>1, <1>6, Zenon
<1>7. /\ GuardsOf(r2.dispute_credited, c) = GuardsOf(r.dispute_credited, c) \cup {g}
      /\ g \notin GuardsOf(r.dispute_credited, c)
      /\ \A a : a # c => GuardsOf(r2.dispute_credited, a) = GuardsOf(r.dispute_credited, a)
  BY <1>4, <1>6 DEF GuardsOf
<1>8. ASSUME NEW a \in Address, a # c  PROVE AccountTells(u, r2, a)
  <2>1. /\ RowOf(u, a) = RowOf(t, a) /\ GuardsOf(u.seen, a) = GuardsOf(t.seen, a)
        /\ GuardsOf(r2.dispute_credited, a) = GuardsOf(r.dispute_credited, a)
        /\ r2.rep[a] = r.rep[a]
    BY <1>5, <1>6, <1>7, <1>8
  <2>2. AccountTells(t, r, a)
    BY DEF TableTells
  <2>3. QED
    BY <1>6, <2>1, <2>2 DEF AccountTells
<1>9. AccountTells(u, r2, c)
  <2>1. PICK row, known, pay, rev, dis, chain :
          /\ row = RowOf(t, c) /\ known = GuardsOf(t.seen, c)
          /\ pay = GuardsOf(r.credited, c) /\ rev = GuardsOf(r.review_credited, c)
          /\ dis = GuardsOf(r.dispute_credited, c) /\ chain = r.rep[c]
    OBVIOUS
  <2>2. PICK row2, known2, chain2 :
          row2 = RowOf(u, c) /\ known2 = GuardsOf(u.seen, c) /\ chain2 = r2.rep[c]
    OBVIOUS
  <2>3. Tells(row, known, pay, rev, dis, chain) /\ chain \in Reputation
    BY <2>1 DEF TableTells, AccountTells, RegistryState
  <2>4. row \in RepRow
    BY <2>3 DEF Tells
  <2>5. g \in known => row2 = row /\ known2 = known
    BY <1>5, <2>1, <2>2
  <2>6. g \notin known =>
           /\ known2 = known \cup {g} /\ row2 \in RepRow
           /\ row2.payouts = row.payouts /\ row2.payout_total = row.payout_total
           /\ row2.reviews_upheld = row.reviews_upheld
           /\ row2.disputes_opened = row.disputes_opened + 1
           /\ row2.disputes_lost = row.disputes_lost + 1
    <3>1. SUFFICES ASSUME g \notin known
                   PROVE  /\ known2 = known \cup {g} /\ row2 \in RepRow
           /\ row2.payouts = row.payouts /\ row2.payout_total = row.payout_total
           /\ row2.reviews_upheld = row.reviews_upheld
           /\ row2.disputes_opened = row.disputes_opened + 1
           /\ row2.disputes_lost = row.disputes_lost + 1
      BY Zenon
    <3>2. known2 = known \cup {g} /\ row2 = Gained(row, e)
      BY <1>5, <2>1, <2>2, <3>1
    <3>3. /\ row2 \in RepRow
          /\ row2.payouts = row.payouts /\ row2.payout_total = row.payout_total
          /\ row2.reviews_upheld = row.reviews_upheld
          /\ row2.disputes_opened = row.disputes_opened + 1
          /\ row2.disputes_lost = row.disputes_lost + 1
      BY <1>13, <2>4, <3>2, GainedLoss
    <3>4. QED
      BY <3>2, <3>3
  <2>7. /\ chain2.payouts = chain.payouts
        /\ chain2.payout_total = chain.payout_total
        /\ chain2.reviews_upheld = chain.reviews_upheld
        /\ chain2.disputes_lost = chain.disputes_lost + 1
    BY <1>6, <1>16, <2>1, <2>2
  <2>8. g \notin dis
    BY <1>7, <2>1
  <2>9. Tells(row2, known2, pay, rev, dis \cup {g}, chain2)
    BY <2>3, <2>5, <2>6, <2>7, <2>8, LostTells
  <2>10. GuardsOf(r2.dispute_credited, c) = dis \cup {g}
    BY <1>7, <2>1
  <2>11. QED
    BY <1>6, <2>1, <2>2, <2>9, <2>10 DEF AccountTells
<1>10. QED
  BY <1>8, <1>9 DEF TableTells

\* No review at all.
LEMMA NoReviewTells ==
  ASSUME NEW r \in RegistryState, NEW i, NEW m, NEW t, TableTells(t, r),
         NEW r2, r2 = ReviewsRecorded(r, {}, i, m)
  PROVE  TableTells(t, r2)
<1>1. PICK vs : vs = {}
  OBVIOUS
<1>2. r2 = ReviewsRecorded(r, vs, i, m)
  BY <1>1
<1>3. /\ r2.credited = r.credited /\ r2.dispute_credited = r.dispute_credited
      /\ r2.review_credited = r.review_credited \cup ReviewGuards(vs, i, m)
      /\ \A a \in Address :
           /\ r2.rep[a].payouts = r.rep[a].payouts
           /\ r2.rep[a].payout_total = r.rep[a].payout_total
           /\ r2.rep[a].reviews_upheld = IF a \in vs THEN r.rep[a].reviews_upheld + 1
                                         ELSE r.rep[a].reviews_upheld
           /\ r2.rep[a].disputes_lost = r.rep[a].disputes_lost
  BY <1>2, ReviewsRecordedParts
<1>4. ReviewGuards(vs, i, m) = {}
  BY <1>1 DEF ReviewGuards
<1>5. r2.review_credited = r.review_credited
  BY <1>3, <1>4
<1>6. ASSUME NEW a \in Address  PROVE AccountTells(t, r2, a)
  <2>1. PICK row, known, pay, rev, dis, chain, chain2 :
          /\ row = RowOf(t, a) /\ known = GuardsOf(t.seen, a)
          /\ pay = GuardsOf(r.credited, a) /\ rev = GuardsOf(r.review_credited, a)
          /\ dis = GuardsOf(r.dispute_credited, a) /\ chain = r.rep[a] /\ chain2 = r2.rep[a]
    OBVIOUS
  <2>2. Tells(row, known, pay, rev, dis, chain)
    BY <2>1 DEF TableTells, AccountTells
  <2>3. /\ chain2.payouts = chain.payouts /\ chain2.payout_total = chain.payout_total
        /\ chain2.reviews_upheld = chain.reviews_upheld
        /\ chain2.disputes_lost = chain.disputes_lost
    BY <1>1, <1>3, <2>1
  <2>4. Tells(row, known, pay, rev, dis, chain2)
    BY <2>2, <2>3, SameTells
  <2>5. QED
    BY <1>3, <1>5, <2>1, <2>4 DEF AccountTells
<1>7. QED
  BY <1>6 DEF TableTells

\* The reviews of a milestone, one event each.
LEMMA ReviewsTell ==
  ASSUME NEW r \in RegistryState, NEW V \in SUBSET Address, IsFiniteSet(V),
         NEW i \in Issue, NEW m \in Slot, NEW v, TableTells(v.reputation, r),
         NEW s, s = [k \in 1..Cardinality(V) |->
                       Event("review_recorded", i, m, SetToSeq(V)[k], 1)],
         NEW w, w = Folded(v, s), NEW r2, r2 = ReviewsRecorded(r, V, i, m)
  PROVE  IsSeq(s) /\ TableTells(w.reputation, r2)
<1> DEFINE f(c) == Event("review_recorded", i, m, c, 1)
<1>1. PICK n, q :
        /\ n = Cardinality(V) /\ q = SetToSeq(V) /\ n \in Nat /\ q \in [1..n -> V]
        /\ \A j, k \in 1..n : q[j] = q[k] => j = k
        /\ \A x \in V : \E k \in 1..n : q[k] = x
  BY ListOfSet
<1>2. s = [k \in 1..n |-> f(q[k])]
  BY <1>1
<1> HIDE DEF f
<1>3. PICK S : S = {f(q[k]) : k \in 1..n}
  OBVIOUS
<1>4. s \in [1..n -> S]
  BY <1>2, <1>3
<1>5. s \in Seq(S) /\ Len(s) = n
  BY <1>1, <1>4, SeqDef, LenProperties
<1>6. PICK p : IsRun(v, s, p) /\ p[n] = w
  BY <1>5, FoldedRuns
<1> DEFINE Taken(k) == {q[j] : j \in 1..k}
           R(k) == ReviewsRecorded(r, Taken(k), i, m)
           T == {k \in Nat : k <= n => TableTells(p[k].reputation, R(k))}
<1>7. 0 \in T
  <2>1. Taken(0) = {}
    OBVIOUS
  <2>2. p[0] = v
    BY <1>6 DEF IsRun
  <2>3. PICK x : x = R(0)
    OBVIOUS
  <2>4. x = ReviewsRecorded(r, {}, i, m)
    BY <2>1, <2>3
  <2>5. TableTells(v.reputation, x)
    BY <2>4, NoReviewTells
  <2>6. QED
    BY <2>2, <2>3, <2>5
<1>8. ASSUME NEW k \in Nat, k \in T  PROVE k + 1 \in T
  <2>1. SUFFICES ASSUME k + 1 <= n  PROVE TableTells(p[k + 1].reputation, R(k + 1))
    OBVIOUS
  <2>2. k + 1 \in 1..n /\ (k + 1) - 1 = k /\ k <= n
    BY <1>1, <2>1
  <2>3. PICK c, vs, ws : c = q[k + 1] /\ vs = Taken(k) /\ ws = Taken(k + 1)
    OBVIOUS
  <2>4. c \in V /\ c \in Address /\ vs \in SUBSET Address
    BY <1>1, <2>2, <2>3
  <2>5. c \notin vs
    BY <1>1, <2>2, <2>3
  <2>6. ws = vs \cup {c}
    <3>1. 1..(k + 1) = (1..k) \cup {k + 1}
      OBVIOUS
    <3>2. QED
      BY <2>3, <3>1
  <2>7. PICK t, u, x, y : /\ t = p[k].reputation /\ u = p[k + 1].reputation
                          /\ x = ReviewsRecorded(r, vs, i, m) /\ y = ReviewsRecorded(r, ws, i, m)
    OBVIOUS
  <2>8. p[k + 1] = rebuildReadModels(p[k], s[k + 1])
    BY <1>5, <1>6, <2>2 DEF IsRun
  <2>9. u = rebuildReputation(t, s[k + 1])
    BY <2>7, <2>8, RebuildTakesIn
  <2>10. s[k + 1] = f(c)
    BY <1>2, <2>2, <2>3
  <2>11. u = rebuildReputation(t, Event("review_recorded", i, m, c, 1))
    BY <2>9, <2>10 DEF f
  <2>12. TableTells(t, x)
    BY <1>8, <2>2, <2>3, <2>7
  <2>13. TableTells(u, y)
    BY <2>4, <2>5, <2>6, <2>7, <2>11, <2>12, ReviewedRecord
  <2>14. QED
    BY <2>3, <2>7, <2>13
<1>9. \A k \in Nat : k \in T
  <2> HIDE DEF T
  <2>1. QED
    BY <1>7, <1>8, NaturalInduction
<1>10. Taken(n) = V
  BY <1>1
<1>11. TableTells(w.reputation, r2)
  BY <1>1, <1>6, <1>9, <1>10
<1>12. QED
  BY <1>5, <1>11 DEF IsSeq

\* The writes of a payment.
LEMMA PayoutTells ==
  ASSUME EscrowTypeOK, NEW i \in DOMAIN bounty, NEW m \in Milestones(bounty[i]),
         bounty[i].contributor # NoOne, IsFiniteSet(bounty[i].reviewers),
         NEW v, TableTells(v.reputation, reg),
         NEW w, w = Folded(v, PayoutEvents(i, m)), NEW r, r = PayoutReputation(reg, i, m)
  PROVE  TableTells(w.reputation, r)
<1>1. PICK c, n, V : /\ c = bounty[i].contributor /\ n = bounty[i].amounts[m]
                     /\ V = Reviewed(i, m, "Approve")
  OBVIOUS
<1>2. c \in Address /\ n \in 0..MaxI128 /\ i \in Issue /\ m \in Slot /\ reg \in RegistryState
  <2>1. i \in Issue /\ bounty[i] \in Bounty
    BY StoredBounty
  <2>2. bounty[i].contributor \in Address
    BY <2>1, PartyTypes
  <2>3. m \in Slot /\ bounty[i].amounts[m] \in 0..MaxI128
    BY <2>1, MilestoneTypes, RegistryConstants
  <2>4. reg \in RegistryState
    BY DEF EscrowTypeOK, RegTypeOK
  <2>5. QED
    BY <1>1, <2>1, <2>2, <2>3, <2>4
<1>3. V \in SUBSET Address /\ IsFiniteSet(V)
  <2>1. V \subseteq bounty[i].reviewers
    BY <1>1 DEF Reviewed
  <2>2. bounty[i].reviewers \subseteq Address
    BY StoredBounty DEF Bounty
  <2>3. QED
    BY <2>1, <2>2, FS_Subset
<1>4. CASE config # "with registry"
  <2>1. PayoutEvents(i, m) = <<>> /\ r = reg
    BY <1>4 DEF PayoutEvents, PayoutReputation
  <2>2. w = v
    BY <2>1, FoldedNone
  <2>3. QED
    BY <2>1, <2>2
<1>5. CASE config = "with registry"
  <2>1. PICK e, s : /\ e = Event("contributor_recorded", i, m, c, n)
                    /\ s = [k \in 1..Cardinality(V) |->
                              Event("review_recorded", i, m, SetToSeq(V)[k], 1)]
    OBVIOUS
  <2>2. PayoutEvents(i, m) = <<e>> \o s
    BY <1>1, <1>5, <2>1, Zenon DEF PayoutEvents
  <2>3. PICK q : q = Recorded(reg, c, i, m, n)
    OBVIOUS
  <2>4. r = ReviewsRecorded(q, V, i, m)
    BY <1>1, <1>5, <2>3 DEF PayoutReputation
  <2>5. q \in RegistryState
    BY <1>2, <2>3, RecordedType
  <2>6. PICK x, t, u : /\ x = rebuildReadModels(v, e) /\ t = v.reputation
                       /\ u = x.reputation
    OBVIOUS
  <2>7. u = rebuildReputation(t, e)
    BY <2>6, RebuildTakesIn
  <2>8. u = rebuildReputation(t, Event("contributor_recorded", i, m, c, n))
    BY <2>1, <2>7
  <2>9. n \in Nat /\ TableTells(t, reg)
    BY <1>2, <2>6, RegistryConstants
  <2>10. TableTells(u, q)
    BY <1>2, <2>3, <2>8, <2>9, PaidRecord
  <2>11. PICK y : y = Folded(x, s)
    OBVIOUS
  <2>12. TableTells(x.reputation, q)
    BY <2>6, <2>10
  <2>13. IsSeq(s) /\ TableTells(y.reputation, r)
    BY <1>2, <1>3, <2>1, <2>4, <2>5, <2>11, <2>12, ReviewsTell
  <2>14. w = y
    BY <2>2, <2>6, <2>11, <2>13, FoldedFirst
  <2>15. QED
    BY <2>13, <2>14
<1>6. QED
  BY <1>4, <1>5

\* The write of a lost dispute.
LEMMA LossTells ==
  ASSUME EscrowTypeOK, NEW d \in Dispute, NEW pay, d.issue \in DOMAIN bounty,
         DisputeReputationAllowed(d, pay),
         NEW r \in RegistryState, r.dispute_credited = reg.dispute_credited,
         NEW v, TableTells(v.reputation, r),
         NEW w, w = Folded(v, LossEvents(d, pay)), NEW s, s = DisputeReputation(r, d, pay)
  PROVE  TableTells(w.reputation, s)
<1>1. PICK l, i, m : l = Loser(d, pay) /\ i = d.issue /\ m = d.milestone
  OBVIOUS
<1>2. CASE config = "with registry" /\ l # NoOne
  <2>1. l \in Address
    BY <1>1, <1>2, StoredBounty DEF Loser, Bounty
  <2>2. s = LossNoted(r, l, i, m)
    BY <1>1, <1>2 DEF DisputeReputation, LossNoted
  <2>3. <<l, i, m>> \notin r.dispute_credited
    BY <1>1, <1>2 DEF DisputeReputationAllowed, DisputeAllowed
  <2>4. PICK e : e = LossEvent(l, i, m)
    OBVIOUS
  <2>5. LossEvents(d, pay) = <<e>>
    BY <1>1, <1>2, <2>4 DEF LossEvents, LossEvent
  <2>6. w = rebuildReadModels(v, e)
    BY <2>5, FoldedOne
  <2>7. PICK t, u : t = v.reputation /\ u = w.reputation
    OBVIOUS
  <2>8. u = rebuildReputation(t, LossEvent(l, i, m))
    BY <2>4, <2>6, <2>7, RebuildTakesIn
  <2>9. TableTells(t, r)
    BY <2>7
  <2>10. TableTells(u, s)
    BY <2>1, <2>2, <2>3, <2>8, <2>9, LostRecord
  <2>11. QED
    BY <2>7, <2>10
<1>3. CASE ~(config = "with registry" /\ l # NoOne)
  <2>1. LossEvents(d, pay) = <<>> /\ s = r
    BY <1>1, <1>3 DEF LossEvents, DisputeReputation
  <2>2. w = v
    BY <2>1, FoldedNone
  <2>3. QED
    BY <2>1, <2>2
<1>4. QED
  BY <1>2, <1>3

\* Folding s and then t.
LEMMA ReputationBoth ==
  ASSUME NEW v, NEW s, NEW t, IsSeq(s), IsSeq(t), NEW u, u = Folded(v, s),
         NEW w, w = Folded(u, t)
  PROVE  Folded(v, s \o t) = w
BY FoldedBoth

\* The writes of an executed action.
LEMMA ExecutedTells ==
  ASSUME EscrowTypeOK, PanelsFinite, NEW a \in Proposable, Execute(a),
         NEW v, TableTells(v.reputation, reg), NEW w, w = Folded(v, RegistryEvents(a))
  PROVE  TableTells(w.reputation, reg')
<1>1. ASSUME NEW i \in DOMAIN bounty  PROVE IsFiniteSet(bounty[i].reviewers)
  BY DEF PanelsFinite
<1>2. CASE a.kind = "Release"
  <2>1. PICK i, m : i = a.issue /\ m = a.milestone
    OBVIOUS
  <2>2. apply_release(i, m)
    BY <1>2, <2>1 DEF Execute, execute_action
  <2>3. /\ i \in DOMAIN bounty /\ m \in Milestones(bounty[i])
        /\ bounty[i].contributor # NoOne /\ reg' = PayoutReputation(reg, i, m)
    BY <2>2 DEF apply_release
  <2>4. w = Folded(v, PayoutEvents(i, m))
    BY <1>2, <2>1 DEF RegistryEvents
  <2>5. PICK r : r = reg'
    OBVIOUS
  <2>6. r = PayoutReputation(reg, i, m)
    BY <2>3, <2>5
  <2>7. TableTells(w.reputation, r)
    BY <1>1, <2>3, <2>4, <2>6, PayoutTells
  <2>8. QED
    BY <2>5, <2>7
<1>3. CASE a.kind = "ResolveDispute"
  <2>1. PICK id, pay, d : id = a.id /\ pay = a.pay /\ d = dispute[a.id]
    OBVIOUS
  <2>2. PICK s, t : /\ s = IF a.pay THEN PayoutEvents(d.issue, d.milestone) ELSE <<>>
                    /\ t = LossEvents(d, a.pay)
    OBVIOUS
  <2>3. RegistryEvents(a) = s \o t
    BY <1>3, <2>1, <2>2 DEF RegistryEvents
  <2>4. PICK u, x : u = Folded(v, s) /\ x = Folded(u, t)
    OBVIOUS
  <2>5. CASE a.pay
    <3>1. ResolveByPaying(id)
      BY <1>3, <2>1, <2>5 DEF Execute, execute_action
    <3>2. Resolvable(id, TRUE)
      BY <3>1 DEF ResolveByPaying
    <3>3. /\ d \in Dispute /\ d.issue \in DOMAIN bounty
          /\ d.milestone \in Milestones(bounty[d.issue])
      BY <2>1, <3>2, ResolvableTypes
    <3>4. bounty[d.issue].contributor # NoOne
      BY <2>1, <3>2 DEF Resolvable
    <3>5. /\ PayoutReputationAllowed(d.issue, d.milestone)
          /\ DisputeReputationAllowed(d, TRUE)
          /\ reg' = DisputeReputation(PayoutReputation(reg, d.issue, d.milestone), d, TRUE)
      BY <2>1, <3>1 DEF ResolveByPaying
    <3>6. PICK i, m, r, z : /\ i = d.issue /\ m = d.milestone
                            /\ r = PayoutReputation(reg, i, m) /\ z = reg'
      OBVIOUS
    <3>7. s = PayoutEvents(i, m) /\ u = Folded(v, PayoutEvents(i, m))
      BY <2>2, <2>4, <2>5, <3>6
    <3>8. /\ i \in DOMAIN bounty /\ m \in Milestones(bounty[i])
          /\ bounty[i].contributor # NoOne /\ IsFiniteSet(bounty[i].reviewers)
          /\ PayoutReputationAllowed(i, m)
      BY <1>1, <3>3, <3>4, <3>5, <3>6
    <3>9. TableTells(u.reputation, r)
      BY <3>6, <3>7, <3>8, PayoutTells
    <3>10. r \in RegistryState /\ r.dispute_credited = reg.dispute_credited
      BY <3>6, <3>8, PayoutReputationEffect
    <3>11. PICK yes \in BOOLEAN : yes = TRUE
      OBVIOUS
    <3>12. /\ DisputeReputationAllowed(d, yes) /\ z = DisputeReputation(r, d, yes)
           /\ t = LossEvents(d, yes)
      <4>1. a.pay = yes
        BY <2>5, <3>11
      <4>2. QED
        BY <2>2, <3>5, <3>6, <3>11, <4>1
    <3>13. x = Folded(u, LossEvents(d, yes))
      BY <2>4, <3>12
    <3>14. TableTells(x.reputation, z)
      BY <3>3, <3>9, <3>10, <3>12, <3>13, LossTells
    <3>15. IsSeq(s) /\ IsSeq(t)
      <4>1. RegistrySeq(s) /\ RegistrySeq(t)
        BY <3>7, <3>8, <3>12, PayoutEventsSeq, LossEventsSeq
      <4>2. QED
        BY <4>1 DEF RegistrySeq, IsSeq
    <3>16. w = x
      BY <2>3, <2>4, <3>15, ReputationBoth
    <3>17. QED
      BY <3>6, <3>14, <3>16
  <2>6. CASE ~a.pay
    <3>1. ResolveByRefunding(id)
      BY <1>3, <2>1, <2>6 DEF Execute, execute_action
    <3>2. Resolvable(id, FALSE)
      BY <3>1 DEF ResolveByRefunding
    <3>3. d \in Dispute /\ d.issue \in DOMAIN bounty
      BY <2>1, <3>2, ResolvableTypes
    <3>4. DisputeReputationAllowed(d, FALSE) /\ reg' = DisputeReputation(reg, d, FALSE)
      BY <2>1, <3>1 DEF ResolveByRefunding
    <3>5. PICK no \in BOOLEAN : no = FALSE
      OBVIOUS
    <3>6. PICK q : q = reg'
      OBVIOUS
    <3>7. DisputeReputationAllowed(d, no) /\ q = DisputeReputation(reg, d, no)
          /\ t = LossEvents(d, no)
      <4>1. a.pay \in BOOLEAN
        BY <1>3, EscrowConstants DEF EscrowAction, SignerAction
      <4>2. a.pay = no
        BY <2>6, <3>5, <4>1
      <4>3. QED
        BY <2>2, <3>4, <3>5, <3>6, <4>2
    <3>8. s = <<>> /\ u = v
      BY <2>2, <2>4, <2>6, FoldedNone
    <3>9. x = Folded(u, LossEvents(d, no)) /\ TableTells(u.reputation, reg)
      BY <2>4, <3>7, <3>8
    <3>10. reg \in RegistryState
      BY DEF EscrowTypeOK, RegTypeOK
    <3>11. TableTells(x.reputation, q)
      BY <3>3, <3>7, <3>9, <3>10, LossTells
    <3>12. IsSeq(s) /\ IsSeq(t)
      <4>1. RegistrySeq(t)
        BY <3>7, LossEventsSeq
      <4>2. QED
        BY <3>8, <4>1, IsSeqNone DEF RegistrySeq, IsSeq
    <3>13. w = x
      BY <2>3, <2>4, <3>12, ReputationBoth
    <3>14. QED
      BY <3>6, <3>11, <3>13
  <2>7. QED
    BY <2>5, <2>6
<1>4. CASE a.kind \notin {"Release", "ResolveDispute"}
  <2>1. RegistryEvents(a) = <<>>
    BY <1>4 DEF RegistryEvents
  <2>2. w = v
    BY <2>1, FoldedNone
  <2>3. reg' = reg
    BY <1>4 DEF Execute, execute_action, apply_reclaim, RefundRemaining,
                apply_set_reviewers, escrowVars
  <2>4. QED
    BY <2>2, <2>3
<1>5. QED
  BY <1>2, <1>3, <1>4

LEMMA AdministerTells ==
  ASSUME RegTypeOK, Administer, NEW t, TableTells(t, reg)
  PROVE  TableTells(t, reg')
<1>1. PICK r : r = reg'
  OBVIOUS
<1>2. /\ r.credited = reg.credited /\ r.review_credited = reg.review_credited
      /\ r.dispute_credited = reg.dispute_credited /\ r.rep = reg.rep
  BY <1>1 DEF Administer, RegistryInit, SetAllowedCaller, RegTypeOK, RegistryState
<1>3. QED
  BY <1>1, <1>2 DEF TableTells, AccountTells

ReputationInv == TableTells(CaughtUp.reputation, reg)

LEMMA ReputationStep ==
  ASSUME GovernanceInv, PanelsFinite, TablesInv, ReputationInv, [ReadNext]_readVars
  PROVE  ReputationInv'
<1>1. EscrowTypeOK /\ RegTypeOK
  BY DEF GovernanceInv, BountyTypeOK, EscrowTypeOK
<1>2. PICK v, t : v = CaughtUp /\ t = CaughtUp'.reputation
  OBVIOUS
<1>3. CASE UserPublishes
  <2>1. t = v.reputation /\ reg' = reg
    BY <1>2, <1>3 DEF UserPublishes, Publishes
  <2>2. QED
    BY <1>2, <2>1 DEF ReputationInv
<1>4. CASE Quiet
  <2>1. t = v.reputation
    BY <1>2, <1>4 DEF Quiet
  <2>2. CASE UNCHANGED reg
    BY <1>2, <2>1, <2>2 DEF ReputationInv
  <2>3. CASE Administer
    BY <1>1, <1>2, <2>1, <2>3, AdministerTells DEF ReputationInv
  <2>4. QED
    BY <1>4, <2>2, <2>3 DEF Quiet
<1>5. ASSUME NEW a \in Proposable, Executes(a)  PROVE ReputationInv'
  <2>1. Execute(a) /\ t = Folded(v, RegistryEvents(a)).reputation
    BY <1>2, <1>5 DEF Executes
  <2>2. PICK w : w = Folded(v, RegistryEvents(a))
    OBVIOUS
  <2>3. TableTells(v.reputation, reg)
    BY <1>2 DEF ReputationInv
  <2>4. TableTells(w.reputation, reg')
    BY <1>1, <2>1, <2>2, <2>3, ExecutedTells
  <2>5. QED
    BY <1>2, <2>1, <2>2, <2>4 DEF ReputationInv
<1>6. QED
  BY <1>3, <1>4, <1>5, StepEffect DEF Moves

LEMMA ReadInitReputation ==
  ASSUME ReadInit
  PROVE  ReputationInv
<1>1. PICK t : t = CaughtUp.reputation
  OBVIOUS
<1>2. t = [seen |-> {}, rep |-> Empty]
  BY <1>1, ReadInitTables DEF ReadInit
<1>3. reg = FreshRegistry
  BY DEF ReadInit, Init, EscrowInit, RegInit
<1>4. ASSUME NEW a \in Address  PROVE AccountTells(t, reg, a)
  <2>1. PICK row, chain, none :
          row = RowOf(t, a) /\ chain = reg.rep[a] /\ none = GuardsOf({}, a)
    OBVIOUS
  <2>2. row = NoReputation /\ chain = NoReputation
    BY <1>2, <1>3, <2>1 DEF RowOf, Lookup, Empty, FreshRegistry
  <2>3. none = {} /\ IsFiniteSet(none) /\ Cardinality(none) = 0
    BY <2>1, FS_EmptySet DEF GuardsOf
  <2>4. /\ GuardsOf(t.seen, a) = none /\ GuardsOf(reg.credited, a) = none
        /\ GuardsOf(reg.review_credited, a) = none /\ GuardsOf(reg.dispute_credited, a) = none
    BY <1>2, <1>3, <2>1 DEF FreshRegistry
  <2>5. row \in RepRow
    BY <2>2 DEF NoReputation, RepRow
  <2>6. /\ row.payouts = 0 /\ row.reviews_upheld = 0 /\ row.disputes_opened = 0
        /\ row.disputes_lost = 0 /\ row.payout_total = 0
    BY <2>2 DEF NoReputation
  <2>7. chain = row
    BY <2>2
  <2>8. Tells(row, none, none, none, none, chain)
    BY <2>3, <2>5, <2>6, <2>7 DEF Tells
  <2>9. QED
    BY <2>1, <2>4, <2>8 DEF AccountTells
<1>5. QED
  BY <1>1, <1>4 DEF ReputationInv, TableTells

LEMMA ReputationCorrect ==
  ReadSpec => [](GovernanceInv /\ ReputationInv)
<1>1. ReadInit => ReputationInv
  BY ReadInitReputation
<1>2. GovernanceInv /\ PanelsFinite /\ TablesInv /\ ReputationInv /\ [ReadNext]_readVars
        => ReputationInv'
  BY ReputationStep
<1>3. QED
  BY <1>1, <1>2, TablesCorrect, PTL DEF ReadSpec

\* The score, without the sets.
LEMMA ScoreIs ==
  ASSUME NEW r, NEW x \in Int, x = 12 * r.payouts + 10 * r.reviews_upheld - 15 * r.disputes_lost
  PROVE  reputationScore(r) = IF x < 0 THEN 0 ELSE IF x > 1000 THEN 1000 ELSE x
<1>1. PICK least : least = Min({1000, x})
  OBVIOUS
<1>2. least = IF x > 1000 THEN 1000 ELSE x
  <2>1. \E y \in {1000, x} : \A z \in {1000, x} : y <= z
    OBVIOUS
  <2>2. least \in {1000, x} /\ \A z \in {1000, x} : least <= z
    BY <1>1, <2>1 DEF Min
  <2>3. QED
    BY <2>2
<1>3. PICK most : most = Max({0, least})
  OBVIOUS
<1>4. most = IF least < 0 THEN 0 ELSE least
  <2>1. least \in Int
    BY <1>2
  <2>2. \E y \in {0, least} : \A z \in {0, least} : y >= z
    BY <2>1
  <2>3. most \in {0, least} /\ \A z \in {0, least} : most >= z
    BY <1>3, <2>2 DEF Max
  <2>4. QED
    BY <2>1, <2>3
<1>5. reputationScore(r) = most
  BY <1>1, <1>3 DEF reputationScore
<1>6. QED
  BY <1>2, <1>4, <1>5

LEMMA NoHigherScore ==
  ASSUME NEW r, NEW s, r.payouts \in Nat, r.reviews_upheld \in Nat, r.disputes_lost \in Nat,
         s.payouts \in Nat, s.reviews_upheld \in Nat, s.disputes_lost = r.disputes_lost,
         r.payouts <= s.payouts, r.reviews_upheld <= s.reviews_upheld
  PROVE  reputationScore(r) <= reputationScore(s)
<1>1. PICK x \in Int : x = 12 * r.payouts + 10 * r.reviews_upheld - 15 * r.disputes_lost
  OBVIOUS
<1>2. PICK y \in Int : y = 12 * s.payouts + 10 * s.reviews_upheld - 15 * s.disputes_lost
  OBVIOUS
<1>3. x <= y
  BY <1>1, <1>2
<1>4. /\ reputationScore(r) = IF x < 0 THEN 0 ELSE IF x > 1000 THEN 1000 ELSE x
      /\ reputationScore(s) = IF y < 0 THEN 0 ELSE IF y > 1000 THEN 1000 ELSE y
  BY <1>1, <1>2, ScoreIs
<1>5. QED
  BY <1>3, <1>4

\* The index never credits an account with more payouts, upheld reviews or lost
\* disputes than the registry: it keeps one record per account and milestone, and
\* the score is too high only if the record that it misses is a lost dispute.
THEOREM IndexNeverOverstates == ReadSpec => []ReputationIsNeverOverstated
<1>1. GovernanceInv /\ ReputationInv => ReputationIsNeverOverstated
  <2>1. SUFFICES ASSUME GovernanceInv, ReputationInv  PROVE ReputationIsNeverOverstated
    OBVIOUS
  <2>2. reg \in RegistryState
    BY <2>1 DEF GovernanceInv, BountyTypeOK, EscrowTypeOK, RegTypeOK
  <2>3. ASSUME NEW a \in Address, NEW mine, NEW chain,
               mine = Lookup(CaughtUp.reputation.rep, a, NoReputation), chain = reg.rep[a]
        PROVE  /\ mine.payouts <= chain.payouts
               /\ mine.reviews_upheld <= chain.reviews_upheld
               /\ mine.disputes_lost <= chain.disputes_lost
               /\ mine.payouts + mine.reviews_upheld + mine.disputes_opened
                    = Cardinality(GuardsOf(reg.credited, a)
                        \cup GuardsOf(reg.review_credited, a)
                        \cup GuardsOf(reg.dispute_credited, a))
               /\ GuardsOf(reg.dispute_credited, a)
                    \cap (GuardsOf(reg.credited, a) \cup GuardsOf(reg.review_credited, a)) = {}
                    => reputationScore(mine) <= reputationScore(chain)
    <3>1. PICK pay, rev, dis, known :
            /\ pay = GuardsOf(reg.credited, a) /\ rev = GuardsOf(reg.review_credited, a)
            /\ dis = GuardsOf(reg.dispute_credited, a)
            /\ known = GuardsOf(CaughtUp.reputation.seen, a)
      OBVIOUS
    <3>2. Tells(mine, known, pay, rev, dis, chain)
      BY <2>1, <2>3, <3>1 DEF ReputationInv, TableTells, AccountTells, RowOf
    <3>3. chain \in Reputation
      BY <2>2, <2>3 DEF RegistryState
    <3>4. /\ mine \in RepRow
          /\ known = pay \cup rev \cup dis
          /\ mine.payouts <= chain.payouts
          /\ mine.reviews_upheld <= chain.reviews_upheld
          /\ mine.disputes_lost <= chain.disputes_lost
          /\ mine.payouts + mine.reviews_upheld + mine.disputes_opened = Cardinality(known)
          /\ dis \cap (pay \cup rev) = {} => mine.disputes_lost = chain.disputes_lost
      BY <3>2 DEF Tells
    <3>5. /\ mine.payouts \in Nat /\ mine.reviews_upheld \in Nat /\ mine.disputes_lost \in Nat
          /\ chain.payouts \in Nat /\ chain.reviews_upheld \in Nat
      BY <3>3, <3>4 DEF RepRow, Reputation
    <3>6. dis \cap (pay \cup rev) = {} => reputationScore(mine) <= reputationScore(chain)
      BY <3>4, <3>5, NoHigherScore
    <3>7. QED
      BY <3>1, <3>4, <3>6
  <2>4. QED
    BY <2>3 DEF ReputationIsNeverOverstated
<1>2. QED
  BY <1>1, ReputationCorrect, PTL

-----------------------------------------------------------------------------
(* The tables between two passes.                                          *)

Longer(S, a, s) == \E u \in Seq(S) : a = s \o u

Starts(s, a) == Len(s) <= Len(a) /\ \A i \in 1..Len(s) : a[i] = s[i]

\* A sequence that begins with the elements of another one continues it.
LEMMA Continues ==
  ASSUME NEW S, NEW s \in Seq(S), NEW a \in Seq(S), Starts(s, a)
  PROVE  Longer(S, a, s)
<1>1. PICK m, k : m = Len(a) /\ k = Len(s) /\ m \in Nat /\ k \in Nat
  BY LenProperties
<1>2. k <= m /\ \A i \in 1..m : a[i] \in S
  BY <1>1, ElementOfSeq DEF Starts
<1>3. PICK c, u : c = SubSeq(a, 1, k) /\ u = SubSeq(a, k + 1, m)
  OBVIOUS
<1>4. c \in Seq(S) /\ Len(c) = k /\ \A i \in 1..k : c[i] = a[i]
  <2>1. \A i \in 1..k : a[i] \in S
    BY <1>1, <1>2
  <2>2. /\ c \in Seq(S) /\ Len(c) = (IF 1 <= k THEN k - 1 + 1 ELSE 0)
        /\ \A i \in 1..(k - 1 + 1) : c[i] = a[1 + i - 1]
    BY <1>1, <1>3, <2>1, SubSeqProperties
  <2>3. QED
    BY <1>1, <2>2
<1>5. u \in Seq(S)
  <2>1. \A i \in (k + 1)..m : a[i] \in S
    BY <1>1, <1>2
  <2>2. QED
    BY <1>1, <1>3, <2>1, SubSeqProperties
<1>6. c = s
  BY <1>1, <1>4, SeqEqual DEF Starts
<1>7. c \o u = a
  <2>1. 1 \in 1..(m + 1) /\ k \in (1 - 1)..m /\ m \in k..m
    BY <1>1, <1>2
  <2>2. SubSeq(a, 1, k) \o SubSeq(a, k + 1, m) = SubSeq(a, 1, m)
    BY <1>1, <2>1, ConcatAdjacentSubSeq
  <2>3. QED
    BY <1>1, <1>3, <2>2, SubSeqFull
<1>8. QED
  BY <1>5, <1>6, <1>7 DEF Longer

LEMMA Regrouped ==
  ASSUME NEW S, NEW a \in Seq(S), NEW b \in Seq(S), NEW c \in Seq(S),
         NEW d, d = b \o c
  PROVE  (a \o b) \o c = a \o d
BY ConcatAssociative

LEMMA Cancelled ==
  ASSUME NEW S, NEW a \in Seq(S), NEW b \in Seq(S), NEW c \in Seq(S), a \o b = a \o c
  PROVE  b = c
<1>1. PICK m, n, k : /\ m = Len(a) /\ n = Len(b) /\ k = Len(c)
                     /\ m \in Nat /\ n \in Nat /\ k \in Nat
  BY LenProperties
<1>2. n = k
  BY <1>1, ConcatProperties
<1>3. ASSUME NEW i \in 1..n  PROVE b[i] = c[i]
  <2>1. PICK j : j = m + i
    OBVIOUS
  <2>2. j \in 1..(m + n) /\ j \in 1..(m + k) /\ ~(j <= m) /\ j - m = i
    BY <1>1, <1>2, <2>1
  <2>3. (a \o b)[j] = b[i] /\ (a \o c)[j] = c[i]
    BY <1>1, <2>2, ConcatProperties
  <2>4. QED
    BY <2>3
<1>4. QED
  BY <1>1, <1>2, <1>3, SeqEqual

\* Two ways to cut one sequence, and that the second one cuts a at u.
SameWhole(a, b, s, t) == a \o b = s \o t

CutAt(a, b, s, t, u) == a = s \o u /\ t = u \o b

LEMMA ShorterPart ==
  ASSUME NEW S, NEW a \in Seq(S), NEW b \in Seq(S), NEW s \in Seq(S), NEW t \in Seq(S),
         SameWhole(a, b, s, t), Len(s) <= Len(a)
  PROVE  \E u \in Seq(S) : CutAt(a, b, s, t, u)
<1>1. PICK m, k : m = Len(a) /\ k = Len(s) /\ m \in Nat /\ k \in Nat
  BY LenProperties
<1>2. Len(b) \in Nat /\ Len(t) \in Nat
  BY LenProperties
<1>3. \A i \in 1..m : (a \o b)[i] = a[i]
  <2>1. \A i \in 1..m : i \in 1..(m + Len(b)) /\ i <= m
    BY <1>1, <1>2
  <2>2. QED
    BY <1>1, <2>1, ConcatProperties
<1>4. \A i \in 1..k : (s \o t)[i] = s[i]
  <2>1. \A i \in 1..k : i \in 1..(k + Len(t)) /\ i <= k
    BY <1>1, <1>2
  <2>2. QED
    BY <1>1, <2>1, ConcatProperties
<1>5. Starts(s, a)
  <2>1. \A i \in 1..k : i \in 1..m
    BY <1>1
  <2>2. \A i \in 1..k : a[i] = s[i]
    BY <1>3, <1>4, <2>1 DEF SameWhole
  <2>3. QED
    BY <1>1, <2>2 DEF Starts
<1>6. Longer(S, a, s)
  BY <1>5, Continues
<1>7. PICK u \in Seq(S) : a = s \o u
  BY <1>6 DEF Longer
<1>8. PICK w : w = u \o b
  OBVIOUS
<1>9. w \in Seq(S)
  BY <1>8, ConcatProperties
<1>10. a \o b = s \o w
  <2>1. (s \o u) \o b = s \o w
    BY <1>8, Regrouped
  <2>2. QED
    BY <1>7, <2>1
<1>11. t = w
  <2>1. s \o t = s \o w
    BY <1>10 DEF SameWhole
  <2>2. QED
    BY <1>9, <2>1, Cancelled
<1>12. QED
  BY <1>7, <1>8, <1>11 DEF CutAt

\* One of the two cuts the first part of the other.
LEMMA TwoCuts ==
  ASSUME NEW a, NEW b, NEW s, NEW t, IsSeq(a), IsSeq(b), IsSeq(s), IsSeq(t),
         SameWhole(a, b, s, t)
  PROVE  \E u : IsSeq(u) /\ (CutAt(a, b, s, t, u) \/ CutAt(s, t, a, b, u))
<1>1. PICK A : a \in Seq(A) /\ b \in Seq(A)
  BY IsSeqConcat
<1>2. PICK B : s \in Seq(B) /\ t \in Seq(B)
  BY IsSeqConcat
<1>3. PICK S : S = A \cup B
  OBVIOUS
<1>4. /\ a \in Seq(S) /\ b \in Seq(S)
      /\ s \in Seq(S) /\ t \in Seq(S)
  BY <1>1, <1>2, <1>3, SeqMonotonic
<1>5. SameWhole(s, t, a, b)
  BY DEF SameWhole
<1>6. Len(a) \in Nat /\ Len(s) \in Nat
  BY <1>4, LenProperties
<1>7. Len(s) <= Len(a) \/ Len(a) <= Len(s)
  BY <1>6
<1>8. PICK u \in Seq(S) : CutAt(a, b, s, t, u) \/ CutAt(s, t, a, b, u)
  BY <1>4, <1>5, <1>7, ShorterPart
<1>9. QED
  BY <1>8 DEF IsSeq

LEMMA RegroupedOf ==
  ASSUME NEW a, NEW b, NEW c, IsSeq(a), IsSeq(b), IsSeq(c), NEW d, d = b \o c
  PROVE  (a \o b) \o c = a \o d
<1>1. PICK A : a \in Seq(A) /\ b \in Seq(A)
  BY IsSeqConcat
<1>2. PICK B : c \in Seq(B)
  BY DEF IsSeq
<1>3. PICK S : S = A \cup B
  OBVIOUS
<1>4. a \in Seq(S) /\ b \in Seq(S) /\ c \in Seq(S)
  BY <1>1, <1>2, <1>3, SeqMonotonic
<1>5. QED
  BY <1>4, Regrouped

LEMMA MembersOfConcat ==
  ASSUME NEW a, NEW b, IsSeq(a), IsSeq(b)
  PROVE  Members(a \o b) = Members(a) \cup Members(b)
<1>1. PICK S : a \in Seq(S) /\ b \in Seq(S) /\ a \o b \in Seq(S)
  BY IsSeqConcat
<1>2. PICK m, n : m = Len(a) /\ n = Len(b) /\ m \in Nat /\ n \in Nat
  BY <1>1, LenProperties
<1>3. PICK c : c = a \o b
  OBVIOUS
<1>4. /\ Len(c) = m + n
      /\ \A k \in 1..(m + n) : c[k] = IF k <= m THEN a[k] ELSE b[k - m]
  BY <1>1, <1>2, <1>3, ConcatProperties
<1>5. DOMAIN a = 1..m /\ DOMAIN b = 1..n /\ DOMAIN c = 1..(m + n)
  BY <1>1, <1>2, <1>3, <1>4, LenProperties
<1>6. ASSUME NEW k \in 1..(m + n)  PROVE c[k] \in Members(a) \cup Members(b)
  <2>1. CASE k <= m
    <3>1. k \in 1..m /\ c[k] = a[k]
      BY <1>2, <1>4, <2>1
    <3>2. QED
      BY <1>5, <3>1 DEF Members
  <2>2. CASE ~(k <= m)
    <3>1. PICK j : j = k - m
      OBVIOUS
    <3>2. j \in 1..n /\ c[k] = b[j]
      BY <1>2, <1>4, <2>2, <3>1
    <3>3. QED
      BY <1>5, <3>2 DEF Members
  <2>3. QED
    BY <2>1, <2>2
<1>7. ASSUME NEW k \in 1..m  PROVE a[k] \in Members(c)
  <2>1. k \in 1..(m + n) /\ k <= m
    BY <1>2
  <2>2. c[k] = a[k]
    BY <1>4, <2>1
  <2>3. QED
    BY <1>5, <2>1, <2>2 DEF Members
<1>8. ASSUME NEW k \in 1..n  PROVE b[k] \in Members(c)
  <2>1. PICK j : j = m + k
    OBVIOUS
  <2>2. j \in 1..(m + n) /\ ~(j <= m) /\ j - m = k
    BY <1>2, <2>1
  <2>3. c[j] = b[k]
    BY <1>4, <2>2
  <2>4. QED
    BY <1>5, <2>2, <2>3 DEF Members
<1>9. Members(c) \subseteq Members(a) \cup Members(b)
  BY <1>5, <1>6 DEF Members
<1>10. Members(a) \subseteq Members(c) /\ Members(b) \subseteq Members(c)
  BY <1>5, <1>7, <1>8 DEF Members
<1>11. QED
  BY <1>3, <1>9, <1>10

LEMMA MembersOfOne ==
  ASSUME NEW e
  PROVE  Members(<<e>>) = {e} /\ Members(<<>>) = {}
BY DEF Members

\* No event of a sequence is about bounties.
NoBounty(s) == IsSeq(s) /\ \A e \in Members(s) : e.topic \notin BountyTopics

\* At most one is: of two parts of the sequence, one has none.
OneBounty(s) ==
  /\ IsSeq(s)
  /\ \A u, t : IsSeq(u) /\ IsSeq(t) /\ s = u \o t => NoBounty(u) \/ NoBounty(t)

LEMMA NoBountyConcat ==
  ASSUME NEW s, NEW t, IsSeq(s), IsSeq(t)
  PROVE  NoBounty(s \o t) <=> NoBounty(s) /\ NoBounty(t)
<1>1. IsSeq(s \o t)
  BY IsSeqConcat DEF IsSeq
<1>2. QED
  BY <1>1, MembersOfConcat DEF NoBounty

LEMMA OneBountyOne == ASSUME NEW e PROVE OneBounty(<<e>>)
<1>1. IsSeq(<<e>>)
  BY IsSeqOne
<1>2. ASSUME NEW u, NEW t, IsSeq(u), IsSeq(t), <<e>> = u \o t
      PROVE  NoBounty(u) \/ NoBounty(t)
  <2>1. PICK S : u \in Seq(S) /\ t \in Seq(S) /\ u \o t \in Seq(S)
    BY <1>2, IsSeqConcat
  <2>2. PICK m, n : m = Len(u) /\ n = Len(t) /\ m \in Nat /\ n \in Nat
    BY <2>1, LenProperties
  <2>3. Len(u \o t) = m + n
    BY <2>1, <2>2, ConcatProperties
  <2>4. m + n = 1
    BY <1>2, <2>3
  <2>5. m = 0 \/ n = 0
    BY <2>2, <2>4
  <2>6. u = <<>> \/ t = <<>>
    BY <2>1, <2>2, <2>5, EmptySeq
  <2>7. NoBounty(<<>>)
    BY IsSeqNone, MembersOfOne DEF NoBounty
  <2>8. QED
    BY <2>6, <2>7
<1>3. QED
  BY <1>1, <1>2 DEF OneBounty

LEMMA OneBountyNone ==
  ASSUME NEW s, NoBounty(s)
  PROVE  OneBounty(s)
BY NoBountyConcat DEF OneBounty, NoBounty

LEMMA OneBountyLater ==
  ASSUME NEW s, NEW t, NoBounty(s), OneBounty(t)
  PROVE  OneBounty(s \o t)
<1>1. IsSeq(s) /\ IsSeq(t) /\ IsSeq(s \o t)
  BY IsSeqConcat DEF NoBounty, OneBounty, IsSeq
<1>2. ASSUME NEW x, NEW y, IsSeq(x), IsSeq(y), SameWhole(s, t, x, y)
      PROVE  NoBounty(x) \/ NoBounty(y)
  <2>1. PICK u : IsSeq(u) /\ (CutAt(s, t, x, y, u) \/ CutAt(x, y, s, t, u))
    BY <1>1, <1>2, TwoCuts
  <2>2. CASE CutAt(s, t, x, y, u)
    BY <1>2, <2>1, <2>2, NoBountyConcat DEF CutAt
  <2>3. CASE CutAt(x, y, s, t, u)
    <3>1. NoBounty(u) \/ NoBounty(y)
      BY <1>2, <2>1, <2>3 DEF OneBounty, CutAt
    <3>2. NoBounty(u) => NoBounty(x)
      BY <1>1, <2>1, <2>3, NoBountyConcat DEF CutAt
    <3>3. QED
      BY <3>1, <3>2
  <2>4. QED
    BY <2>1, <2>2, <2>3
<1>3. QED
  BY <1>1, <1>2 DEF OneBounty, SameWhole

LEMMA OneBountySooner ==
  ASSUME NEW s, NEW t, OneBounty(s), NoBounty(t)
  PROVE  OneBounty(s \o t)
<1>1. IsSeq(s) /\ IsSeq(t) /\ IsSeq(s \o t)
  BY IsSeqConcat DEF NoBounty, OneBounty, IsSeq
<1>2. ASSUME NEW x, NEW y, IsSeq(x), IsSeq(y), SameWhole(s, t, x, y)
      PROVE  NoBounty(x) \/ NoBounty(y)
  <2>1. PICK u : IsSeq(u) /\ (CutAt(s, t, x, y, u) \/ CutAt(x, y, s, t, u))
    BY <1>1, <1>2, TwoCuts
  <2>2. CASE CutAt(s, t, x, y, u)
    <3>1. NoBounty(x) \/ NoBounty(u)
      BY <1>2, <2>1, <2>2 DEF OneBounty, CutAt
    <3>2. NoBounty(u) => NoBounty(y)
      BY <1>1, <2>1, <2>2, NoBountyConcat DEF CutAt
    <3>3. QED
      BY <3>1, <3>2
  <2>3. CASE CutAt(x, y, s, t, u)
    BY <1>2, <2>1, <2>3, NoBountyConcat DEF CutAt
  <2>4. QED
    BY <2>1, <2>2, <2>3
<1>3. QED
  BY <1>1, <1>2 DEF OneBounty, SameWhole

\* Events that are not about bounties leave the bounties table as it is.
LEMMA NoBountyFold ==
  ASSUME NEW v, NEW s, NoBounty(s)
  PROVE  Folded(v, s).bounties = v.bounties
<1>1. PICK S : s \in Seq(S)
  BY DEF NoBounty, IsSeq
<1>2. PICK p : IsRun(v, s, p) /\ p[Len(s)] = Folded(v, s)
  BY <1>1, FoldedRuns
<1>3. Len(s) \in Nat /\ DOMAIN s = 1..Len(s)
  BY <1>1, LenProperties
<1> DEFINE T == {n \in Nat : n <= Len(s) => p[n].bounties = v.bounties}
<1>4. 0 \in T
  BY <1>2 DEF IsRun
<1>5. ASSUME NEW n \in Nat, n \in T  PROVE n + 1 \in T
  <2>1. SUFFICES ASSUME n + 1 <= Len(s)  PROVE p[n + 1].bounties = v.bounties
    OBVIOUS
  <2>2. n + 1 \in 1..Len(s) /\ (n + 1) - 1 = n /\ n <= Len(s)
    BY <1>3, <2>1
  <2>3. PICK u, w, e : u = p[n] /\ w = p[n + 1] /\ e = s[n + 1]
    OBVIOUS
  <2>4. w = rebuildReadModels(u, e)
    BY <1>2, <2>2, <2>3 DEF IsRun
  <2>5. e.topic \notin BountyTopics
    BY <1>3, <2>2, <2>3 DEF NoBounty, Members
  <2>6. w.bounties = u.bounties
    BY <2>4, <2>5, RebuildTakesIn, OtherBountyTopic DEF TakeIn
  <2>7. QED
    BY <1>5, <2>2, <2>3, <2>6
<1>6. \A n \in Nat : n \in T
  <2> HIDE DEF T
  <2>1. QED
    BY <1>4, <1>5, NaturalInduction
<1>7. QED
  BY <1>2, <1>3, <1>6

\* So a part of a transaction's events shows the bounties from before it or those
\* from after it.
LEMMA OneBountyFold ==
  ASSUME NEW v, NEW u, NEW t, IsSeq(u), IsSeq(t), NEW s, s = u \o t, OneBounty(s)
  PROVE  Folded(v, u).bounties \in {v.bounties, Folded(v, s).bounties}
<1>1. NoBounty(u) \/ NoBounty(t)
  BY DEF OneBounty
<1>2. CASE NoBounty(u)
  BY <1>2, NoBountyFold
<1>3. CASE NoBounty(t)
  <2>1. PICK w : w = Folded(v, u)
    OBVIOUS
  <2>2. Folded(v, s) = Folded(w, t)
    BY <2>1, FoldedBoth
  <2>3. Folded(w, t).bounties = w.bounties
    BY <1>3, NoBountyFold
  <2>4. QED
    BY <2>1, <2>2, <2>3
<1>4. QED
  BY <1>1, <1>2, <1>3

\* The amounts of the payouts among some events are numbers.
Counted(s) ==
  /\ IsSeq(s)
  /\ \A e \in Members(s) : e.topic = "contributor_recorded" => e.value \in Nat

LEMMA CountedConcat ==
  ASSUME NEW s, NEW t, IsSeq(s), IsSeq(t)
  PROVE  Counted(s \o t) <=> Counted(s) /\ Counted(t)
<1>1. IsSeq(s \o t)
  BY IsSeqConcat DEF IsSeq
<1>2. QED
  BY <1>1, MembersOfConcat DEF Counted

LEMMA CountedOne ==
  ASSUME NEW e, e.topic # "contributor_recorded" \/ e.value \in Nat
  PROVE  Counted(<<e>>) /\ Counted(<<>>)
BY IsSeqOne, IsSeqNone, MembersOfOne DEF Counted

LEMMA RegistrySeqIsNoBounty ==
  ASSUME NEW s, RegistrySeq(s)
  PROVE  NoBounty(s)
<1>1. PICK S : s \in Seq(S) /\ \A e \in S : e.topic \in RegistryTopics
  BY DEF RegistrySeq
<1>2. Members(s) \subseteq S
  <2>1. DOMAIN s = 1..Len(s)
    BY <1>1, LenProperties
  <2>2. QED
    BY <1>1, <2>1, ElementOfSeq DEF Members
<1>3. \A e \in S : e.topic \notin BountyTopics
  BY <1>1 DEF RegistryTopics, BountyTopics
<1>4. QED
  BY <1>1, <1>2, <1>3 DEF NoBounty, IsSeq

LEMMA PayoutEventsCounted ==
  ASSUME EscrowTypeOK, PanelsFinite, NEW i \in DOMAIN bounty, NEW m \in Milestones(bounty[i])
  PROVE  Counted(PayoutEvents(i, m))
<1>1. CASE config # "with registry"
  BY <1>1, IsSeqNone, MembersOfOne DEF PayoutEvents, Counted
<1>2. CASE config = "with registry"
  <2>1. PICK V : V = Reviewed(i, m, "Approve")
    OBVIOUS
  <2>2. PICK n \in Nat : n = Cardinality(V)
    <3>1. V \subseteq bounty[i].reviewers /\ IsFiniteSet(bounty[i].reviewers)
      BY <2>1 DEF Reviewed, PanelsFinite
    <3>2. QED
      BY <3>1, FS_Subset, FS_CardinalityType
  <2>3. PICK e, t :
          /\ e = Event("contributor_recorded", i, m, bounty[i].contributor,
                       bounty[i].amounts[m])
          /\ t = [k \in 1..n |-> Event("review_recorded", i, m, SetToSeq(V)[k], 1)]
    OBVIOUS
  <2>4. PayoutEvents(i, m) = <<e>> \o t
    BY <1>2, <2>1, <2>2, <2>3 DEF PayoutEvents
  <2>5. Counted(<<e>>)
    <3>1. bounty[i].amounts[m] \in Nat
      <4>1. bounty[i] \in Bounty
        BY StoredBounty
      <4>2. bounty[i].amounts[m] \in 0..MaxI128
        BY <4>1, MilestoneTypes, RegistryConstants
      <4>3. QED
        BY <4>2
    <3>2. e.value = bounty[i].amounts[m]
      BY <2>3 DEF Event
    <3>3. QED
      BY <3>1, <3>2, CountedOne
  <2>6. Counted(t)
    <3>1. PICK S : S = {t[k] : k \in 1..n}
      OBVIOUS
    <3>2. t \in [1..n -> S] /\ DOMAIN t = 1..n
      BY <2>3, <3>1
    <3>3. IsSeq(t)
      BY <2>2, <3>2, SeqDef DEF IsSeq
    <3>4. \A k \in 1..n : t[k].topic = "review_recorded"
      BY <2>3, EventTopic
    <3>5. \A x \in Members(t) : x.topic = "review_recorded"
      BY <3>2, <3>4 DEF Members
    <3>6. \A x \in Members(t) : x.topic # "contributor_recorded"
      BY <3>5
    <3>7. QED
      BY <3>3, <3>6 DEF Counted
  <2>7. QED
    BY <2>4, <2>5, <2>6, CountedConcat DEF Counted
<1>3. QED
  BY <1>1, <1>2

LEMMA LossEventsCounted ==
  ASSUME NEW d, NEW pay
  PROVE  Counted(LossEvents(d, pay))
<1>1. PICK e : e = Event("dispute_recorded", d.issue, d.milestone, Loser(d, pay), TRUE)
  OBVIOUS
<1>2. e.topic = "dispute_recorded"
  BY <1>1 DEF Event
<1>3. Counted(<<e>>) /\ Counted(<<>>)
  BY <1>2, CountedOne
<1>4. LossEvents(d, pay) = <<>> \/ LossEvents(d, pay) = <<e>>
  BY <1>1 DEF LossEvents
<1>5. QED
  BY <1>3, <1>4

LEMMA RegistryEventsCounted ==
  ASSUME EscrowTypeOK, PanelsFinite, NEW a \in Proposable, Execute(a)
  PROVE  Counted(RegistryEvents(a))
<1>1. Counted(<<>>)
  BY IsSeqNone, MembersOfOne DEF Counted
<1>2. CASE a.kind = "Release"
  <2>1. a.issue \in DOMAIN bounty /\ a.milestone \in Milestones(bounty[a.issue])
    BY <1>2 DEF Execute, execute_action, apply_release
  <2>2. QED
    BY <1>2, <2>1, PayoutEventsCounted DEF RegistryEvents
<1>3. CASE a.kind = "ResolveDispute"
  <2>1. PICK d : d = dispute[a.id]
    OBVIOUS
  <2>2. d.issue \in DOMAIN bounty /\ d.milestone \in Milestones(bounty[d.issue])
    BY <1>3, <2>1 DEF Execute, execute_action, ResolveByPaying, ResolveByRefunding, Resolvable
  <2>3. PICK s : s = IF a.pay THEN PayoutEvents(d.issue, d.milestone) ELSE <<>>
    OBVIOUS
  <2>4. Counted(s)
    BY <1>1, <2>2, <2>3, PayoutEventsCounted
  <2>5. RegistryEvents(a) = s \o LossEvents(d, a.pay)
    BY <1>3, <2>1, <2>3 DEF RegistryEvents
  <2>6. QED
    BY <2>4, <2>5, LossEventsCounted, CountedConcat DEF Counted
<1>4. CASE a.kind \notin {"Release", "ResolveDispute"}
  BY <1>1, <1>4 DEF RegistryEvents
<1>5. QED
  BY <1>2, <1>3, <1>4

\* What a transaction emits, and that it is emitted.
Emits(s) == OneBounty(s) /\ Counted(s) /\ Emit(s)

LEMMA EmitsOne ==
  ASSUME NEW e, e.topic # "contributor_recorded", Emit(<<e>>)
  PROVE  \E s : Emits(s)
<1>1. PICK s : s = <<e>>
  OBVIOUS
<1>2. OneBounty(s) /\ Counted(s)
  BY <1>1, OneBountyOne, CountedOne
<1>3. QED
  BY <1>1, <1>2 DEF Emits

LEMMA EmitsNone ==
  ASSUME Emit(<<>>)
  PROVE  \E s : Emits(s)
<1>1. PICK s : s = <<>>
  OBVIOUS
<1>2. NoBounty(s) /\ Counted(s)
  BY <1>1, IsSeqNone, MembersOfOne DEF NoBounty, Counted
<1>3. OneBounty(s)
  BY <1>2, OneBountyNone
<1>4. QED
  BY <1>1, <1>2, <1>3 DEF Emits

LEMMA EmitsLead ==
  ASSUME EscrowTypeOK, PanelsFinite,
         NEW id, NEW p \in Proposal, ~p.executed, StoreAndTryExecute(id, p),
         NEW lead, lead.topic \in ProposalTopics, Emit(<<lead>> \o Execution(id))
  PROVE  \E s : Emits(s)
<1>1. PICK d : d = Event("proposal_executed", NoOne, id, NoOne, 0)
  OBVIOUS
<1>2. d.topic = "proposal_executed"
  BY <1>1 DEF Event
<1>3. /\ d.topic \notin BountyTopics /\ lead.topic \notin BountyTopics
      /\ d.topic # "contributor_recorded" /\ lead.topic # "contributor_recorded"
  BY <1>2 DEF BountyTopics, ProposalTopics
<1>4. NoBounty(<<d>>) /\ NoBounty(<<lead>>) /\ Counted(<<d>>) /\ Counted(<<lead>>)
  BY <1>3, IsSeqOne, MembersOfOne, CountedOne DEF NoBounty
<1>5. CASE ~proposal'[id].executed
  <2>1. PICK a, s : a = Execution(id) /\ s = <<lead>> \o a
    OBVIOUS
  <2>2. a = <<>>
    BY <1>5, <2>1 DEF Execution
  <2>3. NoBounty(a) /\ Counted(a)
    BY <2>2, IsSeqNone, MembersOfOne DEF NoBounty, Counted
  <2>4. NoBounty(s) /\ Counted(s)
    BY <1>4, <2>1, <2>3, NoBountyConcat, CountedConcat DEF NoBounty
  <2>5. QED
    BY <2>1, <2>4, OneBountyNone DEF Emits
<1>6. CASE /\ proposal'[id].executed /\ proposal'[id].action = p.action
           /\ Execute(p.action)
  <2>1. PICK a, s, e : a = p.action /\ s = RegistryEvents(a) /\ e = OwnEvent(a)
    OBVIOUS
  <2>2. a \in Proposable /\ a.kind \in ActionKinds
    <3>1. a \in Proposable
      BY <2>1 DEF Proposal
    <3>2. QED
      BY <3>1, ProposableKinds
  <2>3. RegistrySeq(s) /\ Counted(s)
    BY <1>6, <2>1, <2>2, RegistryEventsSeq, RegistryEventsCounted
  <2>4. NoBounty(s) /\ IsSeq(s)
    BY <2>3, RegistrySeqIsNoBounty DEF NoBounty
  <2>5. e.topic # "contributor_recorded"
    <3>1. e.topic \notin RegistryTopics
      BY <2>1, <2>2, OwnTopic
    <3>2. QED
      BY <3>1 DEF RegistryTopics
  <2>6. PICK own, r : own = <<e>> /\ r = s \o own
    OBVIOUS
  <2>7. OneBounty(own) /\ Counted(own) /\ IsSeq(own)
    BY <2>5, <2>6, OneBountyOne, CountedOne, IsSeqOne
  <2>8. OneBounty(r) /\ Counted(r) /\ IsSeq(r)
    <3>1. OneBounty(r)
      BY <2>4, <2>6, <2>7, OneBountyLater
    <3>2. Counted(r)
      BY <2>3, <2>4, <2>6, <2>7, CountedConcat
    <3>3. QED
      BY <3>1, <3>2 DEF OneBounty
  <2>9. ActionEvents(a) = r
    BY <2>1, <2>2, <2>4, <2>6, ActionEventsSplit
  <2>10. PICK last, x : last = <<d>> /\ x = r \o last
    OBVIOUS
  <2>11. Execution(id) = x
    <3>1. Execution(id) = Append(r, d)
      BY <1>1, <1>6, <2>1, <2>9 DEF Execution
    <3>2. PICK S : r \in Seq(S)
      BY <2>8 DEF IsSeq
    <3>3. PICK T : T = S \cup {d}
      OBVIOUS
    <3>4. r \in Seq(T) /\ d \in T
      BY <3>2, <3>3, SeqMonotonic
    <3>5. Append(r, d) = r \o <<d>>
      BY <3>4, AppendIsConcat
    <3>6. QED
      BY <2>10, <3>1, <3>5
  <2>12. NoBounty(last) /\ Counted(last) /\ IsSeq(last)
    BY <1>4, <2>10 DEF NoBounty
  <2>13. OneBounty(x) /\ Counted(x) /\ IsSeq(x)
    <3>1. OneBounty(x)
      BY <2>8, <2>10, <2>12, OneBountySooner
    <3>2. Counted(x)
      BY <2>8, <2>10, <2>12, CountedConcat
    <3>3. QED
      BY <3>1, <3>2 DEF OneBounty
  <2>14. PICK first, y : first = <<lead>> /\ y = first \o x
    OBVIOUS
  <2>15. NoBounty(first) /\ Counted(first) /\ IsSeq(first)
    BY <1>4, <2>14 DEF NoBounty
  <2>16. OneBounty(y)
    BY <2>13, <2>14, <2>15, OneBountyLater
  <2>17. Counted(y)
    BY <2>13, <2>14, <2>15, CountedConcat
  <2>18. Emit(y)
    BY <2>11, <2>14
  <2>19. QED
    BY <2>16, <2>17, <2>18 DEF Emits
<1>7. QED
  BY <1>5, <1>6, StoredExecution

\* Every step indexes, emits the events of one transaction, or does neither.
LEMMA StepEmits ==
  ASSUME GovernanceInv, PanelsFinite, [ReadNext]_readVars
  PROVE  \/ IndexEvents
         \/ \E s : Emits(s)
         \/ UNCHANGED readVars
<1>1. EscrowTypeOK /\ BountyTypeOK
  BY DEF GovernanceInv, BountyTypeOK
<1>2. ASSUME NEW t, NEW i, NEW m, NEW w, NEW n, t # "contributor_recorded",
             Emit(<<Event(t, i, m, w, n)>>)
      PROVE  \E s : Emits(s)
  BY <1>2, EventTopic, EmitsOne
<1>3. CASE EmitUser
  BY <1>2, <1>3 DEF EmitUser
<1>4. ASSUME NEW s \in Address, NEW a \in Proposable, propose(s, a),
             Emit(<<Event("proposal_created", NoOne, Len(proposal) + 1, s, 0)>>
                  \o Execution(Len(proposal) + 1))
      PROVE  \E x : Emits(x)
  <2>1. PICK id, lead, p :
          /\ id = Len(proposal) + 1
          /\ lead = Event("proposal_created", NoOne, id, s, 0)
          /\ p = [action |-> a, proposer |-> s, approvals |-> <<s>>,
                  executed |-> FALSE, cancelled |-> FALSE]
    OBVIOUS
  <2>2. p \in Proposal /\ ~p.executed
    <3>1. <<s>> \in Seq(Address)
      OBVIOUS
    <3>2. QED
      BY <2>1, <3>1 DEF Proposal
  <2>3. lead.topic \in ProposalTopics
    <3>1. lead.topic = "proposal_created"
      BY <2>1 DEF Event
    <3>2. QED
      BY <3>1 DEF ProposalTopics
  <2>4. StoreAndTryExecute(id, p) /\ Emit(<<lead>> \o Execution(id))
    BY <1>4, <2>1 DEF propose
  <2>5. QED
    BY <1>1, <2>2, <2>3, <2>4, EmitsLead
<1>5. ASSUME NEW s \in Address, NEW id \in DOMAIN proposal, approve(s, id),
             Emit(<<Event("proposal_approved", NoOne, id, s, 0)>> \o Execution(id))
      PROVE  \E x : Emits(x)
  <2>1. PICK q, v, lead, p :
          /\ q = proposal[id] /\ v = Append(q.approvals, s)
          /\ lead = Event("proposal_approved", NoOne, id, s, 0)
          /\ p = [q EXCEPT !.approvals = v]
    OBVIOUS
  <2>2. q \in Proposal
    BY <1>1, <2>1, StoredProposal
  <2>3. v \in Seq(Address)
    <3>1. q.approvals \in Seq(Address)
      BY <2>2 DEF Proposal
    <3>2. QED
      BY <2>1, <3>1, AppendProperties
  <2>4. p \in Proposal /\ p.executed = q.executed
    <3>1. p = [q EXCEPT !.approvals = v]
      BY <2>1
    <3>2. QED
      BY <2>2, <2>3, <3>1, ApprovedParts
  <2>5. ~q.executed /\ StoreAndTryExecute(id, p) /\ Emit(<<lead>> \o Execution(id))
    BY <1>5, <2>1 DEF approve, Open
  <2>6. lead.topic \in ProposalTopics
    <3>1. lead.topic = "proposal_approved"
      BY <2>1 DEF Event
    <3>2. QED
      BY <3>1 DEF ProposalTopics
  <2>7. QED
    BY <1>1, <2>4, <2>5, <2>6, EmitsLead
<1>6. CASE EmitGovernance
  BY <1>2, <1>4, <1>5, <1>6, EmitsNone DEF EmitGovernance
<1>7. CASE EmitRegistry
  BY <1>7, EmitsNone DEF EmitRegistry
<1>8. QED
  BY <1>3, <1>6, <1>7 DEF ReadNext

-----------------------------------------------------------------------------
(* What a table shows between two passes is not ahead of the ledger.       *)

\* A bounty shown as released is released, or its amount is not exact.
RowsNotAhead(t) ==
  \A i \in DOMAIN t : t[i].released =>
    i \in DOMAIN bounty /\ (bounty[i].released \/ bounty[i].amount > MaxExact)

\* So it is wherever a page ends among the pending events.
StagesInv ==
  \A s, t : IsSeq(s) /\ IsSeq(t) /\ pending = s \o t =>
    RowsNotAhead(Folded(view, s).bounties)

\* The ledger takes back neither a release nor an amount.
ReleasesKept ==
  \A i \in DOMAIN bounty :
    /\ i \in DOMAIN bounty'
    /\ bounty[i].released => bounty'[i].released
    /\ bounty'[i].amount = bounty[i].amount

LEMMA ReleasesAreKept ==
  ASSUME RowsInv, RowsInv', TermsKept
  PROVE  ReleasesKept
<1>1. \A i \in DOMAIN bounty : bounty[i].amount = Total(bounty[i].amounts)
  BY DEF RowsInv, RowTells
<1>2. \A i \in DOMAIN bounty' : bounty'[i].amount = Total(bounty'[i].amounts)
  BY DEF RowsInv, RowTells
<1>3. QED
  BY <1>1, <1>2 DEF TermsKept, ReleasesKept

LEMMA StillNotAhead ==
  ASSUME ReleasesKept, NEW t, RowsNotAhead(t)
  PROVE  RowsNotAhead(t)'
BY DEF ReleasesKept, RowsNotAhead

LEMMA CaughtUpNotAhead ==
  ASSUME EscrowTypeOK, SettlementInv, BooksInv, RowsInv
  PROVE  RowsNotAhead(CaughtUp.bounties)
<1>1. ASSUME NEW i \in DOMAIN CaughtUp.bounties, CaughtUp.bounties[i].released
      PROVE  i \in DOMAIN bounty /\ (bounty[i].released \/ bounty[i].amount > MaxExact)
  <2>1. i \in DOMAIN bounty
    BY DEF RowsInv
  <2>2. bounty[i].released \/ CaughtUp.bounties[i].amount > MaxExact
    BY <1>1, <2>1, ExactlyClosed
  <2>3. CaughtUp.bounties[i].amount = bounty[i].amount
    BY <2>1 DEF RowsInv, RowTells
  <2>4. QED
    BY <2>1, <2>2, <2>3
<1>2. QED
  BY <1>1 DEF RowsNotAhead

\* A pass ends at one of the places where it may end.
LEMMA IndexStages ==
  ASSUME IsSeq(pending), StagesInv, IndexEvents
  PROVE  StagesInv'
<1>1. PICK n \in 1..Len(pending) :
        /\ view' = Folded(view, SubSeq(pending, 1, n))
        /\ pending' = SubSeq(pending, n + 1, Len(pending))
        /\ UNCHANGED vars
  BY DEF IndexEvents, Folded
<1>2. PICK S : pending \in Seq(S)
  BY DEF IsSeq
<1>3. PICK a, b, v : /\ a = SubSeq(pending, 1, n)
                     /\ b = SubSeq(pending, n + 1, Len(pending)) /\ v = view
  OBVIOUS
<1>4. Len(pending) \in Nat
  BY <1>2, LenProperties
<1>5. a \in Seq(S) /\ b \in Seq(S)
  BY <1>2, <1>3, <1>4, SubSeqProperties
<1>6. a \o b = pending
  BY <1>2, <1>3, <1>4, ConcatAdjacentSubSeq, SubSeqFull
<1>7. IsSeq(a)
  BY <1>5 DEF IsSeq
<1>8. ASSUME NEW s, NEW t, IsSeq(s), IsSeq(t), b = s \o t
      PROVE  RowsNotAhead(Folded(Folded(v, a), s).bounties)
  <2>1. PICK w : w = a \o s
    OBVIOUS
  <2>2. IsSeq(w) /\ Folded(v, w) = Folded(Folded(v, a), s)
    BY <1>7, <1>8, <2>1, FoldedBoth
  <2>3. w \o t = a \o b
    BY <1>7, <1>8, <2>1, RegroupedOf
  <2>4. pending = w \o t
    BY <1>6, <2>3
  <2>5. QED
    BY <1>3, <1>8, <2>2, <2>4 DEF StagesInv
<1>9. bounty' = bounty
  BY <1>1 DEF vars, escrowVars
<1>10. \A t : RowsNotAhead(t) => RowsNotAhead(t)'
  BY <1>9 DEF RowsNotAhead
<1>11. pending' = b /\ view' = Folded(v, a)
  BY <1>1, <1>3
<1>12. QED
  BY <1>8, <1>10, <1>11 DEF StagesInv

\* A transaction adds places that are in the middle of its events.
LEMMA EmitStages ==
  ASSUME IsSeq(pending), StagesInv, ReleasesKept, NEW e, OneBounty(e), Emit(e),
         RowsNotAhead(CaughtUp.bounties), RowsNotAhead(CaughtUp.bounties)'
  PROVE  StagesInv'
<1>1. PICK v, a, c, d : v = view /\ a = pending /\ c = CaughtUp /\ d = CaughtUp'
  OBVIOUS
<1>2. /\ IsSeq(a) /\ IsSeq(e) /\ pending' = a \o e /\ view' = v
      /\ c = Folded(v, a) /\ d = Folded(c, e)
  <2>1. IsSeq(e)
    BY DEF OneBounty
  <2>2. CaughtUp' = Folded(CaughtUp, e)
    BY <2>1, EmitExtendsCaughtUp
  <2>3. QED
    BY <1>1, <2>1, <2>2, CaughtUpIs DEF Emit
<1>3. RowsNotAhead(c.bounties)' /\ RowsNotAhead(d.bounties)'
  BY <1>1, StillNotAhead DEF RowsNotAhead
<1>4. ASSUME NEW s, NEW t, IsSeq(s), IsSeq(t), SameWhole(a, e, s, t)
      PROVE  RowsNotAhead(Folded(v, s).bounties)'
  <2>1. PICK u : IsSeq(u) /\ (CutAt(a, e, s, t, u) \/ CutAt(s, t, a, e, u))
    BY <1>2, <1>4, TwoCuts
  <2>2. CASE CutAt(a, e, s, t, u)
    <3>1. pending = s \o u
      BY <1>1, <2>2 DEF CutAt
    <3>2. RowsNotAhead(Folded(v, s).bounties)
      BY <1>1, <1>4, <2>1, <3>1 DEF StagesInv
    <3>3. PICK x : x = Folded(v, s).bounties
      OBVIOUS
    <3>4. RowsNotAhead(x)'
      BY <3>2, <3>3, StillNotAhead
    <3>5. QED
      BY <3>3, <3>4
  <2>3. CASE CutAt(s, t, a, e, u)
    <3>1. s = a \o u /\ e = u \o t
      BY <2>3 DEF CutAt
    <3>2. Folded(v, s) = Folded(c, u)
      BY <1>2, <2>1, <3>1, FoldedBoth
    <3>3. Folded(c, u).bounties \in {c.bounties, Folded(c, e).bounties}
      BY <1>4, <2>1, <3>1, OneBountyFold
    <3>4. Folded(v, s).bounties \in {c.bounties, d.bounties}
      BY <1>2, <3>2, <3>3
    <3>5. QED
      BY <1>3, <3>4
  <2>4. QED
    BY <2>1, <2>2, <2>3
<1>5. QED
  BY <1>2, <1>4 DEF StagesInv, SameWhole

\* The tables only move forward: nothing that one of them shows as done is taken
\* back by the events that follow.
Behind(v, w) ==
  /\ DOMAIN v.bounties \subseteq DOMAIN w.bounties
  /\ DOMAIN v.milestones \subseteq DOMAIN w.milestones
  /\ DOMAIN v.reviewers \subseteq DOMAIN w.reviewers
  /\ DOMAIN v.reviews \subseteq DOMAIN w.reviews
  /\ \A id \in DOMAIN v.disputes :
       id \in DOMAIN w.disputes /\ (v.disputes[id].resolved => w.disputes[id].resolved)
  /\ \A id \in DOMAIN v.proposals :
       id \in DOMAIN w.proposals /\ (v.proposals[id].executed => w.proposals[id].executed)
  /\ \A a : RowOf(v.reputation, a).payout_total <= RowOf(w.reputation, a).payout_total

\* What is needed of the rows for that.
DisputesShaped(t) == IsSeq(t) /\ \A id \in DOMAIN t : "resolved" \in DOMAIN t[id]

ProposalsShaped(t) == \A id \in DOMAIN t : "executed" \in DOMAIN t[id]

ReputationShaped(t) == \A a : RowOf(t, a) \in RepRow

Shaped(v) ==
  /\ DisputesShaped(v.disputes) /\ ProposalsShaped(v.proposals)
  /\ ReputationShaped(v.reputation)

LEMMA BountiesGrow ==
  ASSUME NEW t, NEW e
  PROVE  DOMAIN t \subseteq DOMAIN rebuildBountyState(t, e)
<1>1. \A k, x : DOMAIN t \subseteq DOMAIN Put(t, k, x)
  BY DEF Put
<1>2. PICK r : r = Lookup(t, e.issue, NoRow)
  OBVIOUS
<1>3. CASE e.topic \in BountyTopics
  <2>1. \/ e.topic = "bounty_created" \/ e.topic = "contributor_claimed"
        \/ e.topic = "milestone_released"
        \/ e.topic \in {"bounty_reclaimed", "bounty_refunded"}
    BY <1>3 DEF BountyTopics
  <2>2. \E x : rebuildBountyState(t, e) = Put(t, e.issue, x)
    BY <1>2, <2>1, BountyEvent
  <2>3. QED
    BY <1>1, <2>2
<1>4. QED
  BY <1>3, OtherBountyTopic

LEMMA MilestonesGrow ==
  ASSUME NEW t, NEW e
  PROVE  DOMAIN t \subseteq DOMAIN rebuildMilestones(t, e)
BY DEF rebuildMilestones, Put

LEMMA PanelsGrow ==
  ASSUME NEW t, NEW e
  PROVE  DOMAIN t \subseteq DOMAIN rebuildReviewers(t, e)
BY DEF rebuildReviewers

LEMMA ReviewsGrow ==
  ASSUME NEW t, NEW e
  PROVE  DOMAIN t \subseteq DOMAIN rebuildReviews(t, e)
BY DEF rebuildReviews, Put

LEMMA CountedDispute ==
  ASSUME NEW d, "resolved" \in DOMAIN d, NEW pay, NEW x, x = CountVote(d, pay)
  PROVE  "resolved" \in DOMAIN x /\ x.resolved = d.resolved
BY DEF CountVote

LEMMA ResolvedDispute ==
  ASSUME NEW d, "resolved" \in DOMAIN d, NEW pay, NEW x,
         x = [d EXCEPT !.resolved = TRUE, !.pay_contributor = pay]
  PROVE  "resolved" \in DOMAIN x /\ x.resolved = TRUE
OBVIOUS

\* A row of the table is replaced.
LEMMA DisputeReplaced ==
  ASSUME NEW t, DisputesShaped(t), NEW k, NEW x, NEW u, u = [t EXCEPT ![k] = x],
         k \in DOMAIN t => "resolved" \in DOMAIN x /\ (t[k].resolved => x.resolved)
  PROVE  /\ DisputesShaped(u)
         /\ \A id \in DOMAIN t :
              id \in DOMAIN u /\ (t[id].resolved => u[id].resolved)
<1>1. PICK A : t \in Seq(A)
  BY DEF DisputesShaped, IsSeq
<1>2. PICK S, n : S = A \cup {x} /\ n = Len(t)
  OBVIOUS
<1>3. n \in Nat /\ DOMAIN t = 1..n /\ \A id \in 1..n : t[id] \in S
  BY <1>1, <1>2, LenProperties, ElementOfSeq
<1>4. /\ DOMAIN u = DOMAIN t
      /\ \A id \in DOMAIN t : u[id] = IF id = k THEN x ELSE t[id]
  OBVIOUS
<1>5. u \in [1..n -> S]
  BY <1>2, <1>3, <1>4
<1>6. IsSeq(u)
  BY <1>3, <1>5, SeqDef DEF IsSeq
<1>7. ASSUME NEW id \in DOMAIN t
      PROVE  "resolved" \in DOMAIN u[id] /\ (t[id].resolved => u[id].resolved)
  <2>1. CASE id = k
    BY <1>4, <2>1
  <2>2. CASE id # k
    BY <1>4, <2>2 DEF DisputesShaped
  <2>3. QED
    BY <2>1, <2>2
<1>8. QED
  BY <1>4, <1>6, <1>7 DEF DisputesShaped

LEMMA DisputesGrow ==
  ASSUME NEW t, DisputesShaped(t), NEW e, NEW u, u = rebuildDisputes(t, e)
  PROVE  /\ DisputesShaped(u)
         /\ \A id \in DOMAIN t :
              id \in DOMAIN u /\ (t[id].resolved => u[id].resolved)
<1>1. CASE e.topic = "dispute_opened"
  <2>1. PICK x : x = [issue |-> e.issue, milestone |-> e.value, opener |-> e.who,
                      votes_pay_contributor |-> 0, votes_refund_funder |-> 0,
                      resolved |-> FALSE, pay_contributor |-> FALSE]
    OBVIOUS
  <2>2. u = Append(t, x)
    BY <1>1, <2>1 DEF rebuildDisputes
  <2>3. "resolved" \in DOMAIN x
    BY <2>1
  <2>4. PICK A : t \in Seq(A)
    BY DEF DisputesShaped, IsSeq
  <2>5. PICK S, n : S = A \cup {x} /\ n = Len(t)
    OBVIOUS
  <2>6. t \in Seq(S) /\ x \in S
    BY <2>4, <2>5, SeqMonotonic
  <2>7. n \in Nat /\ DOMAIN t = 1..n
    BY <2>5, <2>6, LenProperties
  <2>8. /\ u \in Seq(S) /\ Len(u) = n + 1
        /\ \A id \in 1..n : u[id] = t[id]
        /\ u[n + 1] = x
    BY <2>2, <2>5, <2>6, AppendProperties
  <2>9. DOMAIN u = 1..(n + 1)
    BY <2>8, LenProperties
  <2>10. \A id \in DOMAIN u : id \in DOMAIN t \/ id = n + 1
    BY <2>7, <2>9
  <2>11. \A id \in DOMAIN t : id \in DOMAIN u /\ u[id] = t[id]
    BY <2>7, <2>8, <2>9
  <2>12. DisputesShaped(u)
    <3>1. \A id \in DOMAIN u : "resolved" \in DOMAIN u[id]
      BY <2>3, <2>8, <2>10, <2>11 DEF DisputesShaped
    <3>2. QED
      BY <2>8, <3>1 DEF DisputesShaped, IsSeq
  <2>13. QED
    BY <2>11, <2>12
<1>2. CASE e.topic = "dispute_vote_cast"
  <2>1. PICK k, d, x : k = e.milestone /\ d = t[k] /\ x = CountVote(d, e.value)
    OBVIOUS
  <2>2. u = [t EXCEPT ![k] = x]
    <3>1. u = [t EXCEPT ![k] = CountVote(@, e.value)]
      BY <1>2, <2>1 DEF rebuildDisputes
    <3>2. QED
      BY <2>1, <3>1
  <2>3. k \in DOMAIN t => "resolved" \in DOMAIN x /\ x.resolved = d.resolved
    BY <2>1, CountedDispute DEF DisputesShaped
  <2>4. k \in DOMAIN t => "resolved" \in DOMAIN x /\ (t[k].resolved => x.resolved)
    BY <2>1, <2>3
  <2>5. QED
    BY <2>2, <2>4, DisputeReplaced
<1>3. CASE e.topic = "dispute_resolved"
  <2>1. PICK k, d, x : /\ k = e.milestone /\ d = t[k]
                       /\ x = [d EXCEPT !.resolved = TRUE, !.pay_contributor = e.value]
    OBVIOUS
  <2>2. u = [t EXCEPT ![k] = x]
    <3>1. u = [t EXCEPT ![k].resolved = TRUE, ![k].pay_contributor = e.value]
      BY <1>3, <2>1 DEF rebuildDisputes
    <3>2. QED
      BY <2>1, <3>1
  <2>3. k \in DOMAIN t => "resolved" \in DOMAIN x /\ x.resolved = TRUE
    BY <2>1, ResolvedDispute DEF DisputesShaped
  <2>4. k \in DOMAIN t => "resolved" \in DOMAIN x /\ (t[k].resolved => x.resolved)
    BY <2>3
  <2>5. QED
    BY <2>2, <2>4, DisputeReplaced
<1>4. CASE e.topic \notin DisputeTopics
  BY <1>4, OtherTopic
<1>5. QED
  BY <1>1, <1>2, <1>3, <1>4 DEF DisputeTopics

LEMMA ProposalReplaced ==
  ASSUME NEW t, ProposalsShaped(t), NEW k, NEW x, NEW u, u = Put(t, k, x),
         "executed" \in DOMAIN x, k \in DOMAIN t => (t[k].executed => x.executed)
  PROVE  /\ ProposalsShaped(u)
         /\ \A id \in DOMAIN t :
              id \in DOMAIN u /\ (t[id].executed => u[id].executed)
<1>1. /\ DOMAIN u = DOMAIN t \cup {k}
      /\ \A id \in DOMAIN u : u[id] = IF id = k THEN x ELSE t[id]
  BY DEF Put
<1>2. ASSUME NEW id \in DOMAIN u
      PROVE  /\ "executed" \in DOMAIN u[id]
             /\ id \in DOMAIN t => (t[id].executed => u[id].executed)
  <2>1. CASE id = k
    BY <1>1, <2>1
  <2>2. CASE id # k
    BY <1>1, <2>2 DEF ProposalsShaped
  <2>3. QED
    BY <2>1, <2>2
<1>3. QED
  BY <1>1, <1>2 DEF ProposalsShaped

LEMMA ProposalsGrow ==
  ASSUME NEW t, ProposalsShaped(t), NEW e, NEW u, u = rebuildProposals(t, e)
  PROVE  /\ ProposalsShaped(u)
         /\ \A id \in DOMAIN t :
              id \in DOMAIN u /\ (t[id].executed => u[id].executed)
<1>1. PICK k, row : k = e.milestone /\ row = Lookup(t, k, NoProposalRow)
  OBVIOUS
<1>2. "executed" \in DOMAIN row /\ (k \in DOMAIN t => row = t[k])
  <2>1. "executed" \in DOMAIN NoProposalRow
    BY DEF NoProposalRow
  <2>2. QED
    BY <1>1, <2>1 DEF Lookup, ProposalsShaped
<1>3. CASE e.topic = "proposal_created"
  <2>1. PICK x : x = [row EXCEPT !.proposer = e.who, !.approvals = FirstApprovals(e.who)]
    OBVIOUS
  <2>2. u = Put(t, k, x)
    BY <1>1, <1>3, <2>1 DEF rebuildProposals
  <2>3. "executed" \in DOMAIN x /\ x.executed = row.executed
    BY <1>2, <2>1
  <2>4. QED
    BY <1>2, <2>2, <2>3, ProposalReplaced
<1>4. CASE e.topic = "proposal_approved"
  <2>1. PICK x, v : x = [row EXCEPT !.approvals = v]
                    /\ v = IF e.who \in Members(row.approvals) THEN row.approvals
                           ELSE Append(row.approvals, e.who)
    OBVIOUS
  <2>2. u = Put(t, k, x)
    BY <1>1, <1>4, <2>1 DEF rebuildProposals
  <2>3. "executed" \in DOMAIN x /\ x.executed = row.executed
    <3>1. x = [row EXCEPT !.approvals = v]
      BY <2>1
    <3>2. QED
      BY <1>2, <3>1
  <2>4. QED
    BY <1>2, <2>2, <2>3, ProposalReplaced
<1>5. CASE e.topic = "proposal_executed"
  <2>1. PICK x : x = [row EXCEPT !.executed = TRUE]
    OBVIOUS
  <2>2. u = Put(t, k, x)
    BY <1>1, <1>5, <2>1 DEF rebuildProposals
  <2>3. "executed" \in DOMAIN x /\ x.executed = TRUE
    BY <1>2, <2>1
  <2>4. k \in DOMAIN t => (t[k].executed => x.executed)
    BY <2>3
  <2>5. QED
    BY <2>2, <2>3, <2>4, ProposalReplaced
<1>6. CASE e.topic = "proposal_cancelled"
  <2>1. PICK x : x = [row EXCEPT !.cancelled = TRUE]
    OBVIOUS
  <2>2. u = Put(t, k, x)
    BY <1>1, <1>6, <2>1 DEF rebuildProposals
  <2>3. "executed" \in DOMAIN x /\ x.executed = row.executed
    BY <1>2, <2>1
  <2>4. QED
    BY <1>2, <2>2, <2>3, ProposalReplaced
<1>7. CASE e.topic \notin ProposalTopics
  BY <1>7, OtherTopic
<1>8. QED
  BY <1>3, <1>4, <1>5, <1>6, <1>7 DEF ProposalTopics

LEMMA GainedMore ==
  ASSUME NEW e, NEW row \in RepRow, NEW g, g = Gained(row, e), e.topic \in RegistryTopics,
         e.topic = "contributor_recorded" => e.value \in Nat
  PROVE  g \in RepRow /\ row.payout_total <= g.payout_total
<1>1. CASE e.topic = "contributor_recorded"
  <2>1. PICK n, k, j : /\ n = e.value /\ k = row.payout_total /\ j = g.payout_total
    OBVIOUS
  <2>2. n \in Nat /\ k \in Nat
    BY <1>1, <2>1 DEF RepRow
  <2>3. g \in RepRow /\ j = k + n
    BY <1>1, <2>1, <2>2, GainedPayout
  <2>4. k <= j
    BY <2>2, <2>3
  <2>5. QED
    BY <2>1, <2>3, <2>4
<1>2. ASSUME g \in RepRow, g.payout_total = row.payout_total
      PROVE  row.payout_total <= g.payout_total
  <2>1. PICK k : k = row.payout_total /\ k \in Nat
    BY DEF RepRow
  <2>2. k <= k
    BY <2>1
  <2>3. QED
    BY <1>2, <2>1, <2>2
<1>3. CASE e.topic = "review_recorded"
  BY <1>2, <1>3, GainedReview
<1>4. CASE e.topic = "dispute_recorded"
  <2>1. CASE e.value
    BY <1>2, <1>4, <2>1, GainedLoss
  <2>2. CASE ~e.value
    <3>1. PICK k, j : /\ k = row.disputes_opened + 1 /\ j = row.disputes_lost
                      /\ k \in Nat /\ j \in Nat
      BY DEF RepRow
    <3>2. g = [row EXCEPT !.disputes_opened = k, !.disputes_lost = j]
      BY <1>4, <2>2, <3>1 DEF Gained
    <3>3. g \in RepRow /\ g.payout_total = row.payout_total
      BY <3>1, <3>2 DEF RepRow
    <3>4. QED
      BY <1>2, <3>3
  <2>3. QED
    BY <2>1, <2>2
<1>5. QED
  BY <1>1, <1>3, <1>4 DEF RegistryTopics

LEMMA ReputationGrows ==
  ASSUME NEW t, ReputationShaped(t), NEW e, NEW u, u = rebuildReputation(t, e),
         e.topic = "contributor_recorded" => e.value \in Nat
  PROVE  /\ ReputationShaped(u)
         /\ \A a : RowOf(t, a).payout_total <= RowOf(u, a).payout_total
<1>1. \A a : RowOf(t, a).payout_total <= RowOf(t, a).payout_total
  <2>1. \A a : RowOf(t, a).payout_total \in Nat
    BY DEF ReputationShaped, RepRow
  <2>2. QED
    BY <2>1
<1>2. CASE u = t
  BY <1>1, <1>2
<1>3. CASE e.topic \in RegistryTopics /\ RepGuard(e) \notin t.seen
  <2>1. PICK row, g : row = RowOf(t, e.who) /\ g = Gained(row, e)
    OBVIOUS
  <2>2. RowOf(u, e.who) = g /\ \A a : a # e.who => RowOf(u, a) = RowOf(t, a)
    BY <1>3, <2>1, NewRow
  <2>3. row \in RepRow
    BY <2>1 DEF ReputationShaped
  <2>4. g \in RepRow /\ row.payout_total <= g.payout_total
    BY <1>3, <2>1, <2>3, GainedMore
  <2>5. ASSUME NEW a
        PROVE  RowOf(u, a) \in RepRow /\ RowOf(t, a).payout_total <= RowOf(u, a).payout_total
    <3>1. CASE a = e.who
      BY <2>1, <2>2, <2>4, <3>1
    <3>2. CASE a # e.who
      BY <1>1, <2>2, <3>2 DEF ReputationShaped
    <3>3. QED
      BY <3>1, <3>2
  <2>6. QED
    BY <2>5 DEF ReputationShaped
<1>4. CASE e.topic \notin RegistryTopics \/ RepGuard(e) \in t.seen
  <2>1. u = t
    BY <1>4, OtherTopic, NewRecord
  <2>2. QED
    BY <1>2, <2>1
<1>5. QED
  BY <1>3, <1>4

LEMMA RebuildGrows ==
  ASSUME NEW v, Shaped(v), NEW e, NEW w, w = rebuildReadModels(v, e),
         e.topic = "contributor_recorded" => e.value \in Nat
  PROVE  Shaped(w) /\ Behind(v, w)
<1>1. /\ w.bounties = rebuildBountyState(v.bounties, e)
      /\ w.milestones = rebuildMilestones(v.milestones, e)
      /\ w.reviewers = rebuildReviewers(v.reviewers, e)
      /\ w.reviews = rebuildReviews(v.reviews, e)
      /\ w.disputes = rebuildDisputes(v.disputes, e)
      /\ w.proposals = rebuildProposals(v.proposals, e)
      /\ w.reputation = rebuildReputation(v.reputation, e)
  BY RebuildTakesIn DEF TakeIn
<1>2. /\ DisputesShaped(v.disputes) /\ ProposalsShaped(v.proposals)
      /\ ReputationShaped(v.reputation)
  BY DEF Shaped
<1>3. /\ DisputesShaped(w.disputes)
      /\ \A id \in DOMAIN v.disputes :
           id \in DOMAIN w.disputes /\ (v.disputes[id].resolved => w.disputes[id].resolved)
  BY <1>1, <1>2, DisputesGrow
<1>4. /\ ProposalsShaped(w.proposals)
      /\ \A id \in DOMAIN v.proposals :
           id \in DOMAIN w.proposals /\ (v.proposals[id].executed => w.proposals[id].executed)
  BY <1>1, <1>2, ProposalsGrow
<1>5. /\ ReputationShaped(w.reputation)
      /\ \A a : RowOf(v.reputation, a).payout_total <= RowOf(w.reputation, a).payout_total
  BY <1>1, <1>2, ReputationGrows
<1>6. /\ DOMAIN v.bounties \subseteq DOMAIN w.bounties
      /\ DOMAIN v.milestones \subseteq DOMAIN w.milestones
      /\ DOMAIN v.reviewers \subseteq DOMAIN w.reviewers
      /\ DOMAIN v.reviews \subseteq DOMAIN w.reviews
  BY <1>1, BountiesGrow, MilestonesGrow, PanelsGrow, ReviewsGrow
<1>7. QED
  BY <1>3, <1>4, <1>5, <1>6 DEF Shaped, Behind

LEMMA BehindItself ==
  ASSUME NEW v, Shaped(v)
  PROVE  Behind(v, v)
<1>1. \A a : RowOf(v.reputation, a).payout_total \in Nat
  BY DEF Shaped, ReputationShaped, RepRow
<1>2. \A a : RowOf(v.reputation, a).payout_total <= RowOf(v.reputation, a).payout_total
  BY <1>1
<1>3. QED
  BY <1>2 DEF Behind

LEMMA BehindFurther ==
  ASSUME NEW u, NEW v, NEW w, Shaped(u), Shaped(v), Shaped(w), Behind(u, v), Behind(v, w)
  PROVE  Behind(u, w)
<1>1. ASSUME NEW a
      PROVE  RowOf(u.reputation, a).payout_total <= RowOf(w.reputation, a).payout_total
  <2>1. PICK k, m, n : /\ k = RowOf(u.reputation, a).payout_total
                       /\ m = RowOf(v.reputation, a).payout_total
                       /\ n = RowOf(w.reputation, a).payout_total
    OBVIOUS
  <2>2. k \in Nat /\ m \in Nat /\ n \in Nat
    BY <2>1 DEF Shaped, ReputationShaped, RepRow
  <2>3. k <= m /\ m <= n
    BY <2>1 DEF Behind
  <2>4. QED
    BY <2>1, <2>2, <2>3
<1>2. QED
  BY <1>1 DEF Behind

LEMMA BehindFold ==
  ASSUME NEW v, Shaped(v), NEW s, Counted(s)
  PROVE  Shaped(Folded(v, s)) /\ Behind(v, Folded(v, s))
<1>1. PICK S : s \in Seq(S)
  BY DEF Counted, IsSeq
<1>2. PICK p : IsRun(v, s, p) /\ p[Len(s)] = Folded(v, s)
  BY <1>1, FoldedRuns
<1>3. Len(s) \in Nat /\ DOMAIN s = 1..Len(s)
  BY <1>1, LenProperties
<1> DEFINE T == {n \in Nat : n <= Len(s) => Shaped(p[n]) /\ Behind(v, p[n])}
<1>4. 0 \in T
  <2>1. p[0] = v
    BY <1>2 DEF IsRun
  <2>2. QED
    BY <2>1, BehindItself
<1>5. ASSUME NEW n \in Nat, n \in T  PROVE n + 1 \in T
  <2>1. SUFFICES ASSUME n + 1 <= Len(s)  PROVE Shaped(p[n + 1]) /\ Behind(v, p[n + 1])
    OBVIOUS
  <2>2. n + 1 \in 1..Len(s) /\ (n + 1) - 1 = n /\ n <= Len(s)
    BY <1>3, <2>1
  <2>3. PICK u, w, e : u = p[n] /\ w = p[n + 1] /\ e = s[n + 1]
    OBVIOUS
  <2>4. w = rebuildReadModels(u, e)
    BY <1>2, <2>2, <2>3 DEF IsRun
  <2>5. e.topic = "contributor_recorded" => e.value \in Nat
    BY <1>3, <2>2, <2>3 DEF Counted, Members
  <2>6. Shaped(u) /\ Behind(v, u)
    BY <1>5, <2>2, <2>3
  <2>7. Shaped(w) /\ Behind(u, w)
    BY <2>4, <2>5, <2>6, RebuildGrows
  <2>8. Behind(v, w)
    BY <2>6, <2>7, BehindFurther
  <2>9. QED
    BY <2>3, <2>7, <2>8
<1>6. \A n \in Nat : n \in T
  <2> HIDE DEF T
  <2>1. QED
    BY <1>4, <1>5, NaturalInduction
<1>7. QED
  BY <1>2, <1>3, <1>6

\* What the answers rely on between two passes.
LateInv == Counted(pending) /\ Shaped(view) /\ StagesInv

LEMMA IndexLate ==
  ASSUME LateInv, IndexEvents
  PROVE  LateInv'
<1>1. PICK n \in 1..Len(pending) :
        /\ view' = Folded(view, SubSeq(pending, 1, n))
        /\ pending' = SubSeq(pending, n + 1, Len(pending))
  BY DEF IndexEvents, Folded
<1>2. IsSeq(pending)
  BY DEF LateInv, Counted
<1>3. PICK S : pending \in Seq(S)
  BY <1>2 DEF IsSeq
<1>4. PICK a, b, v : /\ a = SubSeq(pending, 1, n)
                     /\ b = SubSeq(pending, n + 1, Len(pending)) /\ v = view
  OBVIOUS
<1>5. Len(pending) \in Nat
  BY <1>3, LenProperties
<1>6. a \in Seq(S) /\ b \in Seq(S)
  BY <1>3, <1>4, <1>5, SubSeqProperties
<1>7. a \o b = pending
  BY <1>3, <1>4, <1>5, ConcatAdjacentSubSeq, SubSeqFull
<1>8. IsSeq(a) /\ IsSeq(b)
  BY <1>6 DEF IsSeq
<1>9. Counted(a) /\ Counted(b)
  BY <1>7, <1>8, CountedConcat DEF LateInv
<1>10. Shaped(Folded(v, a))
  BY <1>4, <1>9, BehindFold DEF LateInv
<1>11. StagesInv'
  BY <1>2, IndexStages DEF LateInv
<1>12. pending' = b /\ view' = Folded(v, a)
  BY <1>1, <1>4
<1>13. Counted(pending)' /\ Shaped(view)'
  <2>1. Counted(pending') /\ Shaped(view')
    BY <1>9, <1>10, <1>12
  <2>2. QED
    BY <2>1 DEF Counted, Shaped, DisputesShaped, ProposalsShaped, ReputationShaped,
                RowOf, Lookup, RepRow, IsSeq, Members
<1>14. QED
  BY <1>11, <1>13 DEF LateInv

LEMMA EmitLate ==
  ASSUME LateInv, ReleasesKept, NEW s, Emits(s),
         RowsNotAhead(CaughtUp.bounties), RowsNotAhead(CaughtUp.bounties)'
  PROVE  LateInv'
<1>1. IsSeq(pending) /\ StagesInv
  BY DEF LateInv, Counted
<1>2. OneBounty(s) /\ Counted(s) /\ Emit(s)
  BY DEF Emits
<1>3. StagesInv'
  BY <1>1, <1>2, EmitStages
<1>4. PICK a, b : a = pending /\ b = a \o s
  OBVIOUS
<1>5. Counted(a) /\ IsSeq(s)
  BY <1>2, <1>4 DEF LateInv, Counted
<1>6. Counted(b)
  BY <1>1, <1>2, <1>4, <1>5, CountedConcat
<1>7. pending' = b /\ view' = view
  BY <1>2, <1>4 DEF Emit
<1>8. Counted(pending') /\ Shaped(view')
  BY <1>6, <1>7 DEF LateInv
<1>9. QED
  BY <1>3, <1>8 DEF LateInv

LEMMA SameLate ==
  ASSUME LateInv, UNCHANGED readVars
  PROVE  LateInv'
<1>1. view' = view /\ pending' = pending /\ bounty' = bounty
  BY DEF readVars, vars, escrowVars
<1>2. \A t : RowsNotAhead(t) => RowsNotAhead(t)'
  BY <1>1 DEF RowsNotAhead
<1>3. StagesInv'
  BY <1>1, <1>2 DEF LateInv, StagesInv
<1>4. Counted(pending') /\ Shaped(view')
  BY <1>1 DEF LateInv
<1>5. QED
  BY <1>3, <1>4 DEF LateInv

LEMMA ReadInitLate ==
  ASSUME ReadInit
  PROVE  LateInv
<1>1. PICK v : v = view
  OBVIOUS
<1>2. /\ v.bounties = Empty /\ v.disputes = <<>> /\ v.proposals = Empty
      /\ v.reputation = [seen |-> {}, rep |-> Empty]
  BY <1>1 DEF ReadInit
<1>3. DOMAIN Empty = {}
  BY DEF Empty
<1>4. Counted(pending)
  <2>1. pending = <<>>
    BY DEF ReadInit
  <2>2. Counted(<<>>)
    BY IsSeqNone, MembersOfOne DEF Counted
  <2>3. QED
    BY <2>1, <2>2
<1>5. Shaped(v)
  <2>1. DisputesShaped(<<>>)
    BY IsSeqNone DEF DisputesShaped
  <2>2. ProposalsShaped(Empty)
    BY <1>3 DEF ProposalsShaped
  <2>3. \A a : RowOf(v.reputation, a) = NoReputation
    BY <1>2, <1>3 DEF RowOf, Lookup
  <2>4. NoReputation \in RepRow
    BY DEF NoReputation, RepRow
  <2>5. QED
    BY <1>2, <2>1, <2>2, <2>3, <2>4 DEF Shaped, ReputationShaped
<1>6. ASSUME NEW s, NEW t, IsSeq(s), IsSeq(t), pending = s \o t
      PROVE  RowsNotAhead(Folded(v, s).bounties)
  <2>1. NoBounty(s \o t)
    BY <1>6, IsSeqNone, MembersOfOne DEF ReadInit, NoBounty
  <2>2. NoBounty(s)
    BY <1>6, <2>1, NoBountyConcat
  <2>3. Folded(v, s).bounties = Empty
    BY <1>2, <2>2, NoBountyFold
  <2>4. QED
    BY <1>3, <2>3 DEF RowsNotAhead
<1>7. QED
  BY <1>1, <1>4, <1>5, <1>6 DEF LateInv, StagesInv

LEMMA LateStep ==
  ASSUME GovernanceInv, PanelsFinite, EscrowTypeOK, SettlementInv, BooksInv, RowsInv,
         EscrowTypeOK', SettlementInv', BooksInv', RowsInv', LateInv, [ReadNext]_readVars
  PROVE  LateInv'
<1>1. [Next]_vars
  BY ReadStepIsStep
<1>2. [EscrowNext]_escrowVars
  BY <1>1, StepIsEscrowStep DEF GovernanceInv
<1>3. TermsKept
  BY <1>2, TermsStep
<1>4. ReleasesKept
  BY <1>3, ReleasesAreKept
<1>5. RowsNotAhead(CaughtUp.bounties)
  BY CaughtUpNotAhead
<1>6. RowsNotAhead(CaughtUp.bounties)'
  BY CaughtUpNotAhead, PTL
<1>7. CASE IndexEvents
  BY <1>7, IndexLate
<1>8. ASSUME NEW s, Emits(s)  PROVE LateInv'
  BY <1>4, <1>5, <1>6, <1>8, EmitLate
<1>9. CASE UNCHANGED readVars
  BY <1>9, SameLate
<1>10. QED
  BY <1>7, <1>8, <1>9, StepEmits

LEMMA LateCorrect ==
  ReadSpec => [](/\ EscrowTypeOK /\ SettlementInv /\ BooksInv /\ RowsInv /\ MilestonesInv
                 /\ GovernanceInv /\ DecidedInv /\ ProposalsInv /\ ReputationInv /\ LateInv)
<1>1. ReadInit => LateInv
  BY ReadInitLate
<1>2. /\ GovernanceInv /\ PanelsFinite
      /\ EscrowTypeOK /\ SettlementInv /\ BooksInv /\ RowsInv
      /\ EscrowTypeOK' /\ SettlementInv' /\ BooksInv' /\ RowsInv'
      /\ LateInv /\ [ReadNext]_readVars
      => LateInv'
  BY LateStep
<1>3. QED
  BY <1>1, <1>2, TablesCorrect, RowsCorrect, ReputationCorrect, PTL DEF ReadSpec

\* The index in place of an unreachable registry.
LEMMA OwnRecord ==
  ASSUME GovernanceInv, ReputationInv, Shaped(view), Behind(view, CaughtUp),
         NEW a \in Address, NEW r \in AnsweredReputation(a, FALSE)
  PROVE  \E live \in AnsweredReputation(a, TRUE) :
           r.payout_total <= live.payout_total \/ live.payout_total = MaxI128
<1>1. PICK t, c : t = view.reputation /\ c = CaughtUp.reputation
  OBVIOUS
<1>2. a \in DOMAIN t.rep /\ r = RowOf(t, a)
  BY <1>1 DEF AnsweredReputation, RowOf, Lookup
<1>3. r \in RepRow
  BY <1>1, <1>2 DEF Shaped, ReputationShaped
<1>4. CASE reg.rep[a] # NoReputation
  <2>1. PICK row, chain : row = RowOf(c, a) /\ chain = reg.rep[a]
    OBVIOUS
  <2>2. chain \in AnsweredReputation(a, TRUE)
    BY <1>4, <2>1 DEF AnsweredReputation, readReputation
  <2>3. row \in RepRow /\ (row.payout_total <= chain.payout_total \/ chain.payout_total = MaxI128)
    <3>1. AccountTells(c, reg, a)
      BY <1>1 DEF ReputationInv, TableTells
    <3>2. QED
      BY <2>1, <3>1 DEF AccountTells, Tells
  <2>4. r.payout_total <= row.payout_total
    BY <1>1, <1>2, <2>1 DEF Behind
  <2>5. chain \in Reputation
    BY <2>1 DEF GovernanceInv, BountyTypeOK, EscrowTypeOK, RegTypeOK, RegistryState
  <2>6. r.payout_total \in Nat /\ row.payout_total \in Nat /\ chain.payout_total \in Nat
    BY <1>3, <2>3, <2>5, RegistryConstants DEF RepRow, Reputation
  <2>7. r.payout_total <= chain.payout_total \/ chain.payout_total = MaxI128
    BY <2>3, <2>4, <2>6
  <2>8. QED
    BY <2>2, <2>7
<1>5. CASE reg.rep[a] = NoReputation
  <2>1. r \in AnsweredReputation(a, TRUE)
    BY <1>5 DEF AnsweredReputation, readReputation
  <2>2. r.payout_total <= r.payout_total
    BY <1>3 DEF RepRow
  <2>3. QED
    BY <2>1, <2>2
<1>6. QED
  BY <1>4, <1>5

\* However late the index is, and wherever a page cut a transaction in two, no answer
\* is ahead of the ledger: what is shown as released was paid, what is shown as decided
\* is decided, and what is shown as earned was earned.
THEOREM AnswersOnlyLag == ReadSpec => []AnswersAreNeverAhead
<1>1. /\ EscrowTypeOK /\ SettlementInv /\ BooksInv /\ RowsInv /\ MilestonesInv
      /\ GovernanceInv /\ DecidedInv /\ ProposalsInv /\ ReputationInv /\ LateInv
      => AnswersAreNeverAhead
  <2> SUFFICES ASSUME EscrowTypeOK, SettlementInv, BooksInv, RowsInv, MilestonesInv,
                      GovernanceInv, DecidedInv, ProposalsInv, ReputationInv, LateInv
               PROVE  AnswersAreNeverAhead
    OBVIOUS
  <2>1. Shaped(view) /\ Counted(pending) /\ IsSeq(pending) /\ StagesInv
    BY DEF LateInv, Counted
  <2>2. Behind(view, CaughtUp)
    BY <2>1, BehindFold, CaughtUpIs
  <2>3. ASSUME NEW i \in Issue, NEW m \in AnsweredReleases(i)  PROVE <<i, m>> \in paid
    <3>1. <<i, m>> \in DOMAIN view.milestones
      BY <2>3 DEF AnsweredReleases
    <3>2. QED
      BY <2>2, <3>1 DEF Behind, MilestonesInv
  <2>4. ASSUME NEW i \in DOMAIN view.bounties
        PROVE  \E b \in readBounty(i) :
                 view.bounties[i].released => b.released \/ b.amount > MaxExact
    <3>1. i \in DOMAIN bounty
      BY <2>2 DEF Behind, RowsInv
    <3>2. RowsNotAhead(view.bounties)
      <4>1. PICK v, s, t : v = view /\ s = <<>> /\ t = pending
        OBVIOUS
      <4>2. IsSeq(s) /\ IsSeq(t) /\ pending = s \o t
        <5>1. PICK S : t \in Seq(S)
          BY <2>1, <4>1 DEF IsSeq
        <5>2. <<>> \o t = t
          BY <5>1
        <5>3. QED
          BY <2>1, <4>1, <5>2, IsSeqNone
      <4>3. Folded(v, s) = v
        BY <4>1, FoldedNone
      <4>4. QED
        BY <2>1, <4>1, <4>2, <4>3 DEF StagesInv
    <3>3. QED
      BY <3>1, <3>2 DEF RowsNotAhead, readBounty
  <2>5. ASSUME NEW id \in DOMAIN view.disputes, AnsweredDispute(id, FALSE).resolved
        PROVE  dispute[id].resolved
    BY <2>2, <2>5 DEF AnsweredDispute, Behind, DecidedInv
  <2>6. ASSUME NEW id \in DOMAIN view.proposals, AnsweredProposal(id, FALSE).executed
        PROVE  proposal[id].executed
    <3>1. id \in DOMAIN CaughtUp.proposals /\ CaughtUp.proposals[id].executed
      BY <2>2, <2>6 DEF AnsweredProposal, Behind
    <3>2. QED
      BY <3>1 DEF ProposalsInv, KnownTable, RowKnown
  <2>7. ASSUME NEW i \in Issue, pending = <<>>
        PROVE  AnsweredOpenDisputes(i) =
                 {id \in DOMAIN dispute : dispute[id].issue = i /\ ~dispute[id].resolved}
    <3>1. CaughtUp = view
      BY <2>7, CaughtUpIs, FoldedNone
    <3>2. QED
      BY <3>1 DEF DecidedInv, AnsweredOpenDisputes
  <2>8. \A a \in Address : \A r \in AnsweredReputation(a, FALSE) :
          \E live \in AnsweredReputation(a, TRUE) :
            r.payout_total <= live.payout_total \/ live.payout_total = MaxI128
    BY <2>1, <2>2, OwnRecord
  <2>9. QED
    BY <2>3, <2>4, <2>5, <2>6, <2>7, <2>8 DEF AnswersAreNeverAhead
<1>2. QED
  BY <1>1, LateCorrect, PTL

-----------------------------------------------------------------------------
(* The tables are about things the ledger knows.                           *)

\* The panels in the table are of listed bounties, and made of addresses.
PanelsNamed == DOMAIN CaughtUp.reviewers \subseteq (DOMAIN bounty) \X Address

\* Only the event of SetReviewers adds to that table.
LEMMA NamedMembers ==
  ASSUME NEW rs, rs \in Seq(Address)
  PROVE  Members(rs) \subseteq Address
BY DEF Members

LEMMA ExecutedNames ==
  ASSUME TablesInv, PanelsNamed, DOMAIN bounty \subseteq DOMAIN bounty',
         NEW a \in Proposable, Executes(a)
  PROVE  PanelsNamed'
<1>1. PICK v, w, e : v = CaughtUp /\ w = CaughtUp' /\ e = OwnEvent(a)
  OBVIOUS
<1>2. Execute(a) /\ TakeIn(v, w, e) /\ a.kind \in ActionKinds /\ IsRows(v.reviewers)
  BY <1>1, ProposableKinds DEF Executes, TablesInv
<1>3. CASE a.kind # "SetReviewers"
  <2>1. e.topic # "reviewers_set"
    BY <1>1, <1>2, <1>3, EventTopic DEF OwnEvent, ActionKinds
  <2>2. w.reviewers = v.reviewers
    BY <1>2, <2>1, OtherTopic DEF TakeIn
  <2>3. QED
    BY <1>1, <2>2 DEF PanelsNamed
<1>4. CASE a.kind = "SetReviewers"
  <2>1. PICK i, rs, q : i = a.issue /\ rs = a.reviewers /\ q = a.quorum
    OBVIOUS
  <2>2. e = Event("reviewers_set", i, 0, rs, q)
    BY <1>1, <1>4, <2>1 DEF OwnEvent
  <2>3. apply_set_reviewers(i, rs, q)
    BY <1>2, <1>4, <2>1 DEF Execute, execute_action
  <2>4. i \in DOMAIN bounty
    BY <2>3 DEF apply_set_reviewers
  <2>5. rs \in Seq(Address)
    BY <1>4, <2>1, EscrowConstants DEF EscrowAction, SignerAction
  <2>6. Members(rs) \subseteq Address
    BY <2>5, NamedMembers
  <2>7. DOMAIN w.reviewers = DOMAIN v.reviewers \cup ({i} \X Members(rs))
    <3>1. PICK t, named : t = v.reviewers /\ named = {i} \X Members(rs)
      OBVIOUS
    <3>2. w.reviewers = rebuildReviewers(t, Event("reviewers_set", i, 0, rs, q))
      BY <1>2, <2>2, <3>1 DEF TakeIn
    <3>3. DOMAIN rebuildReviewers(t, Event("reviewers_set", i, 0, rs, q)) =
            DOMAIN t \cup named
      BY <3>1 DEF rebuildReviewers, Event
    <3>4. QED
      BY <3>1, <3>2, <3>3
  <2>8. DOMAIN v.reviewers \subseteq (DOMAIN bounty) \X Address
    BY <1>1 DEF PanelsNamed
  <2>9. QED
    BY <1>1, <2>4, <2>6, <2>7, <2>8 DEF PanelsNamed
<1>5. QED
  BY <1>3, <1>4

LEMMA PanelsNamedStep ==
  ASSUME GovernanceInv, PanelsFinite, EscrowTypeOK, SettlementInv, TablesInv,
         PanelsNamed, [ReadNext]_readVars
  PROVE  PanelsNamed'
<1>1. DOMAIN bounty \subseteq DOMAIN bounty'
  <2>1. [Next]_vars
    BY ReadStepIsStep
  <2>2. [EscrowNext]_escrowVars
    BY <2>1, StepIsEscrowStep DEF GovernanceInv
  <2>3. TermsKept
    BY <2>2, TermsStep
  <2>4. QED
    BY <2>3 DEF TermsKept
<1>2. UserPublishes \/ Quiet \/ \E a \in Proposable : Executes(a)
  BY StepEffect DEF Moves
<1>3. ASSUME NEW e, Publishes(e)  PROVE CaughtUp'.reviewers = CaughtUp.reviewers
  <2>1. TakeIn(CaughtUp, CaughtUp', e) /\ e.topic # "reviewers_set"
    BY <1>3 DEF Publishes, BountyTopics, DisputeTopics
  <2>2. QED
    BY <2>1, OtherTopic DEF TakeIn, TablesInv
<1>4. CASE UserPublishes
  <2>1. CaughtUp'.reviewers = CaughtUp.reviewers
    BY <1>3, <1>4 DEF UserPublishes
  <2>2. QED
    BY <1>1, <2>1 DEF PanelsNamed
<1>5. CASE Quiet
  BY <1>1, <1>5 DEF Quiet, SameTables, PanelsNamed
<1>6. QED
  BY <1>1, <1>2, <1>4, <1>5, ExecutedNames

LEMMA PanelsNamedCorrect == ReadSpec => []PanelsNamed
<1>1. ReadInit => PanelsNamed
  <2> SUFFICES ASSUME ReadInit  PROVE PanelsNamed
    OBVIOUS
  <2>1. CaughtUp = view
    BY ReadInitTables
  <2>2. view.reviewers = Empty /\ DOMAIN Empty = {}
    BY DEF ReadInit, Empty
  <2>3. QED
    BY <2>1, <2>2 DEF PanelsNamed
<1>2. /\ GovernanceInv /\ PanelsFinite /\ EscrowTypeOK /\ SettlementInv /\ TablesInv
      /\ PanelsNamed /\ [ReadNext]_readVars
      => PanelsNamed'
  BY PanelsNamedStep
<1>3. QED
  BY <1>1, <1>2, TablesCorrect, LateCorrect, PTL DEF ReadSpec

\* However late the index is, no table has a row about a bounty, a milestone, a panel,
\* a review or a decision that the ledger does not know, and every row of the
\* reputation table is a record of counts.
THEOREM ReadTypes == ReadSpec => []ReadTypeOK
<1>1. /\ EscrowTypeOK /\ SettlementInv /\ BooksInv /\ RowsInv /\ MilestonesInv
      /\ GovernanceInv /\ DecidedInv /\ ProposalsInv /\ ReputationInv /\ LateInv
      /\ PanelsNamed
      => ReadTypeOK
  <2> SUFFICES ASSUME RowsInv, MilestonesInv, GovernanceInv, DecidedInv, ProposalsInv,
                      LateInv, PanelsNamed
               PROVE  ReadTypeOK
    OBVIOUS
  <2>1. Shaped(view) /\ Counted(pending)
    BY DEF LateInv
  <2>2. Behind(view, CaughtUp)
    BY <2>1, BehindFold, CaughtUpIs
  <2>3. PICK v, w : v = view /\ w = CaughtUp
    OBVIOUS
  <2>4. /\ DOMAIN v.bounties \subseteq DOMAIN w.bounties
        /\ DOMAIN v.milestones \subseteq DOMAIN w.milestones
        /\ DOMAIN v.reviewers \subseteq DOMAIN w.reviewers
        /\ DOMAIN v.reviews \subseteq DOMAIN w.reviews
        /\ DOMAIN v.disputes \subseteq DOMAIN w.disputes
        /\ DOMAIN v.proposals \subseteq DOMAIN w.proposals
    BY <2>2, <2>3 DEF Behind
  <2>5. /\ DOMAIN w.bounties = DOMAIN bounty
        /\ DOMAIN w.milestones \subseteq paid
        /\ DOMAIN w.reviewers \subseteq (DOMAIN bounty) \X Address
        /\ DOMAIN w.reviews = DOMAIN review
        /\ DOMAIN w.disputes = DOMAIN dispute
        /\ DOMAIN w.proposals = DOMAIN proposal
    BY <2>3 DEF RowsInv, MilestonesInv, PanelsNamed, DecidedInv, ProposalsInv, KnownTable
  <2>6. ASSUME NEW a \in DOMAIN v.reputation.rep
        PROVE  v.reputation.rep[a] \in RepRow
    <3>1. v.reputation.rep[a] = RowOf(v.reputation, a)
      BY <2>6 DEF RowOf, Lookup
    <3>2. QED
      BY <2>1, <2>3, <3>1 DEF Shaped, ReputationShaped
  <2>7. BountyTypeOK
    BY DEF GovernanceInv
  <2>8. QED
    BY <2>3, <2>4, <2>5, <2>6, <2>7 DEF ReadTypeOK, RepRow
<1>2. QED
  BY <1>1, LateCorrect, PanelsNamedCorrect, PTL
=============================================================================
