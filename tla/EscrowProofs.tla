---------------------------- MODULE EscrowProofs ----------------------------
(***************************************************************************)
(* Proofs about the registry and the escrow, for any accounts, tokens,     *)
(* issues, writing contracts, lists of milestones and proposals.           *)
(*                                                                         *)
(* The registry comes first: the lemmas on its writes are used again for   *)
(* the escrow, which performs them inside its own transactions.  Of the    *)
(* escrow the type invariant is shown with one lemma per action; the       *)
(* safety invariants rest on it.                                           *)
(***************************************************************************)
EXTENDS Escrow, SumTheorems, FiniteSetTheorems, SequenceTheorems, TLAPS

-----------------------------------------------------------------------------
(* The registry.                                                           *)

USE RegistryConstants

\* A saturating sum of two amounts is an i128 amount, and never falls.
LEMMA SatAddBounds ==
  ASSUME NEW x \in 0..MaxI128, NEW y \in 0..MaxI128
  PROVE  SatAdd(x, y) \in 0..MaxI128 /\ x <= SatAdd(x, y)
BY DEF SatAdd

\* Storage with new values of the right types in the keys that `record` writes.
LEMMA PayoutUpdateType ==
  ASSUME NEW r \in RegistryState, NEW a \in Address, NEW g \in SUBSET Guard, NEW c \in Nat,
         NEW s \in Stats, NEW k \in Nat, NEW v \in 0..MaxI128
  PROVE  [r EXCEPT !.credited = g, !.total_contributors = c, !.stats[a] = s,
                   !.rep[a].payouts = k, !.rep[a].payout_total = v] \in RegistryState
<1>1. r.rep[a] \in Reputation
  BY DEF RegistryState
<1>2. [r.rep[a] EXCEPT !.payouts = k, !.payout_total = v] \in Reputation
  BY <1>1 DEF Reputation
<1>3. QED
  BY <1>2 DEF RegistryState

LEMMA RecordedType ==
  ASSUME NEW r \in RegistryState, NEW a \in Address, NEW i \in Issue,
         NEW m \in Slot, NEW n \in 0..MaxI128
  PROVE  Recorded(r, a, i, m, n) \in RegistryState
<1>1. r.credited \cup {<<a, i, m>>} \in SUBSET Guard
  BY DEF RegistryState, Guard
<1>2. (IF FirstPayout(r, a) THEN r.total_contributors + 1 ELSE r.total_contributors) \in Nat
  BY DEF RegistryState
<1>3. [count |-> r.stats[a].count + 1, total |-> SatAdd(r.stats[a].total, n)] \in Stats
  <2>1. r.stats[a].count \in Nat /\ r.stats[a].total \in 0..MaxI128
    BY DEF RegistryState, Stats
  <2>2. SatAdd(r.stats[a].total, n) \in 0..MaxI128
    BY <2>1, SatAddBounds
  <2>3. QED
    BY <2>1, <2>2 DEF Stats
<1>4. r.rep[a].payouts + 1 \in Nat
  BY DEF RegistryState, Reputation
<1>5. SatAdd(r.rep[a].payout_total, n) \in 0..MaxI128
  <2>1. r.rep[a].payout_total \in 0..MaxI128
    BY DEF RegistryState, Reputation
  <2>2. QED
    BY <2>1, SatAddBounds
<1>6. QED
  BY <1>1, <1>2, <1>3, <1>4, <1>5, PayoutUpdateType DEF Recorded

LEMMA ReviewsRecordedType ==
  ASSUME NEW r \in RegistryState, NEW vs \in SUBSET Address, NEW i \in Issue, NEW m \in Slot
  PROVE  ReviewsRecorded(r, vs, i, m) \in RegistryState
<1>1. {<<v, i, m>> : v \in vs} \subseteq Guard
  BY DEF Guard
<1>2. \A a \in Address : [r.rep[a] EXCEPT !.reviews_upheld = @ + 1] \in Reputation
  BY DEF RegistryState, Reputation
<1>3. QED
  BY <1>1, <1>2 DEF ReviewsRecorded, RegistryState

LEMMA DisputeUpdateType ==
  ASSUME NEW r \in RegistryState, NEW a \in Address, NEW g \in SUBSET Guard,
         NEW k \in Nat, NEW l \in Nat
  PROVE  [r EXCEPT !.dispute_credited = g, !.rep[a].disputes_opened = k,
                   !.rep[a].disputes_lost = l] \in RegistryState
<1>1. r.rep[a] \in Reputation
  BY DEF RegistryState
<1>2. [r.rep[a] EXCEPT !.disputes_opened = k, !.disputes_lost = l] \in Reputation
  BY <1>1 DEF Reputation
<1>3. QED
  BY <1>2 DEF RegistryState

LEMMA DisputeRecordedType ==
  ASSUME NEW r \in RegistryState, NEW a \in Address, NEW i \in Issue, NEW m \in Slot,
         NEW lost \in BOOLEAN
  PROVE  DisputeRecorded(r, a, i, m, lost) \in RegistryState
<1>1. r.dispute_credited \cup {<<a, i, m>>} \in SUBSET Guard
  BY DEF RegistryState, Guard
<1>2. r.rep[a].disputes_opened + 1 \in Nat
  BY DEF RegistryState, Reputation
<1>3. (IF lost THEN r.rep[a].disputes_lost + 1 ELSE r.rep[a].disputes_lost) \in Nat
  BY DEF RegistryState, Reputation
<1>4. QED
  BY <1>1, <1>2, <1>3, DisputeUpdateType DEF DisputeRecorded

-----------------------------------------------------------------------------
LEMMA RegInitType == RegInit => RegTypeOK
<1>1. NoStats \in Stats /\ NoReputation \in Reputation
  BY DEF NoStats, Stats, NoReputation, Reputation
<1>2. QED
  BY <1>1 DEF RegInit, RegTypeOK, FreshRegistry, RegistryState

LEMMA AdministerType == RegTypeOK /\ Administer => RegTypeOK'
BY DEF RegTypeOK, Administer, RegistryInit, SetAllowedCaller, RegistryState

LEMMA WriteType ==
  ASSUME NEW c \in Caller, RegTypeOK, Write(c)
  PROVE  RegTypeOK'
<1>1. PICK a \in Address, i \in Issue, m \in Slot :
        \/ \E n \in Amount : Record(c, a, i, m, n)
        \/ RecordReview(c, a, i, m)
        \/ \E lost \in BOOLEAN : RecordDispute(c, a, i, m, lost)
  BY DEF Write
<1>2. ASSUME NEW n \in Amount, Record(c, a, i, m, n)  PROVE RegTypeOK'
  <2>1. n \in 0..MaxI128
    OBVIOUS
  <2>2. QED
    BY <1>2, <2>1, RecordedType DEF Record, RegTypeOK
<1>3. CASE RecordReview(c, a, i, m)
  BY <1>3, ReviewsRecordedType DEF RecordReview, RegTypeOK
<1>4. ASSUME NEW lost \in BOOLEAN, RecordDispute(c, a, i, m, lost)  PROVE RegTypeOK'
  BY <1>4, DisputeRecordedType DEF RecordDispute, RegTypeOK
<1>5. QED
  BY <1>1, <1>2, <1>3, <1>4

\* The storage of the registry keeps its type under any writers.
THEOREM RegTypeCorrect == RegSpec => []RegTypeOK
<1>1. RegTypeOK /\ [RegNext]_reg => RegTypeOK'
  BY AdministerType, WriteType DEF RegNext, RegTypeOK
<1>2. QED
  BY RegInitType, <1>1, PTL DEF RegSpec

-----------------------------------------------------------------------------
(* The counters.  Cardinalities are only meaningful of finite sets: the    *)
(* invariant adds that every account has finitely many guards, and that    *)
(* finitely many accounts were ever paid.                                  *)

\* What one account's counters say of its guards, in a registry value r.
AccountSound(r, a) ==
  /\ IsFiniteSet(GuardsOf(r.credited, a))
  /\ IsFiniteSet(GuardsOf(r.review_credited, a))
  /\ IsFiniteSet(GuardsOf(r.dispute_credited, a))
  /\ r.rep[a].payouts = Cardinality(GuardsOf(r.credited, a))
  /\ r.rep[a].reviews_upheld = Cardinality(GuardsOf(r.review_credited, a))
  /\ r.rep[a].disputes_opened = Cardinality(GuardsOf(r.dispute_credited, a))
  /\ r.rep[a].disputes_lost <= r.rep[a].disputes_opened
  /\ r.stats[a].count = r.rep[a].payouts
  /\ r.stats[a].total = r.rep[a].payout_total
  /\ r.rep[a].payouts = 0 => r.rep[a].payout_total = 0

Contributors(r) == {a \in Address : r.stats[a].count > 0}

RegistrySound(r) ==
  /\ \A a \in Address : AccountSound(r, a)
  /\ IsFiniteSet(Contributors(r))
  /\ r.total_contributors = Cardinality(Contributors(r))

LEMMA SoundIsConsistent == RegistrySound(reg) => RegistryConsistent
BY DEF RegistrySound, AccountSound, Contributors, RegistryConsistent,
       CountersMatchGuards, AggregatesAgree

\* A new guard of an account is one more of that account.
LEMMA OneMoreGuard ==
  ASSUME NEW G, NEW a, NEW i, NEW m, IsFiniteSet(GuardsOf(G, a)), <<a, i, m>> \notin G
  PROVE  /\ IsFiniteSet(GuardsOf(G \cup {<<a, i, m>>}, a))
         /\ Cardinality(GuardsOf(G \cup {<<a, i, m>>}, a)) = Cardinality(GuardsOf(G, a)) + 1
<1>1. GuardsOf(G \cup {<<a, i, m>>}, a) = GuardsOf(G, a) \cup {<<a, i, m>>}
  BY DEF GuardsOf
<1>2. <<a, i, m>> \notin GuardsOf(G, a)
  BY DEF GuardsOf
<1>3. QED
  BY <1>1, <1>2, FS_AddElement

\* The guards that one payout spends on the reviews of its milestone.
ReviewGuards(vs, i, m) == {<<v, i, m>> : v \in vs}

\* The storage after each write, key by key.
LEMMA RecordedParts ==
  ASSUME NEW r \in RegistryState, NEW a \in Address, NEW i, NEW m, NEW n,
         NEW r2, r2 = Recorded(r, a, i, m, n)
  PROVE  /\ r2.admin = r.admin /\ r2.allowed_caller = r.allowed_caller
         /\ r2.credited = r.credited \cup {<<a, i, m>>}
         /\ r2.review_credited = r.review_credited
         /\ r2.dispute_credited = r.dispute_credited
         /\ r2.total_contributors = IF r.stats[a].count = 0 THEN r.total_contributors + 1
                                    ELSE r.total_contributors
         /\ r2.stats[a].count = r.stats[a].count + 1
         /\ r2.stats[a].total = SatAdd(r.stats[a].total, n)
         /\ r2.rep[a].payouts = r.rep[a].payouts + 1
         /\ r2.rep[a].payout_total = SatAdd(r.rep[a].payout_total, n)
         /\ r2.rep[a].reviews_upheld = r.rep[a].reviews_upheld
         /\ r2.rep[a].disputes_opened = r.rep[a].disputes_opened
         /\ r2.rep[a].disputes_lost = r.rep[a].disputes_lost
         /\ \A b \in Address \ {a} : r2.stats[b] = r.stats[b] /\ r2.rep[b] = r.rep[b]
<1>1. r.rep[a] \in Reputation /\ r.rep \in [Address -> Reputation] /\ r.stats \in [Address -> Stats]
  BY DEF RegistryState
<1>2. r2 = [r EXCEPT
              !.credited = r.credited \cup {<<a, i, m>>},
              !.total_contributors = IF r.stats[a].count = 0 THEN r.total_contributors + 1
                                     ELSE r.total_contributors,
              !.stats = [r.stats EXCEPT ![a] = [count |-> r.stats[a].count + 1,
                                                total |-> SatAdd(r.stats[a].total, n)]],
              !.rep = [r.rep EXCEPT ![a] =
                         [r.rep[a] EXCEPT !.payouts = r.rep[a].payouts + 1,
                                          !.payout_total = SatAdd(r.rep[a].payout_total, n)]]]
  BY ZenonT(60) DEF Recorded, FirstPayout, RegistryState, Reputation
<1> DEFINE s == [r.stats EXCEPT ![a] = [count |-> r.stats[a].count + 1,
                                        total |-> SatAdd(r.stats[a].total, n)]]
           p == [r.rep EXCEPT ![a] =
                   [r.rep[a] EXCEPT !.payouts = r.rep[a].payouts + 1,
                                    !.payout_total = SatAdd(r.rep[a].payout_total, n)]]
<1>3. /\ s[a].count = r.stats[a].count + 1
      /\ s[a].total = SatAdd(r.stats[a].total, n)
      /\ \A b \in Address \ {a} : s[b] = r.stats[b]
  BY <1>1
<1>4. /\ p[a].payouts = r.rep[a].payouts + 1
      /\ p[a].payout_total = SatAdd(r.rep[a].payout_total, n)
      /\ p[a].reviews_upheld = r.rep[a].reviews_upheld
      /\ p[a].disputes_opened = r.rep[a].disputes_opened
      /\ p[a].disputes_lost = r.rep[a].disputes_lost
      /\ \A b \in Address \ {a} : p[b] = r.rep[b]
  BY <1>1 DEF Reputation
<1> HIDE DEF s, p
<1>5. r2.stats = s /\ r2.rep = p
  BY <1>2 DEF s, p, RegistryState
<1>6. /\ r2.admin = r.admin /\ r2.allowed_caller = r.allowed_caller
      /\ r2.credited = r.credited \cup {<<a, i, m>>}
      /\ r2.review_credited = r.review_credited
      /\ r2.dispute_credited = r.dispute_credited
      /\ r2.total_contributors = IF r.stats[a].count = 0 THEN r.total_contributors + 1
                                 ELSE r.total_contributors
  BY <1>2 DEF RegistryState
<1>7. QED
  BY <1>3, <1>4, <1>5, <1>6

LEMMA ReviewsRecordedParts ==
  ASSUME NEW r \in RegistryState, NEW vs, NEW i, NEW m,
         NEW r2, r2 = ReviewsRecorded(r, vs, i, m)
  PROVE  /\ r2.admin = r.admin /\ r2.allowed_caller = r.allowed_caller
         /\ r2.credited = r.credited /\ r2.dispute_credited = r.dispute_credited
         /\ r2.review_credited = r.review_credited \cup ReviewGuards(vs, i, m)
         /\ r2.stats = r.stats /\ r2.total_contributors = r.total_contributors
         /\ \A a \in Address :
              /\ r2.rep[a].payouts = r.rep[a].payouts
              /\ r2.rep[a].payout_total = r.rep[a].payout_total
              /\ r2.rep[a].reviews_upheld = IF a \in vs THEN r.rep[a].reviews_upheld + 1
                                            ELSE r.rep[a].reviews_upheld
              /\ r2.rep[a].disputes_opened = r.rep[a].disputes_opened
              /\ r2.rep[a].disputes_lost = r.rep[a].disputes_lost
<1> DEFINE p == [a \in Address |-> IF a \in vs
                                   THEN [r.rep[a] EXCEPT !.reviews_upheld = @ + 1]
                                   ELSE r.rep[a]]
<1>1. /\ r2.admin = r.admin /\ r2.allowed_caller = r.allowed_caller
      /\ r2.credited = r.credited /\ r2.dispute_credited = r.dispute_credited
      /\ r2.review_credited = r.review_credited \cup ReviewGuards(vs, i, m)
      /\ r2.stats = r.stats /\ r2.total_contributors = r.total_contributors
      /\ r2.rep = p
  BY DEF ReviewsRecorded, RegistryState, ReviewGuards
<1>2. \A a \in Address :
              /\ p[a].payouts = r.rep[a].payouts
              /\ p[a].payout_total = r.rep[a].payout_total
              /\ p[a].reviews_upheld = IF a \in vs THEN r.rep[a].reviews_upheld + 1
                                       ELSE r.rep[a].reviews_upheld
              /\ p[a].disputes_opened = r.rep[a].disputes_opened
              /\ p[a].disputes_lost = r.rep[a].disputes_lost
  BY DEF RegistryState, Reputation
<1>3. QED
  BY <1>1, <1>2

LEMMA DisputeRecordedParts ==
  ASSUME NEW r \in RegistryState, NEW a \in Address, NEW i, NEW m, NEW lost,
         NEW r2, r2 = DisputeRecorded(r, a, i, m, lost)
  PROVE  /\ r2.admin = r.admin /\ r2.allowed_caller = r.allowed_caller
         /\ r2.credited = r.credited /\ r2.review_credited = r.review_credited
         /\ r2.dispute_credited = r.dispute_credited \cup {<<a, i, m>>}
         /\ r2.stats = r.stats /\ r2.total_contributors = r.total_contributors
         /\ \A b \in Address : r2.rep[b].payout_total = r.rep[b].payout_total
         /\ r2.rep[a].payouts = r.rep[a].payouts
         /\ r2.rep[a].reviews_upheld = r.rep[a].reviews_upheld
         /\ r2.rep[a].disputes_opened = r.rep[a].disputes_opened + 1
         /\ r2.rep[a].disputes_lost \in {r.rep[a].disputes_lost, r.rep[a].disputes_lost + 1}
         /\ lost => r2.rep[a].disputes_lost = r.rep[a].disputes_lost + 1
         /\ \A b \in Address \ {a} : r2.rep[b] = r.rep[b]
<1> DEFINE k == IF lost THEN r.rep[a].disputes_lost + 1 ELSE r.rep[a].disputes_lost
           p == [r.rep EXCEPT ![a] = [r.rep[a] EXCEPT
                                        !.disputes_opened = r.rep[a].disputes_opened + 1,
                                        !.disputes_lost = k]]
<1>1. r.rep[a] \in Reputation /\ r.rep \in [Address -> Reputation]
  BY DEF RegistryState
<1>2. r2 = [r EXCEPT !.dispute_credited = r.dispute_credited \cup {<<a, i, m>>}, !.rep = p]
  BY <1>1, ZenonT(60) DEF DisputeRecorded, RegistryState, Reputation
<1>3. /\ k \in {r.rep[a].disputes_lost, r.rep[a].disputes_lost + 1}
      /\ lost => k = r.rep[a].disputes_lost + 1
  OBVIOUS
<1> HIDE DEF k
<1>4. /\ \A b \in Address : p[b].payout_total = r.rep[b].payout_total
      /\ p[a].payouts = r.rep[a].payouts
      /\ p[a].reviews_upheld = r.rep[a].reviews_upheld
      /\ p[a].disputes_opened = r.rep[a].disputes_opened + 1
      /\ p[a].disputes_lost = k
      /\ \A b \in Address \ {a} : p[b] = r.rep[b]
  BY <1>1 DEF Reputation
<1> HIDE DEF p
<1>5. /\ r2.admin = r.admin /\ r2.allowed_caller = r.allowed_caller
      /\ r2.credited = r.credited /\ r2.review_credited = r.review_credited
      /\ r2.dispute_credited = r.dispute_credited \cup {<<a, i, m>>}
      /\ r2.stats = r.stats /\ r2.total_contributors = r.total_contributors
      /\ r2.rep = p
  BY <1>2 DEF RegistryState
<1>6. QED
  BY <1>3, <1>4, <1>5

-----------------------------------------------------------------------------
(* Each write keeps the registry sound.                                    *)

LEMMA RecordedSound ==
  ASSUME NEW r \in RegistryState, RegistrySound(r), NEW a \in Address, NEW i, NEW m, NEW n,
         <<a, i, m>> \notin r.credited
  PROVE  RegistrySound(Recorded(r, a, i, m, n))
<1>1. PICK r2 : r2 = Recorded(r, a, i, m, n)
  OBVIOUS
<1>2. /\ r2.credited = r.credited \cup {<<a, i, m>>}
      /\ r2.review_credited = r.review_credited
      /\ r2.dispute_credited = r.dispute_credited
      /\ r2.total_contributors = IF r.stats[a].count = 0 THEN r.total_contributors + 1
                                 ELSE r.total_contributors
      /\ r2.stats[a].count = r.stats[a].count + 1
      /\ r2.stats[a].total = SatAdd(r.stats[a].total, n)
      /\ r2.rep[a].payouts = r.rep[a].payouts + 1
      /\ r2.rep[a].payout_total = SatAdd(r.rep[a].payout_total, n)
      /\ r2.rep[a].reviews_upheld = r.rep[a].reviews_upheld
      /\ r2.rep[a].disputes_opened = r.rep[a].disputes_opened
      /\ r2.rep[a].disputes_lost = r.rep[a].disputes_lost
      /\ \A b \in Address \ {a} : r2.stats[b] = r.stats[b] /\ r2.rep[b] = r.rep[b]
  BY <1>1, RecordedParts
<1>3. \A b \in Address : AccountSound(r, b)
  BY DEF RegistrySound
<1>4. AccountSound(r2, a)
  <2>1. AccountSound(r, a)
    BY <1>3
  <2>2. /\ IsFiniteSet(GuardsOf(r2.credited, a))
        /\ Cardinality(GuardsOf(r2.credited, a)) = Cardinality(GuardsOf(r.credited, a)) + 1
    BY <1>2, <2>1, OneMoreGuard DEF AccountSound
  <2>3. r2.rep[a].payouts # 0
    BY <1>2 DEF RegistryState, Reputation
  <2>4. QED
    BY <1>2, <2>1, <2>2, <2>3 DEF AccountSound
<1>5. \A b \in Address \ {a} : AccountSound(r2, b)
  <2>1. TAKE b \in Address \ {a}
  <2>2. AccountSound(r, b)
    BY <1>3
  <2>3. GuardsOf(r2.credited, b) = GuardsOf(r.credited, b)
    <3>1. b # a /\ r2.credited = r.credited \cup {<<a, i, m>>}
      BY <1>2
    <3>2. QED
      BY <3>1 DEF GuardsOf
  <2>4. QED
    BY <1>2, <2>2, <2>3 DEF AccountSound
<1>6. Contributors(r2) = Contributors(r) \cup {a}
  <2>1. \A b \in Address : r.stats[b].count \in Nat
    BY DEF RegistryState, Stats
  <2>2. r2.stats[a].count > 0
    BY <1>2, <2>1
  <2>3. QED
    BY <1>2, <2>2 DEF Contributors
<1>7. a \in Contributors(r) <=> r.stats[a].count # 0
  BY DEF Contributors, RegistryState, Stats
<1>8. IsFiniteSet(Contributors(r2)) /\ r2.total_contributors = Cardinality(Contributors(r2))
  <2>1. IsFiniteSet(Contributors(r)) /\ r.total_contributors = Cardinality(Contributors(r))
    BY DEF RegistrySound
  <2>2. QED
    BY <1>2, <1>6, <1>7, <2>1, FS_AddElement
<1>9. QED
  BY <1>1, <1>4, <1>5, <1>8 DEF RegistrySound

LEMMA ReviewsRecordedSound ==
  ASSUME NEW r \in RegistryState, RegistrySound(r), NEW vs, NEW i, NEW m,
         \A v \in vs : <<v, i, m>> \notin r.review_credited
  PROVE  RegistrySound(ReviewsRecorded(r, vs, i, m))
<1>1. PICK r2 : r2 = ReviewsRecorded(r, vs, i, m)
  OBVIOUS
<1>2. /\ r2.credited = r.credited /\ r2.dispute_credited = r.dispute_credited
      /\ r2.review_credited = r.review_credited \cup ReviewGuards(vs, i, m)
      /\ r2.stats = r.stats /\ r2.total_contributors = r.total_contributors
      /\ \A a \in Address :
           /\ r2.rep[a].payouts = r.rep[a].payouts
           /\ r2.rep[a].payout_total = r.rep[a].payout_total
           /\ r2.rep[a].reviews_upheld = IF a \in vs THEN r.rep[a].reviews_upheld + 1
                                         ELSE r.rep[a].reviews_upheld
           /\ r2.rep[a].disputes_opened = r.rep[a].disputes_opened
           /\ r2.rep[a].disputes_lost = r.rep[a].disputes_lost
  BY <1>1, ReviewsRecordedParts
<1>3. \A a \in Address : AccountSound(r2, a)
  <2>1. TAKE a \in Address
  <2>2. AccountSound(r, a)
    BY DEF RegistrySound
  <2>3. CASE a \in vs
    <3>1. GuardsOf(r2.review_credited, a) = GuardsOf(r.review_credited \cup {<<a, i, m>>}, a)
      BY <1>2, <2>3 DEF GuardsOf, ReviewGuards
    <3>2. /\ IsFiniteSet(GuardsOf(r2.review_credited, a))
          /\ Cardinality(GuardsOf(r2.review_credited, a))
               = Cardinality(GuardsOf(r.review_credited, a)) + 1
      <4>1. <<a, i, m>> \notin r.review_credited
        BY <2>3
      <4>2. IsFiniteSet(GuardsOf(r.review_credited, a))
        BY <2>2 DEF AccountSound
      <4>3. QED
        BY <3>1, <4>1, <4>2, OneMoreGuard
    <3>3. QED
      BY <1>2, <2>2, <2>3, <3>2 DEF AccountSound
  <2>4. CASE a \notin vs
    <3>1. GuardsOf(r2.review_credited, a) = GuardsOf(r.review_credited, a)
      BY <1>2, <2>4 DEF GuardsOf, ReviewGuards
    <3>2. QED
      BY <1>2, <2>2, <2>4, <3>1 DEF AccountSound
  <2>5. QED
    BY <2>3, <2>4
<1>4. Contributors(r2) = Contributors(r)
  BY <1>2 DEF Contributors
<1>5. QED
  BY <1>1, <1>2, <1>3, <1>4 DEF RegistrySound

LEMMA DisputeRecordedSound ==
  ASSUME NEW r \in RegistryState, RegistrySound(r), NEW a \in Address, NEW i, NEW m,
         NEW lost \in BOOLEAN, <<a, i, m>> \notin r.dispute_credited
  PROVE  RegistrySound(DisputeRecorded(r, a, i, m, lost))
<1>1. PICK r2 : r2 = DisputeRecorded(r, a, i, m, lost)
  OBVIOUS
<1>2. /\ r2.credited = r.credited /\ r2.review_credited = r.review_credited
      /\ r2.dispute_credited = r.dispute_credited \cup {<<a, i, m>>}
      /\ r2.stats = r.stats /\ r2.total_contributors = r.total_contributors
      /\ \A b \in Address : r2.rep[b].payout_total = r.rep[b].payout_total
      /\ r2.rep[a].payouts = r.rep[a].payouts
      /\ r2.rep[a].reviews_upheld = r.rep[a].reviews_upheld
      /\ r2.rep[a].disputes_opened = r.rep[a].disputes_opened + 1
      /\ r2.rep[a].disputes_lost \in {r.rep[a].disputes_lost, r.rep[a].disputes_lost + 1}
      /\ \A b \in Address \ {a} : r2.rep[b] = r.rep[b]
  BY <1>1, DisputeRecordedParts
<1>3. AccountSound(r2, a)
  <2>1. AccountSound(r, a)
    BY DEF RegistrySound
  <2>2. /\ IsFiniteSet(GuardsOf(r2.dispute_credited, a))
        /\ Cardinality(GuardsOf(r2.dispute_credited, a))
             = Cardinality(GuardsOf(r.dispute_credited, a)) + 1
    BY <1>2, <2>1, OneMoreGuard DEF AccountSound
  <2>3. r2.rep[a].disputes_lost <= r2.rep[a].disputes_opened
    <3>1. r.rep[a].disputes_lost \in Nat /\ r.rep[a].disputes_opened \in Nat
      BY DEF RegistryState, Reputation
    <3>2. QED
      BY <1>2, <2>1, <3>1 DEF AccountSound
  <2>4. QED
    BY <1>2, <2>1, <2>2, <2>3 DEF AccountSound
<1>4. \A b \in Address \ {a} : AccountSound(r2, b)
  <2>1. TAKE b \in Address \ {a}
  <2>2. AccountSound(r, b)
    BY DEF RegistrySound
  <2>3. GuardsOf(r2.dispute_credited, b) = GuardsOf(r.dispute_credited, b)
    <3>1. b # a /\ r2.dispute_credited = r.dispute_credited \cup {<<a, i, m>>}
      BY <1>2
    <3>2. QED
      BY <3>1 DEF GuardsOf
  <2>4. QED
    BY <1>2, <2>2, <2>3 DEF AccountSound
<1>5. Contributors(r2) = Contributors(r)
  BY <1>2 DEF Contributors
<1>6. QED
  BY <1>1, <1>2, <1>3, <1>4, <1>5 DEF RegistrySound

LEMMA FreshSound == RegistrySound(FreshRegistry)
<1>1. \A a \in Address : AccountSound(FreshRegistry, a)
  BY FS_EmptySet DEF FreshRegistry, AccountSound, GuardsOf, NoStats, NoReputation
<1>2. Contributors(FreshRegistry) = {}
  BY DEF FreshRegistry, Contributors, NoStats
<1>3. FreshRegistry.total_contributors = 0
  BY DEF FreshRegistry
<1>4. QED
  BY <1>1, <1>2, <1>3, FS_EmptySet DEF RegistrySound

\* Neither the admin nor the allowed caller is part of what must agree.
LEMMA SameRecordsSound ==
  ASSUME NEW r, RegistrySound(r), NEW r2,
         r2.credited = r.credited, r2.review_credited = r.review_credited,
         r2.dispute_credited = r.dispute_credited, r2.stats = r.stats, r2.rep = r.rep,
         r2.total_contributors = r.total_contributors
  PROVE  RegistrySound(r2)
BY DEF RegistrySound, AccountSound, Contributors

LEMMA AdministerSound ==
  ASSUME RegTypeOK, RegistrySound(reg), Administer
  PROVE  RegistrySound(reg')
<1>1. /\ reg'.credited = reg.credited /\ reg'.review_credited = reg.review_credited
      /\ reg'.dispute_credited = reg.dispute_credited
      /\ reg'.stats = reg.stats /\ reg'.rep = reg.rep
      /\ reg'.total_contributors = reg.total_contributors
  BY DEF RegTypeOK, Administer, RegistryInit, SetAllowedCaller, RegistryState
<1>2. QED
  BY <1>1, SameRecordsSound

LEMMA WriteSound ==
  ASSUME NEW c \in Caller, RegTypeOK, RegistrySound(reg), Write(c)
  PROVE  RegistrySound(reg')
<1>1. PICK a \in Address, i \in Issue, m \in Slot :
        \/ \E n \in Amount : Record(c, a, i, m, n)
        \/ RecordReview(c, a, i, m)
        \/ \E lost \in BOOLEAN : RecordDispute(c, a, i, m, lost)
  BY DEF Write
<1>2. ASSUME NEW n \in Amount, Record(c, a, i, m, n)  PROVE RegistrySound(reg')
  BY <1>2, RecordedSound DEF Record, RecordAllowed, RegTypeOK
<1>3. CASE RecordReview(c, a, i, m)
  <2>1. <<a, i, m>> \notin reg.review_credited /\ reg' = ReviewsRecorded(reg, {a}, i, m)
    BY <1>3 DEF RecordReview, ReviewsAllowed
  <2>2. QED
    BY <2>1, ReviewsRecordedSound DEF RegTypeOK
<1>4. ASSUME NEW lost \in BOOLEAN, RecordDispute(c, a, i, m, lost)  PROVE RegistrySound(reg')
  BY <1>4, DisputeRecordedSound DEF RecordDispute, DisputeAllowed, RegTypeOK
<1>5. QED
  BY <1>1, <1>2, <1>3, <1>4

\* Whoever writes, in whatever order and under whatever rotations: every counter
\* is the number of its guards, and the two aggregates of an account agree.
THEOREM RegistryAlwaysConsistent == RegSpec => []RegistryConsistent
<1>1. RegInit => RegistrySound(reg)
  BY FreshSound DEF RegInit
<1>2. RegTypeOK /\ RegistrySound(reg) /\ [RegNext]_reg => RegistrySound(reg)'
  BY AdministerSound, WriteSound DEF RegNext
<1>3. RegSpec => []RegistrySound(reg)
  BY <1>1, <1>2, RegTypeCorrect, PTL DEF RegSpec
<1>4. QED
  BY <1>3, SoundIsConsistent, PTL

-----------------------------------------------------------------------------
(* The history.                                                            *)

\* From r to r2 nothing credited is taken back.
Keeps(r, r2) ==
  /\ r.credited \subseteq r2.credited
  /\ r.review_credited \subseteq r2.review_credited
  /\ r.dispute_credited \subseteq r2.dispute_credited
  /\ \A a \in Address : r.rep[a].payout_total <= r2.rep[a].payout_total
  /\ r.admin # NoOne => r2.admin = r.admin

LEMMA RecordedKeeps ==
  ASSUME NEW r \in RegistryState, NEW a \in Address, NEW i, NEW m, NEW n \in 0..MaxI128
  PROVE  Keeps(r, Recorded(r, a, i, m, n))
<1>1. PICK r2 : r2 = Recorded(r, a, i, m, n)
  OBVIOUS
<1>2. \A b \in Address : r.rep[b].payout_total \in 0..MaxI128
  BY DEF RegistryState, Reputation
<1>3. /\ r2.admin = r.admin /\ r2.credited = r.credited \cup {<<a, i, m>>}
      /\ r2.review_credited = r.review_credited
      /\ r2.dispute_credited = r.dispute_credited
      /\ r2.rep[a].payout_total = SatAdd(r.rep[a].payout_total, n)
      /\ \A b \in Address \ {a} : r2.rep[b] = r.rep[b]
  BY <1>1, RecordedParts
<1>4. \A b \in Address : r.rep[b].payout_total <= r2.rep[b].payout_total
  <2>1. TAKE b \in Address
  <2>2. CASE b = a
    BY <1>2, <1>3, <2>2, SatAddBounds
  <2>3. CASE b # a
    BY <1>2, <1>3, <2>3
  <2>4. QED
    BY <2>2, <2>3
<1>5. QED
  BY <1>1, <1>3, <1>4 DEF Keeps

LEMMA ReviewsRecordedKeeps ==
  ASSUME NEW r \in RegistryState, NEW vs, NEW i, NEW m
  PROVE  Keeps(r, ReviewsRecorded(r, vs, i, m))
<1>1. PICK r2 : r2 = ReviewsRecorded(r, vs, i, m)
  OBVIOUS
<1>2. \A b \in Address : r.rep[b].payout_total \in 0..MaxI128
  BY DEF RegistryState, Reputation
<1>3. /\ r2.admin = r.admin /\ r2.allowed_caller = r.allowed_caller
      /\ r2.credited = r.credited /\ r2.dispute_credited = r.dispute_credited
      /\ r2.review_credited = r.review_credited \cup ReviewGuards(vs, i, m)
      /\ r2.stats = r.stats /\ r2.total_contributors = r.total_contributors
      /\ \A a \in Address :
           /\ r2.rep[a].payouts = r.rep[a].payouts
           /\ r2.rep[a].payout_total = r.rep[a].payout_total
           /\ r2.rep[a].reviews_upheld = IF a \in vs THEN r.rep[a].reviews_upheld + 1
                                         ELSE r.rep[a].reviews_upheld
           /\ r2.rep[a].disputes_opened = r.rep[a].disputes_opened
           /\ r2.rep[a].disputes_lost = r.rep[a].disputes_lost
  BY <1>1, ReviewsRecordedParts
<1>4. QED
  BY <1>1, <1>2, <1>3 DEF Keeps

LEMMA DisputeRecordedKeeps ==
  ASSUME NEW r \in RegistryState, NEW a \in Address, NEW i, NEW m, NEW lost \in BOOLEAN
  PROVE  Keeps(r, DisputeRecorded(r, a, i, m, lost))
<1>1. PICK r2 : r2 = DisputeRecorded(r, a, i, m, lost)
  OBVIOUS
<1>2. \A b \in Address : r.rep[b].payout_total \in 0..MaxI128
  BY DEF RegistryState, Reputation
<1>3. /\ r2.admin = r.admin /\ r2.credited = r.credited
      /\ r2.review_credited = r.review_credited
      /\ r.dispute_credited \subseteq r2.dispute_credited
      /\ \A b \in Address : r2.rep[b].payout_total = r.rep[b].payout_total
  BY <1>1, DisputeRecordedParts
<1>4. QED
  BY <1>1, <1>2, <1>3 DEF Keeps

LEMMA AdministerKeeps ==
  ASSUME RegTypeOK, Administer
  PROVE  Keeps(reg, reg')
<1>1. \A b \in Address : reg.rep[b].payout_total \in 0..MaxI128
  BY DEF RegTypeOK, RegistryState, Reputation
<1>2. /\ reg'.credited = reg.credited /\ reg'.review_credited = reg.review_credited
      /\ reg'.dispute_credited = reg.dispute_credited /\ reg'.rep = reg.rep
      /\ reg.admin # NoOne => reg'.admin = reg.admin
  BY DEF RegTypeOK, Administer, RegistryInit, SetAllowedCaller, RegistryState
<1>3. QED
  BY <1>1, <1>2 DEF Keeps

LEMMA WriteKeeps ==
  ASSUME NEW c \in Caller, RegTypeOK, Write(c)
  PROVE  Keeps(reg, reg')
<1>1. PICK a \in Address, i \in Issue, m \in Slot :
        \/ \E n \in Amount : Record(c, a, i, m, n)
        \/ RecordReview(c, a, i, m)
        \/ \E lost \in BOOLEAN : RecordDispute(c, a, i, m, lost)
  BY DEF Write
<1>2. ASSUME NEW n \in Amount, Record(c, a, i, m, n)  PROVE Keeps(reg, reg')
  <2>1. n \in 0..MaxI128
    OBVIOUS
  <2>2. QED
    BY <1>2, <2>1, RecordedKeeps DEF Record, RegTypeOK
<1>3. CASE RecordReview(c, a, i, m)
  <2>1. reg' = ReviewsRecorded(reg, {a}, i, m)
    BY <1>3 DEF RecordReview
  <2>2. QED
    BY <2>1, ReviewsRecordedKeeps DEF RegTypeOK
<1>4. ASSUME NEW lost \in BOOLEAN, RecordDispute(c, a, i, m, lost)  PROVE Keeps(reg, reg')
  BY <1>4, DisputeRecordedKeeps DEF RecordDispute, RegTypeOK
<1>5. QED
  BY <1>1, <1>2, <1>3, <1>4

\* Rotating the allowed caller rewrites no one's record, and no total falls.
THEOREM HistoryIsKept == RegSpec => HistoryKept
<1>1. ASSUME RegTypeOK, [RegNext]_reg
      PROVE  [/\ reg.credited \subseteq reg'.credited
              /\ reg.review_credited \subseteq reg'.review_credited
              /\ reg.dispute_credited \subseteq reg'.dispute_credited
              /\ \A a \in Address : reg.rep[a].payout_total <= reg'.rep[a].payout_total
              /\ (reg.admin # NoOne => reg'.admin = reg.admin)]_reg
  BY <1>1, AdministerKeeps, WriteKeeps DEF RegNext, Keeps
<1>2. QED
  BY <1>1, RegTypeCorrect, PTL DEF RegSpec, HistoryKept

HIDE RegistryConstants

-----------------------------------------------------------------------------
(* The helpers.                                                            *)

\* Writing one key of a store keeps the types of its keys and values.
LEMMA PutType ==
  ASSUME NEW f, NEW K, NEW V, DOMAIN f \subseteq K, f \in [DOMAIN f -> V],
         NEW key \in K, NEW value \in V
  PROVE  /\ DOMAIN Put(f, key, value) \subseteq K
         /\ Put(f, key, value) \in [DOMAIN Put(f, key, value) -> V]
BY DEF Put

\* The amount of a bounty is the sum of its milestones, up to the largest i128.
LEMMA TotalIsSum ==
  ASSUME NEW l \in MilestoneLists
  PROVE  Total(l) = SatAdd(0, Sum(l, DOMAIN l))
<1> DEFINE S == DOMAIN l
           IsTotals(g) ==
             g = [s \in SUBSET S |->
                    IF s = {} THEN 0 ELSE SatAdd(l[First(s)], g[s \ {First(s)}])]
           h == [s \in SUBSET S |-> SatAdd(0, Sum(l, s))]
           k == CHOOSE g : IsTotals(g)
<1>1. /\ IsFiniteSet(S) /\ MaxI128 \in Nat
      /\ \A m \in S : l[m] \in Nat
  <2>1. l \in Seq(1..MaxI128) /\ MaxI128 \in Nat
    BY EscrowConstants, RegistryConstants
  <2>2. S = 1..Len(l) /\ Len(l) \in Nat
    BY <2>1, LenProperties
  <2>3. \A m \in S : l[m] \in 1..MaxI128
    BY <2>1, <2>2, ElementOfSeq
  <2> HIDE DEF S
  <2>4. \A m \in S : l[m] \in Nat
    BY <2>1, <2>3
  <2>5. IsFiniteSet(S)
    BY <2>2, FS_Interval
  <2>6. QED
    BY <2>1, <2>4, <2>5
<1>2. Total(l) = k[S]
  BY DEF Total, FoldSeq, FoldFunction, FoldFunctionOnSet, MapThenFoldSet, First
<1>3. ASSUME NEW s \in SUBSET S
      PROVE  h[s] = IF s = {} THEN 0 ELSE SatAdd(l[First(s)], h[s \ {First(s)}])
  <2>1. h[s] = SatAdd(0, Sum(l, s)) /\ h[s \ {First(s)}] = SatAdd(0, Sum(l, s \ {First(s)}))
    OBVIOUS
  <2>2. IsFiniteSet(s)
    BY <1>1, FS_Subset
  <2>3. CASE s = {}
    <3>1. Sum(l, s) = 0
      BY <2>3, SumEmpty
    <3>2. QED
      BY <1>1, <2>1, <2>3, <3>1 DEF SatAdd
  <2>4. CASE s # {}
    <3>1. PICK x : x = First(s)
      OBVIOUS
    <3>2. x \in s
      BY <2>4, <3>1 DEF First
    <3>3. PICK n, r : n = l[x] /\ r = Sum(l, s \ {x})
      OBVIOUS
    <3>4. n \in Nat /\ r \in Nat
      BY <1>1, <2>2, <3>2, <3>3, FS_Subset, SumType
    <3>5. Sum(l, s) = n + r
      BY <2>2, <2>4, <3>1, <3>3, SumUnfold
    <3>6. SatAdd(0, n + r) = SatAdd(n, SatAdd(0, r))
      BY <1>1, <3>4 DEF SatAdd
    <3> HIDE DEF h
    <3>7. QED
      BY <2>1, <2>4, <3>1, <3>3, <3>5, <3>6
  <2>5. QED
    BY <2>3, <2>4
<1>4. IsTotals(h)
  <2> DEFINE F(s) == IF s = {} THEN 0 ELSE SatAdd(l[First(s)], h[s \ {First(s)}])
  <2>1. \A s \in SUBSET S : h[s] = F(s)
    BY <1>3
  <2>2. h = [s \in SUBSET S |-> h[s]]
    OBVIOUS
  <2> HIDE DEF h
  <2>3. h = [s \in SUBSET S |-> F(s)]
    BY <2>1, <2>2
  <2>4. QED
    BY <2>3
<1>5. IsTotals(k)
  <2> HIDE DEF IsTotals, h
  <2>1. \E g : IsTotals(g)
    BY <1>4
  <2>2. QED
    BY <2>1
<1>6. \A s \in SUBSET S :
        k[s] = IF s = {} THEN 0 ELSE SatAdd(l[First(s)], k[s \ {First(s)}])
  <2> DEFINE F(s) == IF s = {} THEN 0 ELSE SatAdd(l[First(s)], k[s \ {First(s)}])
  <2>1. k = [s \in SUBSET S |-> F(s)]
    <3> HIDE DEF k
    <3>1. QED
      BY <1>5
  <2> HIDE DEF k, F
  <2>2. \A s \in SUBSET S : k[s] = F(s)
    BY <2>1
  <2>3. QED
    BY <2>2 DEF F
<1> HIDE DEF k, h
<1> DEFINE C == {s \in SUBSET S : k[s] = h[s]}
<1>7. {} \in C
  BY <1>3, <1>6
<1>8. ASSUME NEW s \in SUBSET S, s # {}, \A x \in s : s \ {x} \in C  PROVE s \in C
  <2>1. First(s) \in s
    BY <1>8 DEF First
  <2>2. k[s \ {First(s)}] = h[s \ {First(s)}]
    BY <1>8, <2>1
  <2>3. QED
    BY <1>3, <1>6, <1>8, <2>2
<1>9. \A s \in SUBSET S : s \in C
  <2> HIDE DEF C
  <2>1. QED
    BY <1>1, <1>7, <1>8, SetInduction
<1>10. k[S] = h[S]
  BY <1>9
<1>11. h[S] = SatAdd(0, Sum(l, S))
  BY DEF h
<1>12. QED
  BY <1>2, <1>10, <1>11

\* It lies within an i128 and is not zero: no list is empty, no milestone free.
LEMMA TotalInRange ==
  ASSUME NEW l \in MilestoneLists
  PROVE  Total(l) \in 1..MaxI128
<1>1. l \in Seq(1..MaxI128) /\ Len(l) \in Slot /\ MaxI128 \in Nat /\ MaxMilestones \in Nat
  BY EscrowConstants, RegistryConstants
<1>2. DOMAIN l = 1..Len(l) /\ Len(l) \in Nat /\ 1 \in DOMAIN l
  BY <1>1, LenProperties DEF Slot
<1>3. \A m \in DOMAIN l : l[m] \in 1..MaxI128
  BY <1>1, <1>2, ElementOfSeq
<1>4. PICK S : S = DOMAIN l
  OBVIOUS
<1>5. /\ IsFiniteSet(S) /\ IsFiniteSet(S \ {1}) /\ 1 \in S
      /\ \A m \in S : l[m] \in Nat
  <2>1. IsFiniteSet(S) /\ S \ {1} \subseteq S
    BY <1>2, <1>4, FS_Interval
  <2>2. IsFiniteSet(S \ {1})
    BY <2>1, FS_Subset
  <2>3. \A m \in S : l[m] \in Nat
    BY <1>1, <1>3, <1>4
  <2>4. QED
    BY <1>2, <1>4, <2>1, <2>2, <2>3
<1>6. PICK n, r : n = l[1] /\ r = Sum(l, S \ {1})
  OBVIOUS
<1>7. n \in 1..MaxI128 /\ r \in Nat
  BY <1>2, <1>3, <1>5, <1>6, SumType
<1>8. Sum(l, S) = n + r
  BY <1>5, <1>6, SumSplit
<1>9. SatAdd(0, n + r) \in 1..MaxI128
  BY <1>1, <1>7 DEF SatAdd
<1>10. QED
  BY <1>4, <1>8, <1>9, TotalIsSum

\* The milestones of a bounty are positions with a positive amount.
LEMMA MilestoneTypes ==
  ASSUME NEW b \in Bounty
  PROVE  /\ Milestones(b) \subseteq Slot
         /\ Milestones(b) # {}
         /\ \A m \in Milestones(b) : b.amounts[m] \in 1..MaxI128
<1>1. b.amounts \in MilestoneLists
  BY DEF Bounty
<1>2. b.amounts \in Seq(1..MaxI128) /\ Len(b.amounts) \in Slot
  BY <1>1, EscrowConstants
<1>3. DOMAIN b.amounts = 1..Len(b.amounts)
  BY <1>2
<1>4. MaxMilestones \in Nat /\ MaxI128 \in Nat
  BY RegistryConstants
<1>5. Milestones(b) = 1..Len(b.amounts)
  BY <1>3 DEF Milestones
<1>6. Milestones(b) \subseteq Slot /\ Milestones(b) # {}
  BY <1>2, <1>4, <1>5 DEF Slot
<1>7. \A m \in Milestones(b) : b.amounts[m] \in 1..MaxI128
  BY <1>2, <1>5, ElementOfSeq
<1>8. QED
  BY <1>6, <1>7

LEMMA SettleType ==
  ASSUME NEW b \in Bounty, NEW ms \in SUBSET Slot
  PROVE  Settle(b, ms) \in Bounty
<1>1. b.settled \cup ms \in SUBSET Slot
  BY DEF Bounty
<1>2. (Milestones(b) \subseteq b.settled \cup ms) \in BOOLEAN
  OBVIOUS
<1>3. QED
  BY <1>1, <1>2 DEF Settle, Bounty

LEMMA PayType ==
  ASSUME NEW b \in Bounty, NEW m \in Milestones(b)
  PROVE  Pay(b, m) \in Bounty
<1>1. {m} \in SUBSET Slot /\ b.amounts[m] \in 0..MaxI128
  BY MilestoneTypes, RegistryConstants
<1>2. Settle(b, {m}) \in Bounty
  BY <1>1, SettleType
<1>3. Settle(b, {m}).released_amount \in 0..MaxI128
  BY <1>2 DEF Bounty
<1>4. SatAdd(Settle(b, {m}).released_amount, b.amounts[m]) \in 0..MaxI128
  BY <1>1, <1>3, SatAddBounds
<1>5. QED
  BY <1>2, <1>4 DEF Pay, Bounty

\* A transfer that goes through leaves no negative balance.
LEMMA TransferType ==
  ASSUME EscrowTypeOK, NEW t \in Token, NEW from \in Account, NEW to \in Account,
         NEW n \in Nat, Transfer(t, from, to, n)
  PROVE  balance' \in [Token -> [Account -> Nat]]
<1>1. balance \in [Token -> [Account -> Nat]]
  BY DEF EscrowTypeOK
<1>2. balance[t][from] - n \in Nat
  BY <1>1 DEF Transfer
<1>3. [balance EXCEPT ![t][from] = @ - n] \in [Token -> [Account -> Nat]]
  BY <1>1, <1>2
<1>4. QED
  BY <1>3 DEF Transfer

\* The bounty stored for an issue, and a store with that bounty replaced.
LEMMA StoredBounty ==
  ASSUME EscrowTypeOK, NEW i \in DOMAIN bounty
  PROVE  i \in Issue /\ bounty[i] \in Bounty
BY DEF EscrowTypeOK

LEMMA ReplacedBountyType ==
  ASSUME EscrowTypeOK, NEW i \in DOMAIN bounty, NEW b \in Bounty
  PROVE  /\ DOMAIN [bounty EXCEPT ![i] = b] \subseteq Issue
         /\ [bounty EXCEPT ![i] = b] \in [DOMAIN [bounty EXCEPT ![i] = b] -> Bounty]
BY DEF EscrowTypeOK

LEMMA StoredDispute ==
  ASSUME EscrowTypeOK, NEW id \in DOMAIN dispute
  PROVE  /\ DOMAIN dispute = 1..Len(dispute)
         /\ id \in 1..Len(dispute)
         /\ dispute[id] \in Dispute
<1>1. dispute \in Seq(Dispute)
  BY DEF EscrowTypeOK
<1>2. DOMAIN dispute = 1..Len(dispute)
  BY <1>1, LenProperties
<1>3. QED
  BY <1>1, <1>2, ElementOfSeq

\* The accounts a bounty names and the token it is paid in.
LEMMA PartyTypes ==
  ASSUME NEW b \in Bounty
  PROVE  /\ b.funder \in Account
         /\ b.contributor # NoOne => b.contributor \in Address /\ b.contributor \in Account
         /\ b.token \in Token
         /\ ThisBounty \in Account
         /\ remaining_escrow(b) \in Int
<1>1. MaxI128 \in Nat
  BY RegistryConstants
<1>2. b.amount \in Int /\ b.released_amount \in Int
  BY <1>1 DEF Bounty
<1>3. QED
  BY <1>2 DEF Bounty, Account, remaining_escrow

-----------------------------------------------------------------------------
(* The entry points without a proposal.                                    *)

LEMMA EscrowInitType == EscrowInit => EscrowTypeOK
<1> SUFFICES ASSUME EscrowInit PROVE EscrowTypeOK
  OBVIOUS
<1>1. RegTypeOK
  BY RegInitType DEF EscrowInit
<1>2. balance \in [Token -> [Account -> Nat]]
  <2>1. Wallet \in Nat
    BY EscrowConstants, RegistryConstants
  <2>2. QED
    BY <2>1 DEF EscrowInit
<1>3. dispute \in Seq(Dispute)
  BY EmptySeq DEF EscrowInit
<1>4. QED
  BY <1>1, <1>2, <1>3 DEF EscrowInit, EscrowTypeOK

LEMMA InitContractType ==
  ASSUME EscrowTypeOK, NEW r \in BOOLEAN, InitContract(r)
  PROVE  EscrowTypeOK'
BY DEF EscrowTypeOK, RegTypeOK, InitContract

LEMMA CreateType ==
  ASSUME EscrowTypeOK, NEW f \in Funders, NEW t \in Token, NEW i \in Issue,
         NEW l \in MilestoneLists, create_bounty(f, t, i, l)
  PROVE  EscrowTypeOK'
<1> DEFINE b == [funder |-> f, contributor |-> NoOne, token |-> t,
                 amounts |-> l, amount |-> Total(l), settled |-> {},
                 released |-> FALSE, refunded |-> FALSE, released_amount |-> 0,
                 reviewers |-> {}, reviewer_quorum |-> 0]
<1>1. f \in Address /\ Total(l) \in 1..MaxI128 /\ MaxI128 \in Nat
  BY TotalInRange, EscrowConstants, RegistryConstants
<1>2. b \in Bounty
  BY <1>1 DEF Bounty
<1>3. bounty' = Put(bounty, i, b)
  BY DEF create_bounty
<1>4. DOMAIN bounty' \subseteq Issue /\ bounty' \in [DOMAIN bounty' -> Bounty]
  <2> HIDE DEF b
  <2>1. QED
    BY <1>2, <1>3, PutType DEF EscrowTypeOK
<1>5. balance' \in [Token -> [Account -> Nat]]
  <2>1. f \in Account /\ ThisBounty \in Account /\ Total(l) \in Nat
    BY <1>1 DEF Account
  <2>2. Transfer(t, f, ThisBounty, Total(l))
    BY DEF create_bounty
  <2>3. QED
    BY <2>1, <2>2, TransferType
<1>6. QED
  BY <1>4, <1>5 DEF create_bounty, EscrowTypeOK, RegTypeOK

LEMMA ClaimType ==
  ASSUME EscrowTypeOK, NEW i \in Issue, NEW w \in Workers, claim(i, w)
  PROVE  EscrowTypeOK'
<1>1. w \in Address
  BY EscrowConstants
<1>2. i \in DOMAIN bounty /\ bounty[i] \in Bounty
  BY StoredBounty DEF claim
<1>3. [bounty[i] EXCEPT !.contributor = w] \in Bounty
  BY <1>1, <1>2 DEF Bounty
<1>4. bounty' = [bounty EXCEPT ![i] = [bounty[i] EXCEPT !.contributor = w]]
  BY DEF claim
<1>5. DOMAIN bounty' \subseteq Issue /\ bounty' \in [DOMAIN bounty' -> Bounty]
  BY <1>2, <1>3, <1>4, ReplacedBountyType
<1>6. QED
  BY <1>5 DEF claim, EscrowTypeOK, RegTypeOK

\* Both reclaims refund an amount that is not negative.
LEMMA RefundRemainingType ==
  ASSUME EscrowTypeOK, NEW i \in DOMAIN bounty, remaining_escrow(bounty[i]) \in Nat,
         RefundRemaining(i)
  PROVE  EscrowTypeOK'
<1> DEFINE b == bounty[i]
           c == [b EXCEPT !.settled = Milestones(b), !.released = TRUE, !.refunded = TRUE]
<1>1. i \in Issue /\ b \in Bounty
  BY StoredBounty
<1>2. Milestones(b) \in SUBSET Slot
  BY <1>1, MilestoneTypes
<1>3. c \in Bounty
  BY <1>1, <1>2 DEF Bounty
<1>4. bounty' = [bounty EXCEPT ![i] = c]
  BY DEF RefundRemaining
<1>5. DOMAIN bounty' \subseteq Issue /\ bounty' \in [DOMAIN bounty' -> Bounty]
  <2> HIDE DEF c
  <2>1. QED
    BY <1>3, <1>4, ReplacedBountyType
<1>6. balance' \in [Token -> [Account -> Nat]]
  <2>1. Transfer(b.token, ThisBounty, b.funder, remaining_escrow(b))
    BY DEF RefundRemaining
  <2>2. QED
    BY <1>1, <2>1, PartyTypes, TransferType
<1>7. returned' \in [Issue -> Nat]
  <2>1. returned' = [returned EXCEPT ![i] = @ + remaining_escrow(b)]
    BY DEF RefundRemaining
  <2>2. returned \in [Issue -> Nat]
    BY DEF EscrowTypeOK
  <2>3. QED
    BY <1>1, <2>1, <2>2
<1>8. QED
  BY <1>5, <1>6, <1>7 DEF RefundRemaining, EscrowTypeOK, RegTypeOK

LEMMA ReclaimType ==
  ASSUME EscrowTypeOK, NEW i \in Issue, reclaim(i)
  PROVE  EscrowTypeOK'
<1>1. i \in DOMAIN bounty /\ bounty[i] \in Bounty /\ bounty[i].released_amount = 0
  BY StoredBounty DEF reclaim
<1>2. remaining_escrow(bounty[i]) \in Nat
  <2>1. bounty[i].amount \in 1..MaxI128 /\ MaxI128 \in Nat
    BY <1>1, RegistryConstants DEF Bounty
  <2>2. QED
    BY <1>1, <2>1 DEF remaining_escrow
<1>3. QED
  BY <1>1, <1>2, RefundRemainingType DEF reclaim

LEMMA ReviewType ==
  ASSUME EscrowTypeOK, NEW v \in Address, NEW i \in Issue, NEW m \in Slot,
         NEW d \in Decision, submit_review(v, i, m, d)
  PROVE  EscrowTypeOK'
<1>1. review' = Put(review, <<i, m, v>>, d)
  BY DEF submit_review
<1>2. DOMAIN review' \subseteq Issue \X Slot \X Address
      /\ review' \in [DOMAIN review' -> Decision]
  <2>1. <<i, m, v>> \in Issue \X Slot \X Address
    OBVIOUS
  <2>2. QED
    BY <1>1, <2>1, PutType DEF EscrowTypeOK
<1>3. QED
  BY <1>2 DEF submit_review, EscrowTypeOK, RegTypeOK

LEMMA OpenDisputeType ==
  ASSUME EscrowTypeOK, NEW a \in Address, NEW i \in Issue, NEW m \in Slot,
         open_dispute(a, i, m)
  PROVE  EscrowTypeOK'
<1> DEFINE d == [issue |-> i, milestone |-> m, opener |-> a,
                 votes_pay_contributor |-> 0, votes_refund_funder |-> 0,
                 resolved |-> FALSE, pay_contributor |-> FALSE]
<1>1. d \in Dispute
  BY DEF Dispute
<1>2. dispute' = Append(dispute, d)
  BY DEF open_dispute
<1>3. dispute' \in Seq(Dispute)
  <2> HIDE DEF d
  <2>1. QED
    BY <1>1, <1>2, AppendProperties DEF EscrowTypeOK
<1>4. QED
  BY <1>3 DEF open_dispute, EscrowTypeOK, RegTypeOK

LEMMA CountedVoteType ==
  ASSUME NEW d \in Dispute
  PROVE  /\ [d EXCEPT !.votes_pay_contributor = @ + 1] \in Dispute
         /\ [d EXCEPT !.votes_refund_funder = @ + 1] \in Dispute
<1>1. \A n \in Nat : /\ [d EXCEPT !.votes_pay_contributor = n] \in Dispute
                      /\ [d EXCEPT !.votes_refund_funder = n] \in Dispute
  BY DEF Dispute
<1>2. d.votes_pay_contributor + 1 \in Nat /\ d.votes_refund_funder + 1 \in Nat
  BY DEF Dispute
<1>3. QED
  BY <1>1, <1>2

LEMMA VoteType ==
  ASSUME EscrowTypeOK, NEW v \in Address, NEW id \in 1..MaxDisputes, NEW pay \in BOOLEAN,
         vote_on_dispute(v, id, pay)
  PROVE  EscrowTypeOK'
<1>1. id \in DOMAIN dispute /\ id \in 1..Len(dispute) /\ dispute[id] \in Dispute
  BY StoredDispute DEF vote_on_dispute
<1>2. DOMAIN ballot' \subseteq Nat \X Address /\ ballot' \in [DOMAIN ballot' -> BOOLEAN]
  <2>1. <<id, v>> \in Nat \X Address
    BY EscrowConstants
  <2>2. ballot' = Put(ballot, <<id, v>>, pay)
    BY DEF vote_on_dispute
  <2>3. QED
    BY <2>1, <2>2, PutType DEF EscrowTypeOK
<1>3. dispute' \in Seq(Dispute)
  <2> DEFINE forPay == [dispute[id] EXCEPT !.votes_pay_contributor = @ + 1]
             forRefund == [dispute[id] EXCEPT !.votes_refund_funder = @ + 1]
  <2>1. forPay \in Dispute /\ forRefund \in Dispute
    BY <1>1, CountedVoteType
  <2>2. dispute' \in {[dispute EXCEPT ![id] = forPay], [dispute EXCEPT ![id] = forRefund]}
    BY DEF vote_on_dispute
  <2> HIDE DEF forPay, forRefund
  <2>3. dispute \in Seq(Dispute)
    BY DEF EscrowTypeOK
  <2>4. [dispute EXCEPT ![id] = forPay] \in Seq(Dispute)
    BY <1>1, <2>1, <2>3, ExceptSeq
  <2>5. [dispute EXCEPT ![id] = forRefund] \in Seq(Dispute)
    BY <1>1, <2>1, <2>3, ExceptSeq
  <2>6. QED
    BY <2>2, <2>4, <2>5
<1>4. QED
  BY <1>2, <1>3 DEF vote_on_dispute, EscrowTypeOK, RegTypeOK

-----------------------------------------------------------------------------
(* The actions of proposals.                                               *)

LEMMA PayoutReputationType ==
  ASSUME EscrowTypeOK, NEW i \in DOMAIN bounty, NEW m \in Milestones(bounty[i]),
         bounty[i].contributor # NoOne
  PROVE  PayoutReputation(reg, i, m) \in RegistryState
<1> DEFINE c == bounty[i].contributor
           vs == Reviewed(i, m, "Approve")
           r == Recorded(reg, c, i, m, bounty[i].amounts[m])
<1>1. reg \in RegistryState
  BY DEF EscrowTypeOK, RegTypeOK
<1>2. i \in Issue /\ bounty[i] \in Bounty
  BY StoredBounty
<1>3. c \in Address
  BY <1>2, PartyTypes
<1>4. m \in Slot /\ bounty[i].amounts[m] \in 0..MaxI128
  BY <1>2, MilestoneTypes, RegistryConstants
<1>5. r \in RegistryState
  BY <1>1, <1>2, <1>3, <1>4, RecordedType
<1>6. vs \in SUBSET Address
  BY <1>2 DEF Reviewed, Bounty
<1> HIDE DEF r, vs
<1>7. ReviewsRecorded(r, vs, i, m) \in RegistryState
  BY <1>2, <1>4, <1>5, <1>6, ReviewsRecordedType
<1>8. QED
  BY <1>1, <1>7 DEF PayoutReputation, r, vs

LEMMA DisputeReputationType ==
  ASSUME NEW r \in RegistryState, NEW d \in Dispute, NEW pay \in BOOLEAN,
         d.issue \in DOMAIN bounty, bounty[d.issue] \in Bounty
  PROVE  DisputeReputation(r, d, pay) \in RegistryState
<1>1. d.issue \in Issue /\ d.milestone \in Slot
  BY DEF Dispute
<1>2. Loser(d, pay) # NoOne => Loser(d, pay) \in Address
  BY DEF Loser, Bounty
<1>3. QED
  BY <1>1, <1>2, DisputeRecordedType DEF DisputeReputation

LEMMA ReleaseType ==
  ASSUME EscrowTypeOK, NEW i \in Issue, NEW m \in Slot, apply_release(i, m)
  PROVE  EscrowTypeOK'
<1> DEFINE b == bounty[i]
<1>1. /\ i \in DOMAIN bounty /\ b \in Bounty
      /\ b.contributor # NoOne
      /\ m \in Milestones(b)
  BY StoredBounty DEF apply_release
<1>2. DOMAIN bounty' \subseteq Issue /\ bounty' \in [DOMAIN bounty' -> Bounty]
  <2>1. bounty' = [bounty EXCEPT ![i] = Pay(b, m)]
    BY DEF apply_release
  <2>2. Pay(b, m) \in Bounty
    BY <1>1, PayType
  <2>3. QED
    BY <1>1, <2>1, <2>2, ReplacedBountyType
<1>3. balance' \in [Token -> [Account -> Nat]]
  <2>1. Transfer(b.token, ThisBounty, b.contributor, b.amounts[m])
    BY DEF apply_release
  <2>2. b.amounts[m] \in Nat
    BY <1>1, MilestoneTypes, RegistryConstants
  <2>3. QED
    BY <1>1, <2>1, <2>2, PartyTypes, TransferType
<1>4. RegTypeOK'
  <2>1. reg' = PayoutReputation(reg, i, m)
    BY DEF apply_release
  <2>2. QED
    BY <1>1, <2>1, PayoutReputationType DEF RegTypeOK
<1>5. paid' \subseteq Issue \X Slot
  <2>1. paid' = paid \cup {<<i, m>>}
    BY DEF apply_release
  <2>2. paid \subseteq Issue \X Slot
    BY DEF EscrowTypeOK
  <2>3. QED
    BY <2>1, <2>2
<1>6. QED
  BY <1>2, <1>3, <1>4, <1>5 DEF apply_release, EscrowTypeOK

LEMMA ApplyReclaimType ==
  ASSUME EscrowTypeOK, NEW i \in Issue, apply_reclaim(i)
  PROVE  EscrowTypeOK'
<1>1. i \in DOMAIN bounty /\ remaining_escrow(bounty[i]) > 0
  BY DEF apply_reclaim
<1>2. remaining_escrow(bounty[i]) \in Nat
  BY <1>1, StoredBounty, PartyTypes
<1>3. QED
  BY <1>1, <1>2, RefundRemainingType DEF apply_reclaim

LEMMA SetReviewersType ==
  ASSUME EscrowTypeOK, NEW i \in Issue, NEW rs \in Seq(Address), NEW q \in Nat,
         apply_set_reviewers(i, rs, q)
  PROVE  EscrowTypeOK'
<1> DEFINE b == [bounty[i] EXCEPT !.reviewers = Members(rs), !.reviewer_quorum = q]
<1>1. i \in DOMAIN bounty /\ bounty[i] \in Bounty
  BY StoredBounty DEF apply_set_reviewers
<1>2. Members(rs) \in SUBSET Address
  BY LenProperties, ElementOfSeq DEF Members
<1>3. b \in Bounty
  BY <1>1, <1>2 DEF Bounty
<1>4. bounty' = [bounty EXCEPT ![i] = b]
  BY <1>1 DEF apply_set_reviewers
<1>5. DOMAIN bounty' \subseteq Issue /\ bounty' \in [DOMAIN bounty' -> Bounty]
  <2> HIDE DEF b
  <2>1. QED
    BY <1>1, <1>3, <1>4, ReplacedBountyType
<1>6. QED
  BY <1>5 DEF apply_set_reviewers, EscrowTypeOK, RegTypeOK

\* What both resolutions need of the dispute and its bounty.
LEMMA ResolvableTypes ==
  ASSUME EscrowTypeOK, NEW id, NEW pay \in BOOLEAN, Resolvable(id, pay)
  PROVE  /\ id \in 1..Len(dispute) /\ dispute[id] \in Dispute
         /\ dispute[id].issue \in DOMAIN bounty /\ bounty[dispute[id].issue] \in Bounty
         /\ dispute[id].milestone \in Milestones(bounty[dispute[id].issue])
         /\ dispute[id].issue \in Issue /\ dispute[id].milestone \in Slot
         /\ bounty[dispute[id].issue].amounts[dispute[id].milestone] \in Nat
<1>1. id \in DOMAIN dispute
  BY DEF Resolvable
<1>2. id \in 1..Len(dispute) /\ dispute[id] \in Dispute
  BY <1>1, StoredDispute
<1>3. /\ dispute[id].issue \in DOMAIN bounty
      /\ dispute[id].milestone \in Milestones(bounty[dispute[id].issue])
  BY DEF Resolvable
<1>4. bounty[dispute[id].issue] \in Bounty
  BY <1>3, StoredBounty
<1>5. dispute[id].issue \in Issue /\ dispute[id].milestone \in Slot
  BY <1>2 DEF Dispute
<1>6. bounty[dispute[id].issue].amounts[dispute[id].milestone] \in Nat
  BY <1>3, <1>4, MilestoneTypes, RegistryConstants
<1>7. QED
  BY <1>2, <1>3, <1>4, <1>5, <1>6

LEMMA ResolutionRecordedType ==
  ASSUME EscrowTypeOK, NEW id \in 1..Len(dispute), NEW pay \in BOOLEAN,
         dispute[id] \in Dispute, ResolutionRecorded(id, pay)
  PROVE  dispute' \in Seq(Dispute)
<1> DEFINE d == [dispute[id] EXCEPT !.resolved = TRUE, !.pay_contributor = pay]
<1>1. d \in Dispute
  BY DEF Dispute
<1>2. dispute \in Seq(Dispute)
  BY DEF EscrowTypeOK
<1>3. id \in DOMAIN dispute
  BY <1>2, LenProperties
<1>4. dispute' = [dispute EXCEPT ![id] = d]
  BY <1>3 DEF ResolutionRecorded
<1> HIDE DEF d
<1>5. QED
  BY <1>1, <1>2, <1>4, ExceptSeq

LEMMA PayingType ==
  ASSUME EscrowTypeOK, NEW id, ResolveByPaying(id)
  PROVE  EscrowTypeOK'
<1> DEFINE d == dispute[id]
           i == d.issue
           m == d.milestone
           b == bounty[i]
<1>1. Resolvable(id, TRUE) /\ b.contributor # NoOne
  BY DEF ResolveByPaying, Resolvable
<1>2. /\ id \in 1..Len(dispute) /\ d \in Dispute
      /\ i \in DOMAIN bounty /\ b \in Bounty /\ m \in Milestones(b)
      /\ i \in Issue /\ m \in Slot /\ b.amounts[m] \in Nat
  BY <1>1, ResolvableTypes
<1>3. DOMAIN bounty' \subseteq Issue /\ bounty' \in [DOMAIN bounty' -> Bounty]
  <2>1. bounty' = [bounty EXCEPT ![i] = Pay(b, m)]
    BY DEF ResolveByPaying
  <2>2. QED
    BY <1>2, <2>1, PayType, ReplacedBountyType
<1>4. dispute' \in Seq(Dispute)
  BY <1>2, ResolutionRecordedType DEF ResolveByPaying
<1>5. balance' \in [Token -> [Account -> Nat]]
  <2>1. Transfer(b.token, ThisBounty, b.contributor, b.amounts[m])
    BY DEF ResolveByPaying
  <2>2. QED
    BY <1>1, <1>2, <2>1, PartyTypes, TransferType
<1>6. RegTypeOK'
  <2>1. reg' = DisputeReputation(PayoutReputation(reg, i, m), d, TRUE)
    BY DEF ResolveByPaying
  <2>2. PayoutReputation(reg, i, m) \in RegistryState
    BY <1>1, <1>2, PayoutReputationType
  <2>3. QED
    BY <1>2, <2>1, <2>2, DisputeReputationType DEF RegTypeOK
<1>7. paid' \subseteq Issue \X Slot
  <2>1. paid' = paid \cup {<<i, m>>}
    BY DEF ResolveByPaying
  <2>2. paid \subseteq Issue \X Slot
    BY DEF EscrowTypeOK
  <2>3. QED
    BY <1>2, <2>1, <2>2
<1>8. QED
  BY <1>3, <1>4, <1>5, <1>6, <1>7 DEF ResolveByPaying, EscrowTypeOK

LEMMA RefundingType ==
  ASSUME EscrowTypeOK, NEW id, ResolveByRefunding(id)
  PROVE  EscrowTypeOK'
<1> DEFINE d == dispute[id]
           i == d.issue
           m == d.milestone
           b == bounty[i]
<1>1. Resolvable(id, FALSE)
  BY DEF ResolveByRefunding
<1>2. /\ id \in 1..Len(dispute) /\ d \in Dispute
      /\ i \in DOMAIN bounty /\ b \in Bounty /\ m \in Milestones(b)
      /\ i \in Issue /\ m \in Slot /\ b.amounts[m] \in Nat
  BY <1>1, ResolvableTypes
<1>3. DOMAIN bounty' \subseteq Issue /\ bounty' \in [DOMAIN bounty' -> Bounty]
  <2>1. bounty' = [bounty EXCEPT ![i] = Settle(b, {m})]
    BY DEF ResolveByRefunding
  <2>2. QED
    BY <1>2, <2>1, SettleType, ReplacedBountyType
<1>4. dispute' \in Seq(Dispute)
  BY <1>2, ResolutionRecordedType DEF ResolveByRefunding
<1>5. balance' \in [Token -> [Account -> Nat]]
  <2>1. Transfer(b.token, ThisBounty, b.funder, b.amounts[m])
    BY DEF ResolveByRefunding
  <2>2. QED
    BY <1>1, <1>2, <2>1, PartyTypes, TransferType
<1>6. RegTypeOK'
  <2>1. reg' = DisputeReputation(reg, d, FALSE)
    BY DEF ResolveByRefunding
  <2>2. reg \in RegistryState
    BY DEF EscrowTypeOK, RegTypeOK
  <2>3. QED
    BY <1>2, <2>1, <2>2, DisputeReputationType DEF RegTypeOK
<1>7. returned' \in [Issue -> Nat]
  <2>1. returned' = [returned EXCEPT ![i] = @ + b.amounts[m]]
    BY DEF ResolveByRefunding
  <2>2. returned \in [Issue -> Nat]
    BY DEF EscrowTypeOK
  <2>3. QED
    BY <1>2, <2>1, <2>2
<1>8. QED
  BY <1>3, <1>4, <1>5, <1>6, <1>7 DEF ResolveByRefunding, EscrowTypeOK

-----------------------------------------------------------------------------
(* Steps are split the same way in every proof: by action, the proposed    *)
(* ones by the kind of the proposal.                                       *)

\* An executed action is one of the five below, with arguments of their types.
LEMMA ExecutedActions ==
  ASSUME NEW a \in Proposable, execute_action(a)
  PROVE  \/ \E i \in Issue, m \in Slot : apply_release(i, m)
         \/ \E i \in Issue : apply_reclaim(i)
         \/ \E i \in Issue, rs \in Seq(Address), q \in Nat : apply_set_reviewers(i, rs, q)
         \/ \E id : ResolveByPaying(id)
         \/ \E id : ResolveByRefunding(id)
<1>1. a \in EscrowAction \cup SignerAction
  BY EscrowConstants
<1>2. CASE a.kind = "Release" /\ apply_release(a.issue, a.milestone)
  <2>1. a.issue \in Issue /\ a.milestone \in Slot
    BY <1>1, <1>2 DEF EscrowAction, SignerAction
  <2>2. QED
    BY <1>2, <2>1
<1>3. CASE a.kind = "Reclaim" /\ apply_reclaim(a.issue)
  <2>1. a.issue \in Issue
    BY <1>1, <1>3 DEF EscrowAction, SignerAction
  <2>2. QED
    BY <1>3, <2>1
<1>4. CASE a.kind = "SetReviewers" /\ apply_set_reviewers(a.issue, a.reviewers, a.quorum)
  <2>1. a.issue \in Issue /\ a.reviewers \in Seq(Address) /\ a.quorum \in Nat
    BY <1>1, <1>4 DEF EscrowAction, SignerAction
  <2>2. QED
    BY <1>4, <2>1
<1>5. CASE ResolveByPaying(a.id) \/ ResolveByRefunding(a.id)
  BY <1>5
<1>6. QED
  BY <1>2, <1>3, <1>4, <1>5 DEF execute_action

LEMMA TypeStep ==
  ASSUME EscrowTypeOK, [EscrowNext]_escrowVars
  PROVE  EscrowTypeOK'
<1>1. ASSUME NEW r \in RegistryChoices, InitContract(r)  PROVE EscrowTypeOK'
  BY <1>1, InitContractType, EscrowConstants
<1>2. CASE UserStep
  BY <1>2, CreateType, ClaimType, ReclaimType, ReviewType, OpenDisputeType, VoteType
  DEF UserStep
<1>3. ASSUME NEW a \in Proposable, execute_action(a)  PROVE EscrowTypeOK'
  BY <1>3, ExecutedActions, ReleaseType, ApplyReclaimType, SetReviewersType,
     PayingType, RefundingType
<1>4. CASE RegistryStep
  <2>1. RegTypeOK
    BY DEF EscrowTypeOK
  <2>2. RegTypeOK'
    BY <1>4, <2>1, AdministerType, WriteType DEF RegistryStep
  <2>3. QED
    BY <1>4, <2>2 DEF RegistryStep, EscrowTypeOK
<1>5. CASE UNCHANGED escrowVars
  BY <1>5 DEF escrowVars, EscrowTypeOK, RegTypeOK
<1>6. QED
  BY <1>1, <1>2, <1>3, <1>4, <1>5 DEF EscrowNext

\* Storage, balances and registry keep their types in every run of the contract;
\* in particular no balance and no refund is ever negative.
THEOREM EscrowTypeCorrect == EscrowSpec => []EscrowTypeOK
<1>1. EscrowTypeOK /\ [EscrowNext]_escrowVars => EscrowTypeOK'
  BY TypeStep
<1>2. QED
  BY EscrowInitType, <1>1, PTL DEF EscrowSpec

-----------------------------------------------------------------------------
(* The settlement invariant.  OpenDisputeHoldsMilestone is inductive only  *)
(* together with the other three: that a resolution frees no other open    *)
(* dispute needs OneOpenDispute, and that a bounty with an open dispute is *)
(* not closed needs ReleasedMeansAllSettled.                               *)

\* A step that opens no dispute and settles only milestones, of one bounty,
\* that no dispute still holds.
LEMMA SettlingKeepsInv ==
  ASSUME EscrowTypeOK, SettlementInv, NEW i \in DOMAIN bounty,
         NEW ms \in SUBSET Milestones(bounty[i]), NEW c,
         bounty' = [bounty EXCEPT ![i] = c],
         c.amounts = bounty[i].amounts,
         c.settled = bounty[i].settled \cup ms,
         c.released <=> Milestones(c) \subseteq c.settled,
         DOMAIN dispute' = DOMAIN dispute,
         \A id \in DOMAIN dispute :
           /\ dispute'[id].issue = dispute[id].issue
           /\ dispute'[id].milestone = dispute[id].milestone
           /\ ~dispute'[id].resolved =>
                /\ ~dispute[id].resolved
                /\ dispute[id].issue = i => dispute[id].milestone \notin ms,
         \A k \in paid' : k \in paid \/ (k[1] = i /\ k[2] \in ms)
  PROVE  SettlementInv'
<1>1. /\ DOMAIN bounty' = DOMAIN bounty
      /\ bounty'[i] = c
      /\ \A j \in DOMAIN bounty : j # i => bounty'[j] = bounty[j]
      /\ Milestones(c) = Milestones(bounty[i])
  BY DEF EscrowTypeOK, Milestones
<1>2. ReleasedMeansAllSettled'
  <2>1. ASSUME NEW j \in DOMAIN bounty'
        PROVE  /\ bounty'[j].settled \subseteq Milestones(bounty'[j])
               /\ bounty'[j].released <=> (bounty'[j].settled = Milestones(bounty'[j]))
    <3>1. CASE j = i
      BY <1>1, <3>1 DEF SettlementInv, ReleasedMeansAllSettled
    <3>2. CASE j # i
      BY <1>1, <3>2 DEF SettlementInv, ReleasedMeansAllSettled
    <3>3. QED
      BY <3>1, <3>2
  <2>2. QED
    BY <2>1 DEF ReleasedMeansAllSettled, Milestones
<1>3. OpenDisputeHoldsMilestone'
  <2>1. ASSUME NEW id \in DOMAIN dispute', ~dispute'[id].resolved
        PROVE  /\ dispute'[id].issue \in DOMAIN bounty'
               /\ ~bounty'[dispute'[id].issue].released
               /\ dispute'[id].milestone \in Milestones(bounty'[dispute'[id].issue])
               /\ dispute'[id].milestone \notin bounty'[dispute'[id].issue].settled
    <3> DEFINE d == dispute[id]
    <3>1. /\ id \in DOMAIN dispute
          /\ dispute'[id].issue = d.issue /\ dispute'[id].milestone = d.milestone
          /\ ~d.resolved
          /\ d.issue = i => d.milestone \notin ms
      BY <2>1
    <3>2. /\ d.issue \in DOMAIN bounty
          /\ ~bounty[d.issue].released
          /\ d.milestone \in Milestones(bounty[d.issue])
          /\ d.milestone \notin bounty[d.issue].settled
      BY <3>1 DEF SettlementInv, OpenDisputeHoldsMilestone
    <3>3. CASE d.issue = i
      BY <1>1, <3>1, <3>2, <3>3
    <3>4. CASE d.issue # i
      BY <1>1, <3>1, <3>2, <3>4
    <3>5. QED
      BY <3>3, <3>4
  <2>2. QED
    BY <2>1 DEF OpenDisputeHoldsMilestone, Milestones
<1>4. OneOpenDispute'
  <2>1. ASSUME NEW j \in Issue, NEW m \in Slot
        PROVE  OpenDisputes(j, m)' \subseteq OpenDisputes(j, m)
    BY DEF OpenDisputes
  <2>2. QED
    BY <2>1 DEF SettlementInv, OneOpenDispute
<1>5. PaidAreSettled'
  BY <1>1 DEF SettlementInv, PaidAreSettled
<1>6. QED
  BY <1>2, <1>3, <1>4, <1>5 DEF SettlementInv

LEMMA InitSettlement == EscrowInit => SettlementInv
BY DEF EscrowInit, SettlementInv, OpenDisputeHoldsMilestone, OneOpenDispute, OpenDisputes,
       ReleasedMeansAllSettled, PaidAreSettled

\* Nothing that the invariant reads is written.
LEMMA UntouchedSettlement ==
  ASSUME SettlementInv, UNCHANGED <<bounty, dispute, paid>>
  PROVE  SettlementInv'
BY DEF SettlementInv, OpenDisputeHoldsMilestone, OneOpenDispute, OpenDisputes,
       ReleasedMeansAllSettled, PaidAreSettled, Milestones

LEMMA CreateSettlement ==
  ASSUME EscrowTypeOK, SettlementInv, NEW f \in Funders, NEW t \in Token, NEW i \in Issue,
         NEW l \in MilestoneLists, create_bounty(f, t, i, l)
  PROVE  SettlementInv'
<1>1. /\ i \notin DOMAIN bounty
      /\ UNCHANGED <<dispute, paid>>
      /\ DOMAIN bounty' = DOMAIN bounty \cup {i}
      /\ \A j \in DOMAIN bounty : bounty'[j] = bounty[j]
      /\ bounty'[i].settled = {} /\ bounty'[i].released = FALSE /\ bounty'[i].amounts = l
  BY DEF create_bounty, Put
<1>2. DOMAIN l # {}
  <2>1. l \in Seq(1..MaxI128) /\ Len(l) \in Slot
    BY EscrowConstants
  <2>2. DOMAIN l = 1..Len(l)
    BY <2>1, LenProperties
  <2>3. QED
    BY <2>1, <2>2, RegistryConstants DEF Slot
<1>3. ReleasedMeansAllSettled'
  BY <1>1, <1>2 DEF SettlementInv, ReleasedMeansAllSettled, Milestones
<1>4. OpenDisputeHoldsMilestone'
  BY <1>1 DEF SettlementInv, OpenDisputeHoldsMilestone, Milestones
<1>5. OneOpenDispute'
  BY <1>1 DEF SettlementInv, OneOpenDispute, OpenDisputes
<1>6. PaidAreSettled'
  BY <1>1 DEF SettlementInv, PaidAreSettled
<1>7. QED
  BY <1>3, <1>4, <1>5, <1>6 DEF SettlementInv

\* A new contributor or new reviewers settle nothing.
LEMMA TermsSettlement ==
  ASSUME EscrowTypeOK, SettlementInv, NEW i \in DOMAIN bounty, NEW c,
         bounty' = [bounty EXCEPT ![i] = c],
         c.amounts = bounty[i].amounts, c.settled = bounty[i].settled,
         c.released = bounty[i].released,
         UNCHANGED <<dispute, paid>>
  PROVE  SettlementInv'
<1>1. /\ bounty[i].settled \subseteq Milestones(bounty[i])
      /\ bounty[i].released <=> (bounty[i].settled = Milestones(bounty[i]))
  BY DEF SettlementInv, ReleasedMeansAllSettled
<1>2. c.released <=> Milestones(c) \subseteq c.settled
  BY <1>1 DEF Milestones
<1>3. {} \in SUBSET Milestones(bounty[i]) /\ c.settled = bounty[i].settled \cup {}
  OBVIOUS
<1>4. QED
  BY <1>2, <1>3, SettlingKeepsInv

LEMMA OpenDisputeSettlement ==
  ASSUME EscrowTypeOK, SettlementInv, NEW a \in Address, NEW i \in Issue, NEW m \in Slot,
         open_dispute(a, i, m)
  PROVE  SettlementInv'
<1> DEFINE n == Len(dispute) + 1
<1>1. /\ i \in DOMAIN bounty /\ ~bounty[i].released
      /\ m \in Milestones(bounty[i]) \ bounty[i].settled
      /\ OpenDisputes(i, m) = {}
      /\ UNCHANGED <<bounty, paid>>
  BY DEF open_dispute, Disputed
<1>2. /\ DOMAIN dispute = 1..Len(dispute) /\ Len(dispute) \in Nat
      /\ DOMAIN dispute' = 1..n
      /\ \A id \in DOMAIN dispute : dispute'[id] = dispute[id]
      /\ dispute'[n].issue = i /\ dispute'[n].milestone = m /\ ~dispute'[n].resolved
  <2> DEFINE d == [issue |-> i, milestone |-> m, opener |-> a,
                   votes_pay_contributor |-> 0, votes_refund_funder |-> 0,
                   resolved |-> FALSE, pay_contributor |-> FALSE]
  <2>1. d \in Dispute /\ d.issue = i /\ d.milestone = m /\ ~d.resolved
    BY DEF Dispute
  <2>2. dispute' = Append(dispute, d) /\ dispute \in Seq(Dispute)
    BY DEF open_dispute, EscrowTypeOK
  <2> HIDE DEF d
  <2>3. QED
    BY <2>1, <2>2, AppendProperties, LenProperties
<1>3. \A id \in DOMAIN dispute' : id \in DOMAIN dispute \/ id = n
  BY <1>2
<1>4. OpenDisputeHoldsMilestone'
  BY <1>1, <1>2, <1>3 DEF SettlementInv, OpenDisputeHoldsMilestone, Milestones
<1>5. OneOpenDispute'
  <2>1. ASSUME NEW j \in Issue, NEW k \in Slot,
               NEW x \in OpenDisputes(j, k)', NEW y \in OpenDisputes(j, k)'
        PROVE  x = y
    <3>1. CASE j = i /\ k = m
      BY <1>1, <1>2, <1>3, <3>1 DEF OpenDisputes
    <3>2. CASE ~(j = i /\ k = m)
      <4>1. x \in OpenDisputes(j, k) /\ y \in OpenDisputes(j, k)
        BY <1>2, <1>3, <3>2 DEF OpenDisputes
      <4>2. QED
        BY <4>1 DEF SettlementInv, OneOpenDispute
    <3>3. QED
      BY <3>1, <3>2
  <2>2. QED
    BY <2>1 DEF OneOpenDispute
<1>6. QED
  BY <1>1, <1>4, <1>5 DEF SettlementInv, ReleasedMeansAllSettled, PaidAreSettled, Milestones

LEMMA VoteSettlement ==
  ASSUME EscrowTypeOK, SettlementInv, NEW v \in Address, NEW id \in 1..MaxDisputes,
         NEW pay \in BOOLEAN, vote_on_dispute(v, id, pay)
  PROVE  SettlementInv'
<1>1. id \in DOMAIN dispute /\ UNCHANGED <<bounty, paid>>
  BY DEF vote_on_dispute
<1>2. /\ DOMAIN dispute' = DOMAIN dispute
      /\ \A k \in DOMAIN dispute :
           /\ dispute'[k].issue = dispute[k].issue
           /\ dispute'[k].milestone = dispute[k].milestone
           /\ dispute'[k].resolved = dispute[k].resolved
  <2>1. dispute[id] \in Dispute
    BY <1>1, StoredDispute
  <2>2. QED
    BY <1>1, <2>1 DEF vote_on_dispute, Dispute
<1>3. OpenDisputeHoldsMilestone'
  BY <1>1, <1>2 DEF SettlementInv, OpenDisputeHoldsMilestone, Milestones
<1>4. OneOpenDispute'
  BY <1>2 DEF SettlementInv, OneOpenDispute, OpenDisputes
<1>5. QED
  BY <1>1, <1>3, <1>4 DEF SettlementInv, ReleasedMeansAllSettled, PaidAreSettled, Milestones

\* What Settle and Pay do to the parts of a bounty that the invariant reads.
LEMMA SettledParts ==
  ASSUME NEW b \in Bounty, NEW m \in Milestones(b)
  PROVE  /\ Settle(b, {m}).amounts = b.amounts
         /\ Settle(b, {m}).settled = b.settled \cup {m}
         /\ Settle(b, {m}).released <=> Milestones(b) \subseteq b.settled \cup {m}
         /\ Pay(b, m).amounts = b.amounts
         /\ Pay(b, m).settled = b.settled \cup {m}
         /\ Pay(b, m).released <=> Milestones(b) \subseteq b.settled \cup {m}
<1>1. /\ Settle(b, {m}).amounts = b.amounts
      /\ Settle(b, {m}).settled = b.settled \cup {m}
      /\ Settle(b, {m}).released = (Milestones(b) \subseteq b.settled \cup {m})
  BY DEF Settle, Bounty
<1>2. {m} \in SUBSET Slot
  BY MilestoneTypes
<1>3. Settle(b, {m}) \in Bounty
  BY <1>2, SettleType
<1>4. /\ Pay(b, m).amounts = Settle(b, {m}).amounts
      /\ Pay(b, m).settled = Settle(b, {m}).settled
      /\ Pay(b, m).released = Settle(b, {m}).released
  BY <1>3 DEF Pay, Bounty
<1>5. QED
  BY <1>1, <1>4

LEMMA RefundSettlement ==
  ASSUME EscrowTypeOK, SettlementInv, NEW i \in DOMAIN bounty, ~HasOpenDispute(i),
         RefundRemaining(i)
  PROVE  SettlementInv'
<1> DEFINE b == bounty[i]
           c == [b EXCEPT !.settled = Milestones(b), !.released = TRUE, !.refunded = TRUE]
           ms == Milestones(b)
<1>1. b \in Bounty
  BY StoredBounty
<1>2. /\ c.amounts = b.amounts /\ c.settled = Milestones(b) /\ c.released
      /\ Milestones(c) = Milestones(b)
  BY <1>1 DEF Bounty, Milestones
<1>3. c.settled = b.settled \cup ms
  BY <1>2 DEF SettlementInv, ReleasedMeansAllSettled
<1>4. \A id \in DOMAIN dispute : ~dispute[id].resolved => dispute[id].issue # i
  <2>1. SUFFICES ASSUME NEW id \in DOMAIN dispute, ~dispute[id].resolved,
                        dispute[id].issue = i
                 PROVE  FALSE
    OBVIOUS
  <2>2. dispute[id].milestone \in Slot
    BY StoredDispute DEF Dispute
  <2>3. id \in OpenDisputes(i, dispute[id].milestone)
    BY <2>1 DEF OpenDisputes
  <2>4. QED
    BY <2>2, <2>3 DEF HasOpenDispute, Disputed
<1>5. bounty' = [bounty EXCEPT ![i] = c] /\ UNCHANGED <<dispute, paid>>
  BY DEF RefundRemaining
<1> HIDE DEF c
<1>6. QED
  BY <1>2, <1>3, <1>4, <1>5, SettlingKeepsInv

LEMMA ReleaseSettlement ==
  ASSUME EscrowTypeOK, SettlementInv, NEW i \in Issue, NEW m \in Slot, apply_release(i, m)
  PROVE  SettlementInv'
<1> DEFINE b == bounty[i]
<1>1. /\ i \in DOMAIN bounty /\ b \in Bounty /\ m \in Milestones(b)
      /\ OpenDisputes(i, m) = {}
      /\ bounty' = [bounty EXCEPT ![i] = Pay(b, m)]
      /\ paid' = paid \cup {<<i, m>>}
      /\ UNCHANGED dispute
  BY StoredBounty DEF apply_release, Disputed
<1>2. \A id \in DOMAIN dispute :
        ~dispute[id].resolved /\ dispute[id].issue = i => dispute[id].milestone # m
  BY <1>1 DEF OpenDisputes
<1> DEFINE c == Pay(b, m)
           ms == {m}
<1>3. /\ c.amounts = b.amounts /\ c.settled = b.settled \cup ms
      /\ c.released <=> Milestones(b) \subseteq b.settled \cup ms
  BY <1>1, SettledParts
<1>4. ms \in SUBSET Milestones(b)
  BY <1>1
<1>5. /\ \A id \in DOMAIN dispute :
           /\ ~dispute[id].resolved
           /\ dispute[id].issue = i
           => dispute[id].milestone \notin ms
      /\ \A k \in paid' : k \in paid \/ (k[1] = i /\ k[2] \in ms)
  BY <1>1, <1>2
<1>6. bounty' = [bounty EXCEPT ![i] = c]
  BY <1>1
<1> HIDE DEF c, ms
<1>7. Milestones(c) = Milestones(b)
  BY <1>3 DEF Milestones
<1>8. c.released <=> Milestones(c) \subseteq c.settled
  BY <1>3, <1>7
<1>9. QED
  BY <1>1, <1>3, <1>4, <1>5, <1>6, <1>8, SettlingKeepsInv

\* A resolution closes its own dispute, the only one open on the milestone.
LEMMA ResolutionSettlement ==
  ASSUME EscrowTypeOK, SettlementInv, NEW id, NEW pay \in BOOLEAN, Resolvable(id, pay),
         ResolutionRecorded(id, pay), NEW c,
         bounty' = [bounty EXCEPT ![dispute[id].issue] = c],
         c \in {Settle(bounty[dispute[id].issue], {dispute[id].milestone}),
                Pay(bounty[dispute[id].issue], dispute[id].milestone)},
         paid' \subseteq paid \cup {<<dispute[id].issue, dispute[id].milestone>>}
  PROVE  SettlementInv'
<1> DEFINE i == dispute[id].issue
           m == dispute[id].milestone
           b == bounty[i]
<1>1. /\ id \in DOMAIN dispute /\ ~dispute[id].resolved
      /\ i \in DOMAIN bounty /\ b \in Bounty /\ m \in Milestones(b)
      /\ i \in Issue /\ m \in Slot
  BY ResolvableTypes DEF Resolvable
<1>2. /\ DOMAIN dispute' = DOMAIN dispute
      /\ \A k \in DOMAIN dispute :
           /\ dispute'[k].issue = dispute[k].issue
           /\ dispute'[k].milestone = dispute[k].milestone
           /\ k # id => dispute'[k] = dispute[k]
      /\ dispute'[id].resolved
  <2>1. dispute[id] \in Dispute
    BY <1>1, StoredDispute
  <2>2. QED
    BY <1>1, <2>1 DEF ResolutionRecorded, Dispute
<1>3. \A k \in DOMAIN dispute :
        k # id /\ ~dispute[k].resolved /\ dispute[k].issue = i => dispute[k].milestone # m
  BY <1>1 DEF SettlementInv, OneOpenDispute, OpenDisputes
<1> DEFINE ms == {m}
<1>4. /\ c.amounts = b.amounts /\ c.settled = b.settled \cup ms
      /\ c.released <=> Milestones(b) \subseteq b.settled \cup ms
  <2>1. CASE c = Settle(b, {m})
    BY <1>1, <2>1, SettledParts
  <2>2. CASE c = Pay(b, m)
    BY <1>1, <2>2, SettledParts
  <2>3. QED
    BY <2>1, <2>2
<1>5. ms \in SUBSET Milestones(b)
  BY <1>1
<1>6. /\ \A k \in DOMAIN dispute : ~dispute'[k].resolved =>
           /\ ~dispute[k].resolved
           /\ dispute[k].issue = i => dispute[k].milestone \notin ms
      /\ \A k \in paid' : k \in paid \/ (k[1] = i /\ k[2] \in ms)
  BY <1>1, <1>2, <1>3
<1> HIDE DEF ms
<1>7. c.released <=> Milestones(c) \subseteq c.settled
  BY <1>4 DEF Milestones
<1>8. QED
  BY <1>1, <1>2, <1>4, <1>5, <1>6, <1>7, SettlingKeepsInv

LEMMA SettlementStep ==
  ASSUME EscrowTypeOK, SettlementInv, [EscrowNext]_escrowVars
  PROVE  SettlementInv'
<1>1. ASSUME NEW r \in RegistryChoices, InitContract(r)  PROVE SettlementInv'
  BY <1>1, UntouchedSettlement DEF InitContract
<1>2. CASE UserStep
  <2>1. ASSUME NEW f \in Funders, NEW t \in Token, NEW i \in Issue, NEW l \in MilestoneLists,
               create_bounty(f, t, i, l)
        PROVE  SettlementInv'
    BY <2>1, CreateSettlement
  <2>2. ASSUME NEW i \in Issue, NEW w \in Workers, claim(i, w)
        PROVE  SettlementInv'
    <3> DEFINE c == [bounty[i] EXCEPT !.contributor = w]
    <3>1. i \in DOMAIN bounty /\ bounty[i] \in Bounty
      BY <2>2, StoredBounty DEF claim
    <3>2. /\ c.amounts = bounty[i].amounts /\ c.settled = bounty[i].settled
          /\ c.released = bounty[i].released
      BY <3>1 DEF Bounty
    <3>3. bounty' = [bounty EXCEPT ![i] = c] /\ UNCHANGED <<dispute, paid>>
      BY <2>2 DEF claim
    <3> HIDE DEF c
    <3>4. QED
      BY <3>1, <3>2, <3>3, TermsSettlement
  <2>3. ASSUME NEW i \in Issue, reclaim(i)
        PROVE  SettlementInv'
    BY <2>3, RefundSettlement DEF reclaim
  <2>4. ASSUME NEW v \in Address, NEW i \in Issue, NEW m \in Slot, NEW d \in Decision,
               submit_review(v, i, m, d)
        PROVE  SettlementInv'
    BY <2>4, UntouchedSettlement DEF submit_review
  <2>5. ASSUME NEW a \in Address, NEW i \in Issue, NEW m \in Slot, open_dispute(a, i, m)
        PROVE  SettlementInv'
    BY <2>5, OpenDisputeSettlement
  <2>6. ASSUME NEW v \in Address, NEW id \in 1..MaxDisputes, NEW pay \in BOOLEAN,
               vote_on_dispute(v, id, pay)
        PROVE  SettlementInv'
    BY <2>6, VoteSettlement
  <2>7. QED
    BY <1>2, <2>1, <2>2, <2>3, <2>4, <2>5, <2>6 DEF UserStep
<1>3. ASSUME NEW a \in Proposable, execute_action(a)  PROVE SettlementInv'
  <2>1. ASSUME NEW i \in Issue, NEW m \in Slot, apply_release(i, m)
        PROVE  SettlementInv'
    BY <2>1, ReleaseSettlement
  <2>2. ASSUME NEW i \in Issue, apply_reclaim(i)
        PROVE  SettlementInv'
    BY <2>2, RefundSettlement DEF apply_reclaim
  <2>3. ASSUME NEW i \in Issue, NEW rs \in Seq(Address), NEW q \in Nat,
               apply_set_reviewers(i, rs, q)
        PROVE  SettlementInv'
    <3> DEFINE c == [bounty[i] EXCEPT !.reviewers = Members(rs), !.reviewer_quorum = q]
    <3>1. i \in DOMAIN bounty /\ bounty[i] \in Bounty
      BY <2>3, StoredBounty DEF apply_set_reviewers
    <3>2. /\ c.amounts = bounty[i].amounts /\ c.settled = bounty[i].settled
          /\ c.released = bounty[i].released
      BY <3>1 DEF Bounty
    <3>3. bounty' = [bounty EXCEPT ![i] = c] /\ UNCHANGED <<dispute, paid>>
      BY <2>3, <3>1 DEF apply_set_reviewers
    <3> HIDE DEF c
    <3>4. QED
      BY <3>1, <3>2, <3>3, TermsSettlement
  <2>4. ASSUME NEW id, ResolveByPaying(id)  PROVE SettlementInv'
    BY <2>4, ResolutionSettlement DEF ResolveByPaying
  <2>5. ASSUME NEW id, ResolveByRefunding(id)  PROVE SettlementInv'
    BY <2>5, ResolutionSettlement DEF ResolveByRefunding
  <2>6. QED
    BY <1>3, <2>1, <2>2, <2>3, <2>4, <2>5, ExecutedActions
<1>4. CASE RegistryStep
  BY <1>4, UntouchedSettlement DEF RegistryStep
<1>5. CASE UNCHANGED escrowVars
  BY <1>5, UntouchedSettlement DEF escrowVars
<1>6. QED
  BY <1>1, <1>2, <1>3, <1>4, <1>5 DEF EscrowNext

\* The whole inductive invariant of the escrow.
THEOREM SettlementCorrect == EscrowSpec => [](EscrowTypeOK /\ SettlementInv)
<1>1. EscrowInit => EscrowTypeOK /\ SettlementInv
  BY EscrowInitType, InitSettlement
<1>2. EscrowTypeOK /\ SettlementInv /\ [EscrowNext]_escrowVars
        => (EscrowTypeOK /\ SettlementInv)'
  BY TypeStep, SettlementStep
<1>3. QED
  BY <1>1, <1>2, PTL DEF EscrowSpec

\* An open dispute always holds its milestone and its bounty.
THEOREM DisputesHold == EscrowSpec => []OpenDisputeHoldsMilestone
BY SettlementCorrect, PTL DEF SettlementInv

\* Never two open disputes on one milestone.
THEOREM DisputesAreSingle == EscrowSpec => []OneOpenDispute
BY SettlementCorrect, PTL DEF SettlementInv

\* A bounty is closed exactly when all its milestones are settled.
THEOREM ClosedWhenSettled == EscrowSpec => []ReleasedMeansAllSettled
BY SettlementCorrect, PTL DEF SettlementInv

-----------------------------------------------------------------------------
(* The registry inside the escrow's transactions: every write that goes    *)
(* with a settlement finds its guard unspent, so what holds of the         *)
(* registry under any writers holds of it here as well.                    *)

LEMMA KeepsTransitive ==
  ASSUME NEW r \in RegistryState, NEW s \in RegistryState, NEW t \in RegistryState,
         Keeps(r, s), Keeps(s, t)
  PROVE  Keeps(r, t)
<1>1. \A a \in Address : /\ r.rep[a].payout_total \in Int
                         /\ s.rep[a].payout_total \in Int
                         /\ t.rep[a].payout_total \in Int
  BY RegistryConstants DEF RegistryState, Reputation
<1>2. \A a \in Address : r.rep[a].payout_total <= t.rep[a].payout_total
  BY <1>1 DEF Keeps
<1>3. QED
  BY <1>2 DEF Keeps

LEMMA KeepsSame ==
  ASSUME NEW r \in RegistryState
  PROVE  Keeps(r, r)
<1>1. \A a \in Address : r.rep[a].payout_total \in Int
  BY RegistryConstants DEF RegistryState, Reputation
<1>2. QED
  BY <1>1 DEF Keeps

LEMMA PayoutReputationEffect ==
  ASSUME EscrowTypeOK, NEW i \in DOMAIN bounty, NEW m \in Milestones(bounty[i]),
         bounty[i].contributor # NoOne, PayoutReputationAllowed(i, m),
         NEW r, r = PayoutReputation(reg, i, m)
  PROVE  /\ r \in RegistryState
         /\ RegistrySound(reg) => RegistrySound(r)
         /\ Keeps(reg, r)
         /\ r.dispute_credited = reg.dispute_credited
         /\ config = "with registry" => <<bounty[i].contributor, i, m>> \in r.credited
<1> DEFINE c == bounty[i].contributor
           n == bounty[i].amounts[m]
           vs == Reviewed(i, m, "Approve")
<1>1. reg \in RegistryState /\ r \in RegistryState
  BY PayoutReputationType DEF EscrowTypeOK, RegTypeOK
<1>2. c \in Address /\ n \in 0..MaxI128 /\ i \in Issue /\ m \in Slot
  BY StoredBounty, PartyTypes, MilestoneTypes, RegistryConstants
<1>3. CASE config = "with registry"
  <2>1. PICK q : q = Recorded(reg, c, i, m, n)
    OBVIOUS
  <2>2. /\ <<c, i, m>> \notin reg.credited
        /\ \A v \in vs : <<v, i, m>> \notin reg.review_credited
    BY <1>3 DEF PayoutReputationAllowed, RecordAllowed, ReviewsAllowed
  <2>3. r = ReviewsRecorded(q, vs, i, m)
    BY <1>3, <2>1 DEF PayoutReputation
  <2> HIDE DEF c, n, vs
  <2>4. q \in RegistryState
    BY <1>1, <1>2, <2>1, RecordedType
  <2>5. /\ q.credited = reg.credited \cup {<<c, i, m>>}
        /\ q.review_credited = reg.review_credited
        /\ q.dispute_credited = reg.dispute_credited
    BY <1>1, <1>2, <2>1, RecordedParts
  <2>6. /\ r.credited = q.credited /\ r.dispute_credited = q.dispute_credited
    BY <2>3, <2>4, ReviewsRecordedParts
  <2>7. RegistrySound(reg) => RegistrySound(q)
    BY <1>1, <1>2, <2>1, <2>2, RecordedSound
  <2>8. \A v \in vs : <<v, i, m>> \notin q.review_credited
    BY <2>2, <2>5
  <2>9. RegistrySound(q) => RegistrySound(r)
    BY <2>3, <2>4, <2>8, ReviewsRecordedSound
  <2>10. Keeps(reg, q) /\ Keeps(q, r)
    BY <1>1, <1>2, <2>1, <2>3, <2>4, RecordedKeeps, ReviewsRecordedKeeps
  <2>11. Keeps(reg, r)
    BY <1>1, <2>4, <2>10, KeepsTransitive
  <2>12. <<c, i, m>> \in r.credited
    BY <2>5, <2>6
  <2>13. QED
    BY <1>1, <2>5, <2>6, <2>7, <2>9, <2>11, <2>12 DEF c
<1>4. CASE config # "with registry"
  <2>1. r = reg
    BY <1>4 DEF PayoutReputation
  <2>2. QED
    BY <1>1, <1>4, <2>1, KeepsSame
<1>5. QED
  BY <1>3, <1>4

\* Registries with the same payouts and upheld reviews.
SamePayouts(r, s) ==
  /\ s.credited = r.credited /\ s.review_credited = r.review_credited
  /\ \A a \in Address : s.rep[a].payout_total = r.rep[a].payout_total

\* Registry `s` is `r` with the loser of dispute `d`, if it has one, noted as credited.
LoserNoted(r, s, d, pay) ==
  s.dispute_credited = IF config = "with registry" /\ Loser(d, pay) # NoOne
                       THEN r.dispute_credited \cup {<<Loser(d, pay), d.issue, d.milestone>>}
                       ELSE r.dispute_credited

LEMMA DisputeReputationEffect ==
  ASSUME EscrowTypeOK, NEW d \in Dispute, NEW pay, d.issue \in DOMAIN bounty,
         DisputeReputationAllowed(d, pay),
         NEW r \in RegistryState, r.dispute_credited = reg.dispute_credited,
         NEW s, s = DisputeReputation(r, d, pay)
  PROVE  /\ s \in RegistryState
         /\ RegistrySound(r) => RegistrySound(s)
         /\ Keeps(r, s)
         /\ SamePayouts(r, s)
         /\ LoserNoted(r, s, d, pay)
<1>1. d.issue \in Issue /\ d.milestone \in Slot /\ bounty[d.issue] \in Bounty
  BY StoredBounty DEF Dispute
<1>2. CASE config = "with registry" /\ Loser(d, pay) # NoOne
  <2>1. PICK l, lost : l = Loser(d, pay) /\ lost = TRUE /\ lost \in BOOLEAN
    OBVIOUS
  <2>2. l \in Address
    BY <1>1, <1>2, <2>1 DEF Loser, Bounty
  <2>3. /\ s = DisputeRecorded(r, l, d.issue, d.milestone, lost)
        /\ <<l, d.issue, d.milestone>> \notin r.dispute_credited
    BY <1>2, <2>1 DEF DisputeReputation, DisputeReputationAllowed, DisputeAllowed
  <2>4. s \in RegistryState
    BY <1>1, <2>1, <2>2, <2>3, DisputeRecordedType
  <2>5. RegistrySound(r) => RegistrySound(s)
    BY <2>1, <2>2, <2>3, DisputeRecordedSound
  <2>6. Keeps(r, s)
    BY <2>1, <2>2, <2>3, DisputeRecordedKeeps
  <2>7. /\ s.credited = r.credited /\ s.review_credited = r.review_credited
        /\ s.dispute_credited = r.dispute_credited \cup {<<l, d.issue, d.milestone>>}
        /\ \A a \in Address : s.rep[a].payout_total = r.rep[a].payout_total
    <3>1. PICK i, m : i = d.issue /\ m = d.milestone
      OBVIOUS
    <3>2. s = DisputeRecorded(r, l, i, m, lost)
      BY <2>3, <3>1
    <3>3. /\ s.credited = r.credited /\ s.review_credited = r.review_credited
          /\ s.dispute_credited = r.dispute_credited \cup {<<l, i, m>>}
          /\ \A a \in Address : s.rep[a].payout_total = r.rep[a].payout_total
      BY <2>2, <3>2, DisputeRecordedParts
    <3>4. QED
      BY <3>1, <3>3
  <2>8. QED
    BY <1>2, <2>1, <2>4, <2>5, <2>6, <2>7 DEF SamePayouts, LoserNoted
<1>3. CASE ~(config = "with registry" /\ Loser(d, pay) # NoOne)
  <2>1. s = r
    BY <1>3 DEF DisputeReputation
  <2>2. QED
    BY <1>3, <2>1, KeepsSame DEF SamePayouts, LoserNoted
<1>4. QED
  BY <1>2, <1>3

\* What each step of the escrow does to the registry.
LEMMA RegistryEffect ==
  ASSUME EscrowTypeOK, [EscrowNext]_escrowVars
  PROVE  Keeps(reg, reg') /\ (RegistrySound(reg) => RegistrySound(reg'))
<1>1. reg \in RegistryState /\ RegTypeOK
  BY DEF EscrowTypeOK, RegTypeOK
<1>2. CASE reg' = reg
  BY <1>1, <1>2, KeepsSame
<1>3. ASSUME NEW i \in Issue, NEW m \in Slot, apply_release(i, m)
      PROVE  Keeps(reg, reg') /\ (RegistrySound(reg) => RegistrySound(reg'))
  <2>1. /\ i \in DOMAIN bounty /\ m \in Milestones(bounty[i])
        /\ bounty[i].contributor # NoOne
        /\ PayoutReputationAllowed(i, m) /\ reg' = PayoutReputation(reg, i, m)
    BY <1>3 DEF apply_release
  <2>2. QED
    BY <2>1, PayoutReputationEffect
<1>4. ASSUME NEW id, ResolveByPaying(id)
      PROVE  Keeps(reg, reg') /\ (RegistrySound(reg) => RegistrySound(reg'))
  <2>1. PICK d, i, m, q : /\ d = dispute[id] /\ i = d.issue /\ m = d.milestone
                          /\ q = PayoutReputation(reg, i, m)
    OBVIOUS
  <2>2. /\ d \in Dispute /\ i \in DOMAIN bounty /\ m \in Milestones(bounty[i])
        /\ bounty[i].contributor # NoOne
        /\ PayoutReputationAllowed(i, m) /\ DisputeReputationAllowed(d, TRUE)
        /\ reg' = DisputeReputation(q, d, TRUE)
    BY <1>4, <2>1, ResolvableTypes DEF ResolveByPaying, Resolvable
  <2>3. /\ q \in RegistryState /\ (RegistrySound(reg) => RegistrySound(q)) /\ Keeps(reg, q)
        /\ q.dispute_credited = reg.dispute_credited
    BY <2>1, <2>2, PayoutReputationEffect
  <2>4. reg' \in RegistryState /\ Keeps(q, reg') /\ (RegistrySound(q) => RegistrySound(reg'))
    BY <2>1, <2>2, <2>3, DisputeReputationEffect
  <2>5. QED
    BY <1>1, <2>3, <2>4, KeepsTransitive
<1>5. ASSUME NEW id, ResolveByRefunding(id)
      PROVE  Keeps(reg, reg') /\ (RegistrySound(reg) => RegistrySound(reg'))
  <2>1. PICK d : d = dispute[id]
    OBVIOUS
  <2>2. /\ d \in Dispute /\ d.issue \in DOMAIN bounty
        /\ DisputeReputationAllowed(d, FALSE)
        /\ reg' = DisputeReputation(reg, d, FALSE)
    BY <1>5, <2>1, ResolvableTypes DEF ResolveByRefunding, Resolvable
  <2>3. QED
    BY <1>1, <2>2, DisputeReputationEffect
<1>6. CASE RegistryStep
  BY <1>1, <1>6, AdministerKeeps, AdministerSound, WriteKeeps, WriteSound DEF RegistryStep
<1>7. CASE UserStep
  BY <1>2, <1>7 DEF UserStep, create_bounty, claim, reclaim, RefundRemaining, submit_review,
                    open_dispute, vote_on_dispute
<1>8. ASSUME NEW a \in Proposable, execute_action(a)
      PROVE  Keeps(reg, reg') /\ (RegistrySound(reg) => RegistrySound(reg'))
  <2>1. (\E i \in Issue : apply_reclaim(i)) => reg' = reg
    BY DEF apply_reclaim, RefundRemaining
  <2>2. (\E i \in Issue, rs \in Seq(Address), q \in Nat : apply_set_reviewers(i, rs, q))
          => reg' = reg
    BY DEF apply_set_reviewers
  <2>3. QED
    BY <1>2, <1>3, <1>4, <1>5, <1>8, <2>1, <2>2, ExecutedActions
<1>9. CASE \E r \in RegistryChoices : InitContract(r)
  BY <1>2, <1>9 DEF InitContract
<1>10. CASE UNCHANGED escrowVars
  BY <1>2, <1>10 DEF escrowVars
<1>11. QED
  BY <1>6, <1>7, <1>8, <1>9, <1>10 DEF EscrowNext

\* The registry that the escrow writes to stays sound.
LEMMA EscrowKeepsRegistrySound == EscrowSpec => []RegistrySound(reg)
<1>1. EscrowInit => RegistrySound(reg)
  BY FreshSound DEF EscrowInit, RegInit
<1>2. EscrowTypeOK /\ RegistrySound(reg) /\ [EscrowNext]_escrowVars => RegistrySound(reg)'
  BY RegistryEffect
<1>3. QED
  BY <1>1, <1>2, EscrowTypeCorrect, PTL DEF EscrowSpec

\* The registry that the escrow writes to stays consistent, with other contracts
\* writing to it and its admin rotating the caller in between.
THEOREM EscrowKeepsRegistryConsistent == EscrowSpec => []RegistryConsistent
BY EscrowKeepsRegistrySound, SoundIsConsistent, PTL

\* And no settlement, dispute or rotation rewrites what it has recorded.
THEOREM EscrowKeepsHistory == EscrowSpec => HistoryKept
<1>1. ASSUME EscrowTypeOK, [EscrowNext]_escrowVars
      PROVE  [/\ reg.credited \subseteq reg'.credited
              /\ reg.review_credited \subseteq reg'.review_credited
              /\ reg.dispute_credited \subseteq reg'.dispute_credited
              /\ \A a \in Address : reg.rep[a].payout_total <= reg'.rep[a].payout_total
              /\ (reg.admin # NoOne => reg'.admin = reg.admin)]_reg
  BY <1>1, RegistryEffect DEF Keeps
<1>2. QED
  BY <1>1, EscrowTypeCorrect, PTL DEF EscrowSpec, HistoryKept

-----------------------------------------------------------------------------
(* The ballots.  A count is a cardinality: the invariant adds that the     *)
(* ballots for each side are finitely many, and that none was cast on a    *)
(* dispute before it was opened.                                           *)

BallotsFor(id, pay) ==
  {v \in Address : <<id, v>> \in DOMAIN ballot /\ ballot[<<id, v>>] = pay}

VotesCounted(id) ==
  /\ IsFiniteSet(BallotsFor(id, TRUE)) /\ IsFiniteSet(BallotsFor(id, FALSE))
  /\ dispute[id].votes_pay_contributor = Cardinality(BallotsFor(id, TRUE))
  /\ dispute[id].votes_refund_funder = Cardinality(BallotsFor(id, FALSE))

VotesInv ==
  /\ \A k \in DOMAIN ballot : k[1] \in DOMAIN dispute
  /\ \A id \in DOMAIN dispute : VotesCounted(id)

LEMMA VotesInvMatch == VotesInv => VotesMatchBallots
BY DEF VotesInv, VotesCounted, BallotsFor, VotesMatchBallots

\* A step without ballots that leaves the counts of every dispute.
LEMMA SameVotes ==
  ASSUME VotesInv, UNCHANGED ballot,
         DOMAIN dispute' = DOMAIN dispute,
         \A id \in DOMAIN dispute :
           /\ dispute'[id].votes_pay_contributor = dispute[id].votes_pay_contributor
           /\ dispute'[id].votes_refund_funder = dispute[id].votes_refund_funder
  PROVE  VotesInv'
BY DEF VotesInv, VotesCounted, BallotsFor

LEMMA OpenDisputeVotes ==
  ASSUME EscrowTypeOK, VotesInv, NEW a \in Address, NEW i \in Issue, NEW m \in Slot,
         open_dispute(a, i, m)
  PROVE  VotesInv'
<1> DEFINE d == [issue |-> i, milestone |-> m, opener |-> a,
                 votes_pay_contributor |-> 0, votes_refund_funder |-> 0,
                 resolved |-> FALSE, pay_contributor |-> FALSE]
<1>0. PICK n : n = Len(dispute) + 1
  OBVIOUS
<1>1. d \in Dispute /\ d.votes_pay_contributor = 0 /\ d.votes_refund_funder = 0
  BY DEF Dispute
<1>2. dispute' = Append(dispute, d) /\ dispute \in Seq(Dispute) /\ UNCHANGED ballot
  BY DEF open_dispute, EscrowTypeOK
<1> HIDE DEF d
<1>3. /\ DOMAIN dispute = 1..Len(dispute) /\ Len(dispute) \in Nat
      /\ DOMAIN dispute' = 1..n
      /\ dispute'[n] = d
      /\ \A id \in 1..Len(dispute) : dispute'[id] = dispute[id]
  BY <1>0, <1>1, <1>2, AppendProperties, LenProperties
<1>4. n \notin DOMAIN dispute /\ \A id \in DOMAIN dispute' : id \in DOMAIN dispute \/ id = n
  BY <1>0, <1>3
<1>5. \A id, pay : BallotsFor(id, pay)' = BallotsFor(id, pay)
  BY <1>2 DEF BallotsFor
<1>6. BallotsFor(n, TRUE) = {} /\ BallotsFor(n, FALSE) = {}
  BY <1>4 DEF VotesInv, BallotsFor
<1>7. VotesCounted(n)'
  <2>1. IsFiniteSet({}) /\ Cardinality({}) = 0
    BY FS_EmptySet
  <2>2. QED
    BY <1>1, <1>3, <1>5, <1>6, <2>1 DEF VotesCounted
<1>8. \A id \in DOMAIN dispute : VotesCounted(id)'
  BY <1>3, <1>5 DEF VotesInv, VotesCounted
<1>9. \A k \in DOMAIN ballot' : k[1] \in DOMAIN dispute'
  <2>1. \A id \in DOMAIN dispute : id \in DOMAIN dispute'
    BY <1>0, <1>3
  <2>2. DOMAIN ballot' = DOMAIN ballot
    BY <1>2
  <2>3. QED
    BY <2>1, <2>2 DEF VotesInv
<1>10. QED
  BY <1>4, <1>7, <1>8, <1>9 DEF VotesInv

LEMMA VoteVotes ==
  ASSUME EscrowTypeOK, VotesInv, NEW v \in Address, NEW id \in 1..MaxDisputes,
         NEW pay \in BOOLEAN, vote_on_dispute(v, id, pay)
  PROVE  VotesInv'
<1>1. /\ id \in DOMAIN dispute /\ dispute[id] \in Dispute
      /\ <<id, v>> \notin DOMAIN ballot
      /\ ballot' = Put(ballot, <<id, v>>, pay)
  BY StoredDispute DEF vote_on_dispute, AlreadyVoted
<1>2. /\ DOMAIN ballot' = DOMAIN ballot \cup {<<id, v>>}
      /\ ballot'[<<id, v>>] = pay
      /\ \A k \in DOMAIN ballot : ballot'[k] = ballot[k]
  BY <1>1 DEF Put
<1>3. DOMAIN dispute' = DOMAIN dispute
  BY DEF vote_on_dispute
<1>4. \A k \in DOMAIN dispute \ {id} : dispute'[k] = dispute[k]
  BY DEF vote_on_dispute
<1>5. \A k \in DOMAIN dispute \ {id} : VotesCounted(k)'
  <2>1. TAKE k \in DOMAIN dispute \ {id}
  <2>2. ASSUME NEW side PROVE BallotsFor(k, side)' = BallotsFor(k, side)
    <3>1. \A w : <<k, w>> # <<id, v>>
      BY <2>1
    <3>2. QED
      BY <1>2, <3>1 DEF BallotsFor
  <2>3. QED
    BY <1>4, <2>2 DEF VotesInv, VotesCounted
<1>6. VotesCounted(id)
  BY <1>1 DEF VotesInv
<1>7. v \notin BallotsFor(id, TRUE) /\ v \notin BallotsFor(id, FALSE)
  BY <1>1 DEF BallotsFor
<1>8. VotesCounted(id)'
  <2>1. CASE pay
    <3>1. BallotsFor(id, TRUE)' = BallotsFor(id, TRUE) \cup {v}
      BY <1>2, <2>1 DEF BallotsFor
    <3>2. BallotsFor(id, FALSE)' = BallotsFor(id, FALSE)
      BY <1>1, <1>2, <2>1 DEF BallotsFor
    <3>3. /\ IsFiniteSet(BallotsFor(id, TRUE)')
          /\ Cardinality(BallotsFor(id, TRUE)') = Cardinality(BallotsFor(id, TRUE)) + 1
      BY <1>6, <1>7, <3>1, FS_AddElement DEF VotesCounted
    <3>4. /\ dispute'[id].votes_pay_contributor = dispute[id].votes_pay_contributor + 1
          /\ dispute'[id].votes_refund_funder = dispute[id].votes_refund_funder
      BY <1>1, <2>1 DEF vote_on_dispute, Dispute
    <3>5. QED
      BY <1>6, <3>2, <3>3, <3>4 DEF VotesCounted
  <2>2. CASE ~pay
    <3>1. BallotsFor(id, FALSE)' = BallotsFor(id, FALSE) \cup {v}
      BY <1>2, <2>2 DEF BallotsFor
    <3>2. BallotsFor(id, TRUE)' = BallotsFor(id, TRUE)
      BY <1>1, <1>2, <2>2 DEF BallotsFor
    <3>3. /\ IsFiniteSet(BallotsFor(id, FALSE)')
          /\ Cardinality(BallotsFor(id, FALSE)') = Cardinality(BallotsFor(id, FALSE)) + 1
      BY <1>6, <1>7, <3>1, FS_AddElement DEF VotesCounted
    <3>4. /\ dispute'[id].votes_pay_contributor = dispute[id].votes_pay_contributor
          /\ dispute'[id].votes_refund_funder = dispute[id].votes_refund_funder + 1
      BY <1>1, <2>2 DEF vote_on_dispute, Dispute
    <3>5. QED
      BY <1>6, <3>2, <3>3, <3>4 DEF VotesCounted
  <2>3. QED
    BY <2>1, <2>2
<1>9. \A k \in DOMAIN ballot' : k[1] \in DOMAIN dispute'
  BY <1>1, <1>2, <1>3 DEF VotesInv
<1>10. QED
  BY <1>3, <1>5, <1>8, <1>9 DEF VotesInv

LEMMA ResolutionVotes ==
  ASSUME EscrowTypeOK, VotesInv, NEW id \in DOMAIN dispute, NEW pay,
         ResolutionRecorded(id, pay), UNCHANGED ballot
  PROVE  VotesInv'
<1>1. dispute[id] \in Dispute
  BY StoredDispute
<1>2. /\ DOMAIN dispute' = DOMAIN dispute
      /\ \A k \in DOMAIN dispute :
           /\ dispute'[k].votes_pay_contributor = dispute[k].votes_pay_contributor
           /\ dispute'[k].votes_refund_funder = dispute[k].votes_refund_funder
  BY <1>1 DEF ResolutionRecorded, Dispute
<1>3. QED
  BY <1>2, SameVotes

LEMMA VotesStep ==
  ASSUME EscrowTypeOK, VotesInv, [EscrowNext]_escrowVars
  PROVE  VotesInv'
<1>1. CASE UNCHANGED <<dispute, ballot>>
  BY <1>1, SameVotes
<1>2. ASSUME NEW a \in Address, NEW i \in Issue, NEW m \in Slot, open_dispute(a, i, m)
      PROVE  VotesInv'
  BY <1>2, OpenDisputeVotes
<1>3. ASSUME NEW v \in Address, NEW id \in 1..MaxDisputes, NEW pay \in BOOLEAN,
             vote_on_dispute(v, id, pay)
      PROVE  VotesInv'
  BY <1>3, VoteVotes
<1>4. CASE UserStep
  BY <1>1, <1>2, <1>3, <1>4
  DEF UserStep, create_bounty, claim, reclaim, RefundRemaining, submit_review
<1>5. ASSUME NEW id, ResolveByPaying(id)  PROVE VotesInv'
  BY <1>5, ResolutionVotes DEF ResolveByPaying, Resolvable
<1>6. ASSUME NEW id, ResolveByRefunding(id)  PROVE VotesInv'
  BY <1>6, ResolutionVotes DEF ResolveByRefunding, Resolvable
<1>7. ASSUME NEW a \in Proposable, execute_action(a)  PROVE VotesInv'
  <2>1. (\E i \in Issue, m \in Slot : apply_release(i, m)) => UNCHANGED <<dispute, ballot>>
    BY DEF apply_release
  <2>2. (\E i \in Issue : apply_reclaim(i)) => UNCHANGED <<dispute, ballot>>
    BY DEF apply_reclaim, RefundRemaining
  <2>3. (\E i \in Issue, rs \in Seq(Address), q \in Nat : apply_set_reviewers(i, rs, q))
          => UNCHANGED <<dispute, ballot>>
    BY DEF apply_set_reviewers
  <2>4. QED
    BY <1>1, <1>5, <1>6, <1>7, <2>1, <2>2, <2>3, ExecutedActions
<1>8. CASE RegistryStep \/ (\E r \in RegistryChoices : InitContract(r)) \/ UNCHANGED escrowVars
  BY <1>1, <1>8 DEF RegistryStep, InitContract, escrowVars
<1>9. QED
  BY <1>4, <1>7, <1>8 DEF EscrowNext

\* The votes of a dispute are its ballots: none lost, none counted twice, none on
\* the other side, and none left over from another dispute.
THEOREM VotesAreBallots == EscrowSpec => []VotesMatchBallots
<1>1. EscrowInit => VotesInv
  BY DEF EscrowInit, VotesInv
<1>2. EscrowTypeOK /\ VotesInv /\ [EscrowNext]_escrowVars => VotesInv'
  BY VotesStep
<1>3. EscrowSpec => []VotesInv
  BY <1>1, <1>2, EscrowTypeCorrect, PTL DEF EscrowSpec
<1>4. QED
  BY <1>3, VotesInvMatch, PTL

-----------------------------------------------------------------------------
(* The terms of a bounty, and where its money goes.                        *)

TermsKept ==
  \A i \in DOMAIN bounty :
    /\ i \in DOMAIN bounty'
    /\ bounty[i].released => bounty'[i] = bounty[i] /\ returned'[i] = returned[i]
    /\ bounty'[i].amounts = bounty[i].amounts
    /\ bounty'[i].token = bounty[i].token
    /\ bounty'[i].funder = bounty[i].funder
    /\ bounty'[i].contributor \in
         IF bounty[i].contributor = NoOne THEN Workers \cup {NoOne}
         ELSE {bounty[i].contributor}

MoneyToParties ==
  \A t \in Token, a \in Address : balance'[t][a] > balance[t][a] =>
    \E i \in DOMAIN bounty :
      /\ bounty[i].token = t
      /\ bounty'[i].settled # bounty[i].settled
      /\ a = IF \E m \in Slot : <<i, m>> \in paid' \ paid
             THEN bounty[i].contributor ELSE bounty[i].funder

LEMMA SameTerms ==
  ASSUME EscrowTypeOK, UNCHANGED <<bounty, returned, balance>>
  PROVE  TermsKept /\ MoneyToParties
<1>1. TermsKept
  <2>1. \A i \in DOMAIN bounty : bounty[i].contributor \in Address \cup {NoOne}
    BY DEF EscrowTypeOK, Bounty
  <2>2. QED
    BY <2>1 DEF TermsKept
<1>2. \A t \in Token, a \in Address : balance[t][a] \in Nat
  BY DEF EscrowTypeOK, Account
<1>3. MoneyToParties
  BY <1>2 DEF MoneyToParties
<1>4. QED
  BY <1>1, <1>3

\* One open bounty is replaced, on the same terms.
LEMMA ReplacedTerms ==
  ASSUME EscrowTypeOK, NEW i \in DOMAIN bounty, ~bounty[i].released, NEW c,
         bounty' = [bounty EXCEPT ![i] = c],
         c.amounts = bounty[i].amounts, c.token = bounty[i].token,
         c.funder = bounty[i].funder,
         c.contributor \in IF bounty[i].contributor = NoOne THEN Workers \cup {NoOne}
                           ELSE {bounty[i].contributor},
         \A j \in Issue : j # i => returned'[j] = returned[j]
  PROVE  TermsKept
<1>1. ASSUME NEW j \in DOMAIN bounty, j # i
      PROVE  bounty'[j] = bounty[j] /\ returned'[j] = returned[j]
  BY <1>1 DEF EscrowTypeOK
<1>2. bounty'[i] = c /\ DOMAIN bounty' = DOMAIN bounty
  OBVIOUS
<1>3. QED
  BY <1>1, <1>2 DEF TermsKept

\* Only the receiver of a transfer has more afterwards.
LEMMA TransferRaises ==
  ASSUME EscrowTypeOK, NEW tk \in Token, NEW from \in Account, NEW to \in Account,
         NEW n \in Nat, Transfer(tk, from, to, n),
         NEW t \in Token, NEW a \in Account, balance'[t][a] > balance[t][a]
  PROVE  t = tk /\ a = to
<1>1. balance \in [Token -> [Account -> Nat]]
  BY DEF EscrowTypeOK
<1>2. CASE t # tk
  BY <1>1, <1>2 DEF Transfer
<1>3. CASE t = tk /\ a # to
  BY <1>1, <1>3 DEF Transfer
<1>4. QED
  BY <1>2, <1>3

\* A transfer out of the escrow that goes with a settlement.
LEMMA SettlementMoney ==
  ASSUME EscrowTypeOK, NEW i \in DOMAIN bounty, NEW to \in Account, NEW n \in Nat,
         Transfer(bounty[i].token, ThisBounty, to, n),
         bounty'[i].settled # bounty[i].settled,
         to = IF \E m \in Slot : <<i, m>> \in paid' \ paid
              THEN bounty[i].contributor ELSE bounty[i].funder
  PROVE  MoneyToParties
<1>1. PICK tk, es : /\ tk = bounty[i].token /\ es = ThisBounty
                     /\ tk \in Token /\ es \in Account
  BY StoredBounty, PartyTypes
<1>2. ASSUME NEW t \in Token, NEW a \in Address, balance'[t][a] > balance[t][a]
      PROVE  t = bounty[i].token /\ a = to
  <2>1. a \in Account
    BY DEF Account
  <2>2. QED
    <3>1. Transfer(tk, es, to, n)
      BY <1>1
    <3>2. QED
      BY <1>1, <1>2, <2>1, <3>1, TransferRaises
<1>3. QED
  BY <1>2 DEF MoneyToParties

\* What Settle and Pay leave of the terms.
LEMMA PayParts ==
  ASSUME NEW b \in Bounty, NEW m \in Milestones(b), NEW c,
         c = Settle(b, {m}) \/ c = Pay(b, m)
  PROVE  /\ c.amounts = b.amounts /\ c.amount = b.amount /\ c.token = b.token
         /\ c.funder = b.funder /\ c.contributor = b.contributor
         /\ c.reviewers = b.reviewers /\ c.reviewer_quorum = b.reviewer_quorum
         /\ c.refunded = b.refunded /\ c.settled = b.settled \cup {m}
         /\ c = Settle(b, {m}) => c.released_amount = b.released_amount
         /\ c = Pay(b, m) => c.released_amount = SatAdd(b.released_amount, b.amounts[m])
<1> DEFINE s == Settle(b, {m})
<1>1. /\ s.amounts = b.amounts /\ s.amount = b.amount /\ s.token = b.token
      /\ s.funder = b.funder /\ s.contributor = b.contributor
      /\ s.reviewers = b.reviewers /\ s.reviewer_quorum = b.reviewer_quorum
      /\ s.refunded = b.refunded /\ s.settled = b.settled \cup {m}
      /\ s.released_amount = b.released_amount
  BY DEF Settle, Bounty
<1>2. {m} \in SUBSET Slot
  BY MilestoneTypes
<1>3. s \in Bounty
  BY <1>2, SettleType
<1> HIDE DEF s
<1>4. Pay(b, m) = [s EXCEPT !.released_amount = SatAdd(@, b.amounts[m])]
  BY DEF Pay, s
<1> DEFINE p == [s EXCEPT !.released_amount = SatAdd(@, b.amounts[m])]
<1>5. /\ p.amounts = s.amounts /\ p.amount = s.amount /\ p.token = s.token
      /\ p.funder = s.funder /\ p.contributor = s.contributor
      /\ p.reviewers = s.reviewers /\ p.reviewer_quorum = s.reviewer_quorum
      /\ p.refunded = s.refunded /\ p.settled = s.settled
      /\ p.released_amount = SatAdd(s.released_amount, b.amounts[m])
  BY <1>3 DEF Bounty
<1>6. c = s \/ c = p
  BY <1>4 DEF s
<1> HIDE DEF p
<1>7. c = Settle(b, {m}) => c.released_amount = b.released_amount
  BY <1>1 DEF s
<1>8. c = Pay(b, m) => c.released_amount = SatAdd(b.released_amount, b.amounts[m])
  BY <1>1, <1>4, <1>5 DEF p
<1>9. QED
  BY <1>1, <1>5, <1>6, <1>7, <1>8

LEMMA RefundTerms ==
  ASSUME EscrowTypeOK, SettlementInv, NEW i \in DOMAIN bounty, ~bounty[i].released,
         remaining_escrow(bounty[i]) \in Nat, RefundRemaining(i)
  PROVE  TermsKept /\ MoneyToParties
<1> DEFINE b == bounty[i]
           c == [b EXCEPT !.settled = Milestones(b), !.released = TRUE, !.refunded = TRUE]
<1>1. b \in Bounty /\ i \in Issue
  BY StoredBounty
<1>2. /\ c.amounts = b.amounts /\ c.token = b.token /\ c.funder = b.funder
      /\ c.contributor = b.contributor /\ c.settled = Milestones(b)
  BY <1>1 DEF Bounty
<1>3. /\ bounty' = [bounty EXCEPT ![i] = c]
      /\ Transfer(b.token, ThisBounty, b.funder, remaining_escrow(b))
      /\ \A j \in Issue : j # i => returned'[j] = returned[j]
      /\ paid' = paid
  BY <1>1 DEF RefundRemaining, EscrowTypeOK
<1>4. b.contributor \in Address \cup {NoOne} /\ b.funder \in Account
  BY <1>1, PartyTypes DEF Bounty
<1>5. b.settled # Milestones(b)
  BY DEF SettlementInv, ReleasedMeansAllSettled
<1> HIDE DEF c
<1>6. TermsKept
  BY <1>2, <1>3, <1>4, ReplacedTerms
<1>7. bounty'[i].settled # b.settled
  BY <1>2, <1>3, <1>5
<1>8. MoneyToParties
  BY <1>3, <1>4, <1>7, SettlementMoney
<1>9. QED
  BY <1>6, <1>8

\* A payment to the contributor or a dispute's refund to the funder.
LEMMA SettledMoney ==
  ASSUME EscrowTypeOK, SettlementInv, NEW i \in DOMAIN bounty,
         NEW m \in Milestones(bounty[i]) \ bounty[i].settled,
         NEW c \in {Settle(bounty[i], {m}), Pay(bounty[i], m)},
         bounty' = [bounty EXCEPT ![i] = c],
         NEW to \in Account, Transfer(bounty[i].token, ThisBounty, to, bounty[i].amounts[m]),
         \/ /\ to = bounty[i].contributor /\ paid' = paid \cup {<<i, m>>}
         \/ /\ to = bounty[i].funder /\ paid' = paid,
         \A j \in Issue : j # i => returned'[j] = returned[j]
  PROVE  TermsKept /\ MoneyToParties
<1>1. bounty[i] \in Bounty /\ i \in Issue /\ m \in Slot /\ bounty[i].amounts[m] \in Nat
  BY StoredBounty, MilestoneTypes, RegistryConstants
<1>2. /\ c.token = bounty[i].token /\ c.funder = bounty[i].funder
      /\ c.contributor = bounty[i].contributor
      /\ c.amounts = bounty[i].amounts /\ c.settled = bounty[i].settled \cup {m}
  <2>1. PICK b : b = bounty[i]
    OBVIOUS
  <2>2. /\ b \in Bounty /\ m \in Milestones(b)
        /\ c = Settle(b, {m}) \/ c = Pay(b, m)
    BY <1>1, <2>1
  <2>3. /\ c.amounts = b.amounts /\ c.token = b.token
        /\ c.funder = b.funder /\ c.contributor = b.contributor
        /\ c.settled = b.settled \cup {m}
    BY <2>2, PayParts
  <2>4. QED
    BY <2>1, <2>3
<1>3. ~bounty[i].released /\ <<i, m>> \notin paid
  BY <1>1 DEF SettlementInv, ReleasedMeansAllSettled, PaidAreSettled
<1>4. bounty[i].contributor \in Address \cup {NoOne}
  BY <1>1 DEF Bounty
<1>5. TermsKept
  BY <1>2, <1>3, <1>4, ReplacedTerms
<1>6. bounty'[i].settled # bounty[i].settled
  BY <1>2
<1>7. to = IF \E k \in Slot : <<i, k>> \in paid' \ paid
           THEN bounty[i].contributor ELSE bounty[i].funder
  BY <1>1, <1>3
<1>8. MoneyToParties
  BY <1>1, <1>6, <1>7, SettlementMoney
<1>9. QED
  BY <1>5, <1>8

LEMMA CreateTerms ==
  ASSUME EscrowTypeOK, NEW f \in Funders, NEW t \in Token, NEW i \in Issue,
         NEW l \in MilestoneLists, create_bounty(f, t, i, l)
  PROVE  TermsKept /\ MoneyToParties
<1>1. /\ i \notin DOMAIN bounty /\ UNCHANGED returned
      /\ DOMAIN bounty' = DOMAIN bounty \cup {i}
      /\ \A j \in DOMAIN bounty : bounty'[j] = bounty[j]
  BY DEF create_bounty, Put
<1>2. TermsKept
  <2>1. \A j \in DOMAIN bounty : bounty[j].contributor \in Address \cup {NoOne}
    BY DEF EscrowTypeOK, Bounty
  <2>2. QED
    BY <1>1, <2>1 DEF TermsKept
<1>3. /\ Transfer(t, f, ThisBounty, Total(l)) /\ Total(l) \in Nat
      /\ f \in Account /\ ThisBounty \in Account /\ ThisBounty \notin Address
  BY TotalInRange, EscrowConstants, RegistryConstants DEF create_bounty, Account
<1>4. \A u \in Token, a \in Address : ~(balance'[u][a] > balance[u][a])
  <2>1. \A u \in Token, a \in Account : balance'[u][a] > balance[u][a] => a = ThisBounty
    BY <1>3, TransferRaises
  <2>2. QED
    BY <1>3, <2>1 DEF Account
<1>5. QED
  BY <1>2, <1>4 DEF MoneyToParties

LEMMA TermsStep ==
  ASSUME EscrowTypeOK, SettlementInv, [EscrowNext]_escrowVars
  PROVE  TermsKept /\ MoneyToParties
<1>1. CASE UNCHANGED <<bounty, returned, balance>>
  BY <1>1, SameTerms
<1>2. ASSUME NEW f \in Funders, NEW t \in Token, NEW i \in Issue, NEW l \in MilestoneLists,
             create_bounty(f, t, i, l)
      PROVE  TermsKept /\ MoneyToParties
  BY <1>2, CreateTerms
<1>3. ASSUME NEW i \in DOMAIN bounty, ~bounty[i].released, NEW c,
             bounty' = [bounty EXCEPT ![i] = c],
             c.amounts = bounty[i].amounts, c.token = bounty[i].token,
             c.funder = bounty[i].funder,
             c.contributor \in IF bounty[i].contributor = NoOne THEN Workers \cup {NoOne}
                               ELSE {bounty[i].contributor},
             UNCHANGED <<returned, balance>>
      PROVE  TermsKept /\ MoneyToParties
  <2>1. TermsKept
    BY <1>3, ReplacedTerms
  <2>2. \A t \in Token, a \in Address : balance[t][a] \in Nat
    BY DEF EscrowTypeOK, Account
  <2>3. QED
    BY <1>3, <2>1, <2>2 DEF MoneyToParties
<1>4. ASSUME NEW i \in Issue, NEW w \in Workers, claim(i, w)
      PROVE  TermsKept /\ MoneyToParties
  <2> DEFINE c == [bounty[i] EXCEPT !.contributor = w]
  <2>1. /\ i \in DOMAIN bounty /\ bounty[i] \in Bounty /\ ~bounty[i].released
        /\ bounty[i].contributor = NoOne
        /\ bounty' = [bounty EXCEPT ![i] = c] /\ UNCHANGED <<returned, balance>>
    BY <1>4, StoredBounty DEF claim
  <2>2. /\ c.amounts = bounty[i].amounts /\ c.token = bounty[i].token
        /\ c.funder = bounty[i].funder /\ c.contributor = w
    BY <2>1 DEF Bounty
  <2> HIDE DEF c
  <2>3. QED
    BY <1>3, <2>1, <2>2
<1>5. ASSUME NEW i \in Issue, NEW rs \in Seq(Address), NEW q \in Nat,
             apply_set_reviewers(i, rs, q)
      PROVE  TermsKept /\ MoneyToParties
  <2> DEFINE c == [bounty[i] EXCEPT !.reviewers = Members(rs), !.reviewer_quorum = q]
  <2>1. /\ i \in DOMAIN bounty /\ bounty[i] \in Bounty /\ ~bounty[i].released
        /\ UNCHANGED <<returned, balance>>
    BY <1>5, StoredBounty DEF apply_set_reviewers
  <2>2. bounty' = [bounty EXCEPT ![i] = c]
    BY <1>5, <2>1 DEF apply_set_reviewers
  <2>3. /\ c.amounts = bounty[i].amounts /\ c.token = bounty[i].token
        /\ c.funder = bounty[i].funder /\ c.contributor = bounty[i].contributor
        /\ bounty[i].contributor \in Address \cup {NoOne}
    BY <2>1 DEF Bounty
  <2> HIDE DEF c
  <2>4. QED
    BY <1>3, <2>1, <2>2, <2>3
<1>6. ASSUME NEW i \in Issue, reclaim(i) \/ apply_reclaim(i)
      PROVE  TermsKept /\ MoneyToParties
  <2>1. /\ i \in DOMAIN bounty /\ bounty[i] \in Bounty /\ ~bounty[i].released
        /\ RefundRemaining(i)
        /\ bounty[i].released_amount = 0 \/ remaining_escrow(bounty[i]) > 0
    BY <1>6, StoredBounty DEF reclaim, apply_reclaim
  <2>2. bounty[i].amount \in Nat /\ remaining_escrow(bounty[i]) \in Int
    BY <2>1, PartyTypes, RegistryConstants DEF Bounty
  <2>3. remaining_escrow(bounty[i]) \in Nat
    BY <2>1, <2>2 DEF remaining_escrow
  <2>4. QED
    BY <2>1, <2>3, RefundTerms
<1>7. ASSUME NEW i \in Issue, NEW m \in Slot, apply_release(i, m)
      PROVE  TermsKept /\ MoneyToParties
  <2>1. /\ i \in DOMAIN bounty /\ bounty[i] \in Bounty
        /\ m \in Milestones(bounty[i]) \ bounty[i].settled
        /\ bounty[i].contributor # NoOne
        /\ bounty' = [bounty EXCEPT ![i] = Pay(bounty[i], m)]
        /\ Transfer(bounty[i].token, ThisBounty, bounty[i].contributor, bounty[i].amounts[m])
        /\ paid' = paid \cup {<<i, m>>} /\ UNCHANGED returned
    BY <1>7, StoredBounty DEF apply_release
  <2>2. bounty[i].contributor \in Account
    BY <2>1, PartyTypes
  <2>3. QED
    BY <2>1, <2>2, SettledMoney
<1>8. ASSUME NEW id, ResolveByPaying(id)  PROVE TermsKept /\ MoneyToParties
  <2>0. PICK i, m : i = dispute[id].issue /\ m = dispute[id].milestone
    OBVIOUS
  <2>1. Resolvable(id, TRUE)
    BY <1>8 DEF ResolveByPaying
  <2>2. /\ i \in DOMAIN bounty /\ bounty[i] \in Bounty
        /\ m \in Milestones(bounty[i]) \ bounty[i].settled
        /\ bounty[i].contributor # NoOne
    BY <2>0, <2>1, ResolvableTypes DEF Resolvable
  <2>3. /\ bounty' = [bounty EXCEPT ![i] = Pay(bounty[i], m)]
        /\ Transfer(bounty[i].token, ThisBounty, bounty[i].contributor, bounty[i].amounts[m])
        /\ paid' = paid \cup {<<i, m>>} /\ UNCHANGED returned
    BY <1>8, <2>0 DEF ResolveByPaying
  <2>4. bounty[i].contributor \in Account
    BY <2>2, PartyTypes
  <2>5. QED
    BY <2>2, <2>3, <2>4, SettledMoney
<1>9. ASSUME NEW id, ResolveByRefunding(id)  PROVE TermsKept /\ MoneyToParties
  <2>0. PICK i, m, pay : /\ i = dispute[id].issue /\ m = dispute[id].milestone
                         /\ pay = FALSE /\ pay \in BOOLEAN
    OBVIOUS
  <2>1. Resolvable(id, pay)
    BY <1>9, <2>0 DEF ResolveByRefunding
  <2>2. /\ i \in DOMAIN bounty /\ bounty[i] \in Bounty /\ i \in Issue
        /\ m \in Milestones(bounty[i]) \ bounty[i].settled
    BY <2>0, <2>1, ResolvableTypes DEF Resolvable
  <2>3. /\ bounty' = [bounty EXCEPT ![i] = Settle(bounty[i], {m})]
        /\ Transfer(bounty[i].token, ThisBounty, bounty[i].funder, bounty[i].amounts[m])
        /\ paid' = paid
        /\ returned' = [returned EXCEPT ![i] = @ + bounty[i].amounts[m]]
    BY <1>9, <2>0 DEF ResolveByRefunding
  <2>4. \A j \in Issue : j # i => returned'[j] = returned[j]
    BY <2>2, <2>3 DEF EscrowTypeOK
  <2>5. bounty[i].funder \in Account
    BY <2>2, PartyTypes
  <2>6. QED
    BY <2>2, <2>3, <2>4, <2>5, SettledMoney
<1>10. ASSUME NEW a \in Proposable, execute_action(a)  PROVE TermsKept /\ MoneyToParties
  BY <1>5, <1>6, <1>7, <1>8, <1>9, <1>10, ExecutedActions
<1>11. CASE UserStep
  <2>1. ASSUME NEW v \in Address, NEW i \in Issue, NEW m \in Slot, NEW d \in Decision,
               submit_review(v, i, m, d)
        PROVE  UNCHANGED <<bounty, returned, balance>>
    BY <2>1 DEF submit_review
  <2>2. ASSUME NEW a \in Address, NEW i \in Issue, NEW m \in Slot, open_dispute(a, i, m)
        PROVE  UNCHANGED <<bounty, returned, balance>>
    BY <2>2 DEF open_dispute
  <2>3. ASSUME NEW v \in Address, NEW id \in 1..MaxDisputes, NEW pay \in BOOLEAN,
               vote_on_dispute(v, id, pay)
        PROVE  UNCHANGED <<bounty, returned, balance>>
    BY <2>3 DEF vote_on_dispute
  <2>4. QED
    BY <1>1, <1>2, <1>4, <1>6, <1>11, <2>1, <2>2, <2>3 DEF UserStep
<1>12. CASE \E r \in RegistryChoices : InitContract(r)
  BY <1>1, <1>12 DEF InitContract
<1>13. CASE RegistryStep
  BY <1>1, <1>13 DEF RegistryStep
<1>14. CASE UNCHANGED escrowVars
  BY <1>1, <1>14 DEF escrowVars
<1>15. QED
  BY <1>10, <1>11, <1>12, <1>13, <1>14 DEF EscrowNext

\* What was agreed is final: a closed bounty never changes, and no bounty ever
\* changes its funder, token, amounts or claimed contributor.
THEOREM AgreedTermsAreFinal == EscrowSpec => ClosedAndAgreedTermsAreFinal
<1>1. EscrowTypeOK /\ SettlementInv /\ [EscrowNext]_escrowVars => [TermsKept]_escrowVars
  BY TermsStep
<1>2. QED
  BY <1>1, SettlementCorrect, PTL
  DEF EscrowSpec, ClosedAndAgreedTermsAreFinal, TermsKept

\* No account but the funder or the claimed contributor of a bounty settled in that
\* very transaction ever receives anything.
THEOREM PartiesReceive == EscrowSpec => MoneyGoesOnlyToParties
<1>1. EscrowTypeOK /\ SettlementInv /\ [EscrowNext]_escrowVars => [MoneyToParties]_escrowVars
  BY TermsStep
<1>2. QED
  BY <1>1, SettlementCorrect, PTL
  DEF EscrowSpec, MoneyGoesOnlyToParties, MoneyToParties

-----------------------------------------------------------------------------
(* The panels of reviewers and their quorum.  That the quorum can be       *)
(* reached is about how many members a vector without duplicates has.      *)

\* A vector without duplicates has as many members as entries.
LEMMA DistinctMembers ==
  ASSUME NEW S, NEW v \in Seq(S), NoDuplicates(v)
  PROVE  IsFiniteSet(Members(v)) /\ Cardinality(Members(v)) = Len(v)
<1>1. Len(v) \in Nat /\ DOMAIN v = 1..Len(v)
  BY LenProperties
<1>2. IsFiniteSet(1..Len(v)) /\ Cardinality(1..Len(v)) = Len(v)
  <2>1. IsFiniteSet(1..Len(v))
        /\ Cardinality(1..Len(v)) = IF 1 > Len(v) THEN 0 ELSE Len(v) - 1 + 1
    BY <1>1, FS_Interval
  <2>2. QED
    BY <1>1, <2>1
<1>3. PICK f : f = [k \in 1..Len(v) |-> v[k]]
  OBVIOUS
<1>4. f \in Bijection(1..Len(v), Members(v))
  BY <1>1, <1>3 DEF Bijection, Injection, Surjection, IsInjective, Members, NoDuplicates
<1>5. ExistsBijection(1..Len(v), Members(v))
  BY <1>4 DEF ExistsBijection
<1>6. QED
  BY <1>2, <1>5, FS_Bijection

PanelKept(i) ==
  /\ i \in DOMAIN bounty
  /\ bounty'[i].reviewers = bounty[i].reviewers
  /\ bounty'[i].reviewer_quorum = bounty[i].reviewer_quorum

PanelFresh(i) ==
  /\ i \notin DOMAIN bounty
  /\ bounty'[i].reviewers = {} /\ bounty'[i].reviewer_quorum = 0

PanelReplaced(i) ==
  \E rs \in Seq(Address), q \in Nat :
    /\ NoDuplicates(rs)
    /\ IF rs = <<>> THEN q = 0 ELSE q \in 1..Len(rs)
    /\ bounty'[i].reviewers = Members(rs) /\ bounty'[i].reviewer_quorum = q

\* A step that replaces one bounty and keeps its panel.
LEMMA SamePanels ==
  ASSUME NEW i \in DOMAIN bounty, NEW c, bounty' = [bounty EXCEPT ![i] = c],
         c.reviewers = bounty[i].reviewers, c.reviewer_quorum = bounty[i].reviewer_quorum
  PROVE  \A j \in DOMAIN bounty' : PanelKept(j)
BY DEF PanelKept

LEMMA RefundPanels ==
  ASSUME EscrowTypeOK, NEW i \in DOMAIN bounty, RefundRemaining(i)
  PROVE  \A j \in DOMAIN bounty' : PanelKept(j)
<1> DEFINE b == bounty[i]
           c == [b EXCEPT !.settled = Milestones(b), !.released = TRUE, !.refunded = TRUE]
<1>1. c.reviewers = b.reviewers /\ c.reviewer_quorum = b.reviewer_quorum
  BY StoredBounty DEF Bounty
<1>2. bounty' = [bounty EXCEPT ![i] = c]
  BY DEF RefundRemaining
<1> HIDE DEF c
<1>3. QED
  BY <1>1, <1>2, SamePanels

\* No user ever changes a panel: a new bounty has none.
LEMMA UserPanels ==
  ASSUME EscrowTypeOK, UserStep \/ RegistryStep
  PROVE  \A j \in DOMAIN bounty' : PanelKept(j) \/ PanelFresh(j)
<1>1. CASE UNCHANGED bounty
  BY <1>1 DEF PanelKept
<1>2. ASSUME NEW f \in Funders, NEW t \in Token, NEW i \in Issue, NEW l \in MilestoneLists,
             create_bounty(f, t, i, l)
      PROVE  \A j \in DOMAIN bounty' : PanelKept(j) \/ PanelFresh(j)
  BY <1>2 DEF create_bounty, Put, PanelKept, PanelFresh
<1>3. ASSUME NEW i \in Issue, NEW w \in Workers, claim(i, w)
      PROVE  \A j \in DOMAIN bounty' : PanelKept(j)
  <2> DEFINE c == [bounty[i] EXCEPT !.contributor = w]
  <2>1. /\ i \in DOMAIN bounty /\ bounty[i] \in Bounty
        /\ bounty' = [bounty EXCEPT ![i] = c]
    BY <1>3, StoredBounty DEF claim
  <2>2. /\ c.reviewers = bounty[i].reviewers
        /\ c.reviewer_quorum = bounty[i].reviewer_quorum
    BY <2>1 DEF Bounty
  <2> HIDE DEF c
  <2>3. QED
    BY <2>1, <2>2, SamePanels
<1>4. ASSUME NEW i \in Issue, reclaim(i)
      PROVE  \A j \in DOMAIN bounty' : PanelKept(j)
  BY <1>4, RefundPanels DEF reclaim
<1>5. CASE UserStep
  <2>1. (\E v \in Address, i \in Issue, m \in Slot, d \in Decision :
           submit_review(v, i, m, d)) => UNCHANGED bounty
    BY DEF submit_review
  <2>2. (\E a \in Address, i \in Issue, m \in Slot : open_dispute(a, i, m))
          => UNCHANGED bounty
    BY DEF open_dispute
  <2>3. (\E v \in Address, id \in 1..MaxDisputes, pay \in BOOLEAN :
           vote_on_dispute(v, id, pay)) => UNCHANGED bounty
    BY DEF vote_on_dispute
  <2>4. QED
    BY <1>1, <1>2, <1>3, <1>4, <1>5, <2>1, <2>2, <2>3 DEF UserStep
<1>6. CASE RegistryStep
  BY <1>1, <1>6 DEF RegistryStep
<1>7. QED
  BY <1>5, <1>6

LEMMA PanelsStep ==
  ASSUME EscrowTypeOK, [EscrowNext]_escrowVars
  PROVE  \A j \in DOMAIN bounty' : PanelKept(j) \/ PanelFresh(j) \/ PanelReplaced(j)
<1>1. CASE UNCHANGED bounty
  BY <1>1 DEF PanelKept
<1>2. CASE UserStep \/ RegistryStep
  BY <1>2, UserPanels
<1>3. ASSUME NEW i \in Issue, NEW m \in Slot, apply_release(i, m)
      PROVE  \A j \in DOMAIN bounty' : PanelKept(j)
  <2>1. PICK b, c : b = bounty[i] /\ c = Pay(b, m)
    OBVIOUS
  <2>2. /\ i \in DOMAIN bounty /\ b \in Bounty /\ m \in Milestones(b)
        /\ c = Settle(b, {m}) \/ c = Pay(b, m)
        /\ bounty' = [bounty EXCEPT ![i] = c]
    BY <1>3, <2>1, StoredBounty DEF apply_release
  <2>3. c.reviewers = b.reviewers /\ c.reviewer_quorum = b.reviewer_quorum
    BY <2>2, PayParts
  <2>4. QED
    BY <2>1, <2>2, <2>3, SamePanels
<1>4. ASSUME NEW i \in Issue, apply_reclaim(i)
      PROVE  \A j \in DOMAIN bounty' : PanelKept(j)
  BY <1>4, RefundPanels DEF apply_reclaim
<1>5. ASSUME NEW i \in Issue, NEW rs \in Seq(Address), NEW q \in Nat,
             apply_set_reviewers(i, rs, q)
      PROVE  \A j \in DOMAIN bounty' : PanelKept(j) \/ PanelReplaced(j)
  <2>1. /\ i \in DOMAIN bounty /\ bounty[i] \in Bounty
        /\ bounty' = [bounty EXCEPT ![i] = [bounty[i] EXCEPT !.reviewers = Members(rs),
                                                             !.reviewer_quorum = q]]
    BY <1>5, StoredBounty DEF apply_set_reviewers
  <2>2. bounty'[i].reviewers = Members(rs) /\ bounty'[i].reviewer_quorum = q
    BY <2>1 DEF Bounty
  <2>3. PanelReplaced(i)
    BY <1>5, <2>2 DEF apply_set_reviewers, PanelReplaced
  <2>4. \A j \in DOMAIN bounty' : j # i => PanelKept(j)
    BY <2>1 DEF PanelKept
  <2>5. QED
    BY <2>3, <2>4
<1>6. ASSUME NEW id, ResolveByPaying(id) \/ ResolveByRefunding(id)
      PROVE  \A j \in DOMAIN bounty' : PanelKept(j)
  <2>1. PICK pay \in BOOLEAN : Resolvable(id, pay)
    BY <1>6 DEF ResolveByPaying, ResolveByRefunding
  <2>2. PICK i, m, b : i = dispute[id].issue /\ m = dispute[id].milestone /\ b = bounty[i]
    OBVIOUS
  <2>3. i \in DOMAIN bounty /\ b \in Bounty /\ m \in Milestones(b)
    BY <2>1, <2>2, ResolvableTypes
  <2>4. PICK c : /\ c = Settle(b, {m}) \/ c = Pay(b, m)
                 /\ bounty' = [bounty EXCEPT ![i] = c]
    BY <1>6, <2>2 DEF ResolveByPaying, ResolveByRefunding
  <2>5. c.reviewers = b.reviewers /\ c.reviewer_quorum = b.reviewer_quorum
    BY <2>3, <2>4, PayParts
  <2>6. QED
    BY <2>2, <2>3, <2>4, <2>5, SamePanels
<1>7. ASSUME NEW a \in Proposable, execute_action(a)
      PROVE  \A j \in DOMAIN bounty' : PanelKept(j) \/ PanelReplaced(j)
  BY <1>3, <1>4, <1>5, <1>6, <1>7, ExecutedActions
<1>8. CASE \E r \in RegistryChoices : InitContract(r)
  BY <1>1, <1>8 DEF InitContract
<1>9. CASE UNCHANGED escrowVars
  BY <1>1, <1>9 DEF escrowVars
<1>10. QED
  BY <1>2, <1>7, <1>8, <1>9 DEF EscrowNext

PanelsFinite == \A i \in DOMAIN bounty : IsFiniteSet(bounty[i].reviewers)

LEMMA QuorumStep ==
  ASSUME EscrowTypeOK, PanelsFinite, QuorumReachable, [EscrowNext]_escrowVars
  PROVE  PanelsFinite' /\ QuorumReachable'
<1>1. ASSUME NEW i \in DOMAIN bounty'
      PROVE  /\ IsFiniteSet(bounty'[i].reviewers)
             /\ bounty'[i].reviewer_quorum <= Cardinality(bounty'[i].reviewers)
             /\ bounty'[i].reviewer_quorum = 0 <=> bounty'[i].reviewers = {}
  <2>1. CASE PanelKept(i)
    BY <2>1 DEF PanelKept, PanelsFinite, QuorumReachable
  <2>2. CASE PanelFresh(i)
    <3>1. IsFiniteSet({}) /\ Cardinality({}) = 0
      BY FS_EmptySet
    <3>2. QED
      BY <2>2, <3>1 DEF PanelFresh
  <2>3. CASE PanelReplaced(i)
    <3>1. PICK rs \in Seq(Address), q \in Nat :
            /\ NoDuplicates(rs)
            /\ IF rs = <<>> THEN q = 0 ELSE q \in 1..Len(rs)
            /\ bounty'[i].reviewers = Members(rs) /\ bounty'[i].reviewer_quorum = q
      BY <2>3 DEF PanelReplaced
    <3>2. IsFiniteSet(Members(rs)) /\ Cardinality(Members(rs)) = Len(rs)
      BY <3>1, DistinctMembers
    <3>3. Len(rs) \in Nat /\ (rs = <<>> <=> Len(rs) = 0)
      BY LenProperties, EmptySeq
    <3>4. Len(rs) = 0 <=> Members(rs) = {}
      BY <3>2, FS_EmptySet
    <3>5. q <= Len(rs) /\ (q = 0 <=> Len(rs) = 0)
      BY <3>1, <3>3
    <3>6. QED
      BY <3>1, <3>2, <3>4, <3>5
  <2>4. QED
    BY <2>1, <2>2, <2>3, PanelsStep
<1>2. QED
  BY <1>1 DEF PanelsFinite, QuorumReachable

LEMMA PanelsInvariant == EscrowSpec => [](PanelsFinite /\ QuorumReachable)
<1>1. EscrowInit => PanelsFinite /\ QuorumReachable
  BY DEF EscrowInit, PanelsFinite, QuorumReachable
<1>2. EscrowTypeOK /\ PanelsFinite /\ QuorumReachable /\ [EscrowNext]_escrowVars
        => (PanelsFinite /\ QuorumReachable)'
  BY QuorumStep
<1>3. QED
  BY <1>1, <1>2, EscrowTypeCorrect, PTL DEF EscrowSpec

\* No panel is ever asked for more approvals than it has members, and no panel with
\* members decides without any of them.
THEOREM QuorumIsReachable == EscrowSpec => []QuorumReachable
BY PanelsInvariant, PTL

-----------------------------------------------------------------------------
(* What a step leaves of the records that the registry's entries rest on.  *)

\* Stored reviews and decided disputes are never rewritten.
RecordsKept ==
  /\ \A k \in DOMAIN review : k \in DOMAIN review' /\ review'[k] = review[k]
  /\ \A id \in DOMAIN dispute :
       /\ id \in DOMAIN dispute'
       /\ dispute'[id].issue = dispute[id].issue
       /\ dispute'[id].milestone = dispute[id].milestone
       /\ dispute'[id].opener = dispute[id].opener
       /\ dispute[id].resolved =>
            /\ dispute'[id].resolved
            /\ dispute'[id].pay_contributor = dispute[id].pay_contributor

LEMMA ResolutionKeeps ==
  ASSUME EscrowTypeOK, NEW id, NEW pay \in BOOLEAN, Resolvable(id, pay),
         ResolutionRecorded(id, pay), UNCHANGED review
  PROVE  /\ RecordsKept
         /\ id \in DOMAIN dispute'
         /\ dispute'[id].issue = dispute[id].issue
         /\ dispute'[id].milestone = dispute[id].milestone
         /\ dispute'[id].opener = dispute[id].opener
         /\ dispute'[id].resolved /\ dispute'[id].pay_contributor = pay
<1>1. id \in DOMAIN dispute /\ dispute[id] \in Dispute /\ ~dispute[id].resolved
  BY ResolvableTypes DEF Resolvable
<1>2. /\ DOMAIN dispute' = DOMAIN dispute
      /\ \A k \in DOMAIN dispute \ {id} : dispute'[k] = dispute[k]
  BY DEF ResolutionRecorded
<1>3. /\ dispute'[id].issue = dispute[id].issue
      /\ dispute'[id].milestone = dispute[id].milestone
      /\ dispute'[id].opener = dispute[id].opener
      /\ dispute'[id].resolved /\ dispute'[id].pay_contributor = pay
  BY <1>1 DEF ResolutionRecorded, Dispute
<1>4. RecordsKept
  BY <1>1, <1>2, <1>3 DEF RecordsKept
<1>5. QED
  BY <1>1, <1>2, <1>3, <1>4

LEMMA RecordsStep ==
  ASSUME EscrowTypeOK, [EscrowNext]_escrowVars
  PROVE  RecordsKept
<1>1. CASE UNCHANGED <<review, dispute>>
  BY <1>1 DEF RecordsKept
<1>2. ASSUME NEW v \in Address, NEW i \in Issue, NEW m \in Slot, NEW d \in Decision,
             submit_review(v, i, m, d)
      PROVE  RecordsKept
  BY <1>2 DEF submit_review, Put, RecordsKept
<1>3. ASSUME NEW a \in Address, NEW i \in Issue, NEW m \in Slot, open_dispute(a, i, m)
      PROVE  RecordsKept
  <2>0. PICK d : /\ d \in Dispute /\ dispute' = Append(dispute, d)
    <3>1. [issue |-> i, milestone |-> m, opener |-> a,
           votes_pay_contributor |-> 0, votes_refund_funder |-> 0,
           resolved |-> FALSE, pay_contributor |-> FALSE] \in Dispute
      BY DEF Dispute
    <3>2. QED
      BY <1>3, <3>1 DEF open_dispute
  <2>1. dispute \in Seq(Dispute)
    BY DEF EscrowTypeOK
  <2>2. /\ DOMAIN dispute = 1..Len(dispute) /\ Len(dispute) \in Nat
        /\ DOMAIN dispute' = 1..(Len(dispute) + 1)
        /\ \A id \in 1..Len(dispute) : dispute'[id] = dispute[id]
    BY <2>0, <2>1, AppendProperties, LenProperties
  <2>3. UNCHANGED review
    BY <1>3 DEF open_dispute
  <2>4. QED
    BY <2>2, <2>3 DEF RecordsKept
<1>4. ASSUME NEW v \in Address, NEW id \in 1..MaxDisputes, NEW pay \in BOOLEAN,
             vote_on_dispute(v, id, pay)
      PROVE  RecordsKept
  <2>1. id \in DOMAIN dispute /\ dispute[id] \in Dispute
    BY <1>4, StoredDispute DEF vote_on_dispute
  <2>2. /\ DOMAIN dispute' = DOMAIN dispute /\ UNCHANGED review
        /\ \A k \in DOMAIN dispute \ {id} : dispute'[k] = dispute[k]
    BY <1>4 DEF vote_on_dispute
  <2>3. /\ dispute'[id].issue = dispute[id].issue
        /\ dispute'[id].milestone = dispute[id].milestone
        /\ dispute'[id].opener = dispute[id].opener
        /\ dispute'[id].resolved = dispute[id].resolved
        /\ dispute'[id].pay_contributor = dispute[id].pay_contributor
    BY <1>4, <2>1 DEF vote_on_dispute, Dispute
  <2>4. QED
    BY <2>2, <2>3 DEF RecordsKept
<1>5. ASSUME NEW id, ResolveByPaying(id) \/ ResolveByRefunding(id)
      PROVE  RecordsKept
  <2>1. PICK pay \in BOOLEAN : Resolvable(id, pay) /\ ResolutionRecorded(id, pay)
    BY <1>5 DEF ResolveByPaying, ResolveByRefunding
  <2>2. UNCHANGED review
    BY <1>5 DEF ResolveByPaying, ResolveByRefunding
  <2>3. QED
    BY <2>1, <2>2, ResolutionKeeps
<1>6. ASSUME NEW a \in Proposable, execute_action(a)  PROVE RecordsKept
  <2>1. (\E i \in Issue, m \in Slot : apply_release(i, m)) => UNCHANGED <<review, dispute>>
    BY DEF apply_release
  <2>2. (\E i \in Issue : apply_reclaim(i)) => UNCHANGED <<review, dispute>>
    BY DEF apply_reclaim, RefundRemaining
  <2>3. (\E i \in Issue, rs \in Seq(Address), q \in Nat : apply_set_reviewers(i, rs, q))
          => UNCHANGED <<review, dispute>>
    BY DEF apply_set_reviewers
  <2>4. QED
    BY <1>1, <1>5, <1>6, <2>1, <2>2, <2>3, ExecutedActions
<1>7. CASE UserStep
  <2>1. (\E f \in Funders, t \in Token, i \in Issue, l \in MilestoneLists :
           create_bounty(f, t, i, l)) => UNCHANGED <<review, dispute>>
    BY DEF create_bounty
  <2>2. (\E i \in Issue, w \in Workers : claim(i, w)) => UNCHANGED <<review, dispute>>
    BY DEF claim
  <2>3. (\E i \in Issue : reclaim(i)) => UNCHANGED <<review, dispute>>
    BY DEF reclaim, RefundRemaining
  <2>4. QED
    BY <1>1, <1>2, <1>3, <1>4, <1>7, <2>1, <2>2, <2>3 DEF UserStep
<1>8. CASE \E r \in RegistryChoices : InitContract(r)
  BY <1>1, <1>8 DEF InitContract
<1>9. CASE RegistryStep
  BY <1>1, <1>9 DEF RegistryStep
<1>10. CASE UNCHANGED escrowVars
  BY <1>1, <1>10 DEF escrowVars
<1>11. QED
  BY <1>6, <1>7, <1>8, <1>9, <1>10 DEF EscrowNext

\* No user initialises the contract or pays a contributor.
LEMMA UserConfig ==
  ASSUME UserStep \/ RegistryStep
  PROVE  UNCHANGED <<config, paid>>
<1>1. (\E f \in Funders, t \in Token, i \in Issue, l \in MilestoneLists :
         create_bounty(f, t, i, l)) => UNCHANGED <<config, paid>>
  BY DEF create_bounty
<1>2. (\E i \in Issue, w \in Workers : claim(i, w)) => UNCHANGED <<config, paid>>
  BY DEF claim
<1>3. (\E i \in Issue : reclaim(i)) => UNCHANGED <<config, paid>>
  BY DEF reclaim, RefundRemaining
<1>4. (\E v \in Address, i \in Issue, m \in Slot, d \in Decision :
         submit_review(v, i, m, d)) => UNCHANGED <<config, paid>>
  BY DEF submit_review
<1>5. (\E a \in Address, i \in Issue, m \in Slot : open_dispute(a, i, m))
        => UNCHANGED <<config, paid>>
  BY DEF open_dispute
<1>6. (\E v \in Address, id \in 1..MaxDisputes, pay \in BOOLEAN :
         vote_on_dispute(v, id, pay)) => UNCHANGED <<config, paid>>
  BY DEF vote_on_dispute
<1>7. RegistryStep => UNCHANGED <<config, paid>>
  BY DEF RegistryStep
<1>8. QED
  BY <1>1, <1>2, <1>3, <1>4, <1>5, <1>6, <1>7 DEF UserStep

\* The contract is initialised once, before anything else happens to it.
LEMMA ConfigStep ==
  ASSUME [EscrowNext]_escrowVars
  PROVE  \/ config' = config /\ (config = "uninitialised" => paid' = paid)
         \/ config = "uninitialised" /\ UNCHANGED <<bounty, paid, reg>>
<1>1. CASE \E r \in RegistryChoices : InitContract(r)
  BY <1>1 DEF InitContract
<1>2. CASE UserStep \/ RegistryStep
  BY <1>2, UserConfig
<1>3. ASSUME NEW a \in Proposable, config # "uninitialised", execute_action(a)
      PROVE  config' = config /\ config # "uninitialised"
  <2>1. (\E i \in Issue, m \in Slot : apply_release(i, m)) => UNCHANGED config
    BY DEF apply_release
  <2>2. (\E i \in Issue : apply_reclaim(i)) => UNCHANGED config
    BY DEF apply_reclaim, RefundRemaining
  <2>3. (\E i \in Issue, rs \in Seq(Address), q \in Nat : apply_set_reviewers(i, rs, q))
          => UNCHANGED config
    BY DEF apply_set_reviewers
  <2>4. (\E id : ResolveByPaying(id)) => UNCHANGED config
    BY DEF ResolveByPaying
  <2>5. (\E id : ResolveByRefunding(id)) => UNCHANGED config
    BY DEF ResolveByRefunding
  <2>6. QED
    BY <1>3, <2>1, <2>2, <2>3, <2>4, <2>5, ExecutedActions
<1>4. CASE UNCHANGED escrowVars
  BY <1>4 DEF escrowVars
<1>5. QED
  BY <1>1, <1>2, <1>3, <1>4 DEF EscrowNext

-----------------------------------------------------------------------------
(* What a payment writes in the registry.                                  *)

\* The entries after the writes of one payment: r is the registry then.
PayoutEntries(r, i, m) ==
  LET c == bounty[i].contributor
  IN  /\ <<c, i, m>> \notin reg.credited
      /\ r.credited = reg.credited \cup {<<c, i, m>>}
      /\ r.review_credited =
           reg.review_credited \cup ReviewGuards(Reviewed(i, m, "Approve"), i, m)
      /\ \A a \in Address : r.rep[a].payout_total =
           IF a = c THEN SatAdd(reg.rep[a].payout_total, bounty[i].amounts[m])
           ELSE reg.rep[a].payout_total

LEMMA PayoutReputationParts ==
  ASSUME EscrowTypeOK, NEW i \in DOMAIN bounty, NEW m \in Milestones(bounty[i]),
         bounty[i].contributor # NoOne, PayoutReputationAllowed(i, m),
         NEW r, r = PayoutReputation(reg, i, m)
  PROVE  IF config = "with registry" THEN PayoutEntries(r, i, m) ELSE SamePayouts(reg, r)
<1>1. PICK c, n, vs : /\ c = bounty[i].contributor /\ n = bounty[i].amounts[m]
                      /\ vs = Reviewed(i, m, "Approve")
  OBVIOUS
<1>2. c \in Address /\ n \in 0..MaxI128 /\ i \in Issue /\ m \in Slot /\ reg \in RegistryState
  <2>1. i \in Issue /\ bounty[i] \in Bounty
    BY StoredBounty
  <2>2. bounty[i].contributor \in Address
    BY <2>1, PartyTypes
  <2>3. m \in Slot /\ bounty[i].amounts[m] \in 0..MaxI128
    BY <2>1, MilestoneTypes, RegistryConstants
  <2>4. reg \in RegistryState
    BY DEF EscrowTypeOK, RegTypeOK
  <2>5. QED
    BY <1>1, <2>1, <2>2, <2>3, <2>4
<1>3. CASE config = "with registry"
  <2>1. PICK q : q = Recorded(reg, c, i, m, n)
    OBVIOUS
  <2>2. r = ReviewsRecorded(q, vs, i, m)
    BY <1>1, <1>3, <2>1 DEF PayoutReputation
  <2>3. <<c, i, m>> \notin reg.credited
    BY <1>1, <1>3 DEF PayoutReputationAllowed, RecordAllowed
  <2>4. q \in RegistryState
    BY <1>2, <2>1, RecordedType
  <2>5. /\ q.credited = reg.credited \cup {<<c, i, m>>}
        /\ q.review_credited = reg.review_credited
        /\ q.rep[c].payout_total = SatAdd(reg.rep[c].payout_total, n)
        /\ \A b \in Address \ {c} : q.rep[b] = reg.rep[b]
    BY <1>2, <2>1, RecordedParts
  <2>6. /\ r.credited = q.credited
        /\ r.review_credited = q.review_credited \cup ReviewGuards(vs, i, m)
        /\ \A a \in Address : r.rep[a].payout_total = q.rep[a].payout_total
    BY <2>2, <2>4, ReviewsRecordedParts
  <2>7. ASSUME NEW a \in Address
        PROVE  r.rep[a].payout_total = IF a = c THEN SatAdd(reg.rep[a].payout_total, n)
                                       ELSE reg.rep[a].payout_total
    BY <2>5, <2>6
  <2>8. QED
    BY <1>1, <1>3, <2>3, <2>5, <2>6, <2>7 DEF PayoutEntries
<1>4. CASE config # "with registry"
  BY <1>4 DEF PayoutReputation, SamePayouts
<1>5. QED
  BY <1>3, <1>4

\* A payment of milestone m of bounty i, by a release or by a resolution.
Payment(i, m) ==
  /\ bounty[i].contributor # NoOne
  /\ paid' = paid \cup {<<i, m>>}
  /\ UNCHANGED <<config, review>>
  /\ IF config = "with registry" THEN PayoutEntries(reg', i, m) ELSE SamePayouts(reg, reg')

LEMMA PaymentStep ==
  ASSUME EscrowTypeOK, [EscrowNext]_escrowVars
  PROVE  \/ paid' = paid /\ (Caller = {ThisBounty} => SamePayouts(reg, reg'))
         \/ \E i \in DOMAIN bounty : \E m \in Milestones(bounty[i]) : Payment(i, m)
<1>1. ASSUME NEW i \in Issue, NEW m \in Slot, apply_release(i, m)
      PROVE  \E j \in DOMAIN bounty : \E k \in Milestones(bounty[j]) : Payment(j, k)
  <2>1. /\ i \in DOMAIN bounty /\ m \in Milestones(bounty[i])
        /\ bounty[i].contributor # NoOne
        /\ PayoutReputationAllowed(i, m) /\ reg' = PayoutReputation(reg, i, m)
        /\ paid' = paid \cup {<<i, m>>} /\ UNCHANGED <<config, review>>
    BY <1>1 DEF apply_release
  <2>2. IF config = "with registry" THEN PayoutEntries(reg', i, m) ELSE SamePayouts(reg, reg')
    BY <2>1, PayoutReputationParts
  <2>3. QED
    BY <2>1, <2>2 DEF Payment
<1>2. ASSUME NEW id, ResolveByPaying(id)
      PROVE  \E j \in DOMAIN bounty : \E k \in Milestones(bounty[j]) : Payment(j, k)
  <2>1. PICK d, i, m, q : /\ d = dispute[id] /\ i = d.issue /\ m = d.milestone
                          /\ q = PayoutReputation(reg, i, m)
    OBVIOUS
  <2>2. /\ d \in Dispute /\ i \in DOMAIN bounty /\ m \in Milestones(bounty[i])
        /\ bounty[i].contributor # NoOne
        /\ PayoutReputationAllowed(i, m) /\ DisputeReputationAllowed(d, TRUE)
        /\ reg' = DisputeReputation(q, d, TRUE)
        /\ paid' = paid \cup {<<i, m>>} /\ UNCHANGED <<config, review>>
    BY <1>2, <2>1, ResolvableTypes DEF ResolveByPaying, Resolvable
  <2>3. q \in RegistryState /\ q.dispute_credited = reg.dispute_credited
    BY <2>1, <2>2, PayoutReputationEffect
  <2>4. IF config = "with registry" THEN PayoutEntries(q, i, m) ELSE SamePayouts(reg, q)
    BY <2>1, <2>2, PayoutReputationParts
  <2>5. SamePayouts(q, reg')
    BY <2>1, <2>2, <2>3, DisputeReputationEffect
  <2>6. IF config = "with registry" THEN PayoutEntries(reg', i, m) ELSE SamePayouts(reg, reg')
    BY <2>4, <2>5 DEF PayoutEntries, SamePayouts
  <2>7. QED
    BY <2>2, <2>6 DEF Payment
<1>3. ASSUME NEW id, ResolveByRefunding(id)
      PROVE  paid' = paid /\ SamePayouts(reg, reg')
  <2>1. PICK d : d = dispute[id]
    OBVIOUS
  <2>2. /\ d \in Dispute /\ d.issue \in DOMAIN bounty
        /\ DisputeReputationAllowed(d, FALSE)
        /\ reg' = DisputeReputation(reg, d, FALSE) /\ paid' = paid
        /\ reg \in RegistryState
    BY <1>3, <2>1, ResolvableTypes
    DEF ResolveByRefunding, Resolvable, EscrowTypeOK, RegTypeOK
  <2>3. QED
    BY <2>2, DisputeReputationEffect
<1>4. paid' = paid /\ reg' = reg => paid' = paid /\ SamePayouts(reg, reg')
  BY DEF SamePayouts
<1>5. ASSUME NEW a \in Proposable, execute_action(a)
      PROVE  \/ paid' = paid /\ SamePayouts(reg, reg')
             \/ \E i \in DOMAIN bounty : \E m \in Milestones(bounty[i]) : Payment(i, m)
  <2>1. (\E i \in Issue : apply_reclaim(i)) => paid' = paid /\ reg' = reg
    BY DEF apply_reclaim, RefundRemaining
  <2>2. (\E i \in Issue, rs \in Seq(Address), q \in Nat : apply_set_reviewers(i, rs, q))
          => paid' = paid /\ reg' = reg
    BY DEF apply_set_reviewers
  <2>3. QED
    BY <1>1, <1>2, <1>3, <1>4, <1>5, <2>1, <2>2, ExecutedActions
<1>6. UserStep => paid' = paid /\ reg' = reg
  BY DEF UserStep, create_bounty, claim, reclaim, RefundRemaining, submit_review,
         open_dispute, vote_on_dispute
<1>7. (\E r \in RegistryChoices : InitContract(r)) => paid' = paid /\ reg' = reg
  BY DEF InitContract
<1>8. RegistryStep => paid' = paid /\ (Caller = {ThisBounty} => SamePayouts(reg, reg'))
  <2>1. SUFFICES ASSUME RegistryStep, Caller = {ThisBounty}
                 PROVE  SamePayouts(reg, reg')
    BY DEF RegistryStep
  <2>2. Administer
    BY <2>1 DEF RegistryStep
  <2>3. reg'.credited = reg.credited /\ reg'.review_credited = reg.review_credited
        /\ reg'.rep = reg.rep
    BY <2>2 DEF EscrowTypeOK, RegTypeOK, Administer, RegistryInit, SetAllowedCaller,
                RegistryState
  <2>4. QED
    BY <2>3 DEF SamePayouts
<1>9. UNCHANGED escrowVars => paid' = paid /\ reg' = reg
  BY DEF escrowVars
<1>10. QED
  BY <1>4, <1>5, <1>6, <1>7, <1>8, <1>9 DEF EscrowNext

-----------------------------------------------------------------------------
(* No payment without its credit, whoever else writes to the registry.     *)

\* Only a claimed bounty of an initialised contract has been paid.
PaidAreClaimed ==
  /\ config = "uninitialised" => paid = {}
  /\ \A k \in paid : k[1] \in DOMAIN bounty /\ bounty[k[1]].contributor # NoOne

\* Contributors do not change once something was paid to them.
LEMMA PaidKeepContributor ==
  ASSUME PaidAreClaimed, TermsKept, NEW k \in paid
  PROVE  /\ k[1] \in DOMAIN bounty'
         /\ bounty'[k[1]].contributor = bounty[k[1]].contributor
         /\ bounty'[k[1]].amounts = bounty[k[1]].amounts
BY DEF PaidAreClaimed, TermsKept

LEMMA ClaimedStep ==
  ASSUME EscrowTypeOK, SettlementInv, PaidAreClaimed, [EscrowNext]_escrowVars
  PROVE  PaidAreClaimed'
<1>1. TermsKept
  BY TermsStep
<1>2. config' = "uninitialised" => paid' = {}
  BY ConfigStep DEF PaidAreClaimed
<1>3. ASSUME NEW k \in paid'
      PROVE  k[1] \in DOMAIN bounty' /\ bounty'[k[1]].contributor # NoOne
  <2>1. CASE k \in paid
    BY <1>1, <2>1, PaidKeepContributor DEF PaidAreClaimed
  <2>2. CASE k \notin paid
    <3>1. PICK i \in DOMAIN bounty : \E m \in Milestones(bounty[i]) : Payment(i, m)
      BY <1>3, <2>2, PaymentStep
    <3>2. PICK m : Payment(i, m)
      BY <3>1
    <3>3. bounty[i].contributor # NoOne /\ k = <<i, m>>
      BY <1>3, <2>2, <3>2 DEF Payment
    <3>4. i \in DOMAIN bounty' /\ bounty'[i].contributor = bounty[i].contributor
      BY <1>1, <3>3 DEF TermsKept
    <3>5. QED
      BY <3>3, <3>4
  <2>3. QED
    BY <2>1, <2>2
<1>4. QED
  BY <1>2, <1>3 DEF PaidAreClaimed

LEMMA CreditsStep ==
  ASSUME EscrowTypeOK, SettlementInv, PaidAreClaimed, PayoutsAreCredited,
         [EscrowNext]_escrowVars
  PROVE  PayoutsAreCredited'
<1>1. TermsKept /\ Keeps(reg, reg')
  BY TermsStep, RegistryEffect
<1>2. ASSUME config' = "with registry", NEW k \in paid'
      PROVE  <<bounty'[k[1]].contributor, k[1], k[2]>> \in reg'.credited
  <2>1. CASE k \in paid
    <3>1. config = "with registry"
      BY <1>2, <2>1, ConfigStep DEF PaidAreClaimed
    <3>2. <<bounty[k[1]].contributor, k[1], k[2]>> \in reg'.credited
      BY <1>1, <2>1, <3>1 DEF PayoutsAreCredited, Keeps
    <3>3. QED
      BY <1>1, <2>1, <3>2, PaidKeepContributor
  <2>2. CASE k \notin paid
    <3>1. PICK i \in DOMAIN bounty, m \in Slot : Payment(i, m)
      BY <1>2, <2>2, PaymentStep, MilestoneTypes, StoredBounty
    <3>2. k = <<i, m>> /\ bounty[i].contributor # NoOne /\ config = "with registry"
      BY <1>2, <2>2, <3>1 DEF Payment
    <3>3. <<bounty[i].contributor, i, m>> \in reg'.credited
      BY <3>1, <3>2 DEF Payment, PayoutEntries
    <3>4. bounty'[i].contributor = bounty[i].contributor
      BY <1>1, <3>2 DEF TermsKept
    <3>5. QED
      BY <3>2, <3>3, <3>4
  <2>3. QED
    BY <2>1, <2>2
<1>3. QED
  BY <1>2 DEF PayoutsAreCredited

\* Nothing is ever paid out for a bounty that nobody had claimed.
THEOREM PaidClaims == EscrowSpec => []PaidAreClaimed
<1>1. EscrowInit => PaidAreClaimed
  BY DEF EscrowInit, PaidAreClaimed
<1>2. EscrowTypeOK /\ SettlementInv /\ PaidAreClaimed /\ [EscrowNext]_escrowVars
        => PaidAreClaimed'
  BY ClaimedStep
<1>3. QED
  BY <1>1, <1>2, SettlementCorrect, PTL DEF EscrowSpec

\* Once the contract runs with a registry, every payment has its credit there, for
\* ever: whatever other contracts write to the registry and its admin does.
THEOREM PaymentsAreCredited == EscrowSpec => []PayoutsAreCredited
<1>1. EscrowInit => PayoutsAreCredited
  BY DEF EscrowInit, PayoutsAreCredited
<1>2. /\ EscrowTypeOK /\ SettlementInv /\ PaidAreClaimed /\ PayoutsAreCredited
      /\ [EscrowNext]_escrowVars
      => PayoutsAreCredited'
  BY CreditsStep
<1>3. QED
  BY <1>1, <1>2, SettlementCorrect, PaidClaims, PTL DEF EscrowSpec
=============================================================================
