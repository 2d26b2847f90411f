--------------------------- MODULE IndexerProofs ---------------------------
(***************************************************************************)
(* The indexer skips nothing, for any number of passes in any number of    *)
(* processes, any ledgers, page limit, failures and crashes.               *)
(*                                                                         *)
(* The argument is about prefixes: below a position that a pass knows of,  *)
(* its cursor or an event that it found, every event in scope is stored or *)
(* among what the pass has found.  The chain only grows at its end and the *)
(* log only grows, so that this stays true however late the pass goes on.  *)
(***************************************************************************)
EXTENDS Indexer, FiniteSetTheorems, WellFoundedInduction, TLAPS

\* A set of naturals with a bound has a largest member.
LEMMA MaxExists ==
  ASSUME NEW n \in Nat, NEW S \in SUBSET (0..n), S # {}
  PROVE  Max(S) \in S /\ \A x \in S : x <= Max(S)
<1> DEFINE T == {n - x : x \in S}
<1>1. T \subseteq Nat /\ T # {}
  <2>1. \A x \in S : n - x \in Nat
    OBVIOUS
  <2>2. QED
    BY <2>1
<1>2. PICK y \in T : \A z \in T : ~(<<z, y>> \in OpToRel(<, Nat))
  BY <1>1, WFMin, NatLessThanWellFounded
<1>3. \A z \in T : ~(z < y)
  BY <1>1, <1>2 DEF OpToRel
<1>4. PICK x \in S : y = n - x
  BY <1>2
<1>5. \A w \in S : x >= w
  <2> SUFFICES ASSUME NEW w \in S PROVE x >= w
    OBVIOUS
  <2>1. n - w \in T
    OBVIOUS
  <2>2. ~(n - w < n - x)
    BY <1>3, <1>4, <2>1
  <2>3. w \in 0..n /\ x \in 0..n
    OBVIOUS
  <2>4. QED
    BY <2>2, <2>3
<1>6. Max(S) \in S /\ \A w \in S : Max(S) >= w
  BY <1>5 DEF Max
<1>7. QED
  BY <1>6

-----------------------------------------------------------------------------
(* The invariant.                                                          *)

\* As long as the first pass cannot have come too late.
InTime == StartLedger = 0 => latest <= Window

\* The definitions below are about a chain c and a log l, so that they can be
\* compared before and after a step.
Wanted(i, c) == i \in DOMAIN c /\ c[i].kind = "event" /\ c[i].ledger >= StartLedger

\* Up to j, everything that is wanted is in S.
Covered(S, j, c) == \A i \in 1..j : Wanted(i, c) => i \in S

\* Positions at or after the start ledger, and none.
Position(c) == {0} \cup {i \in DOMAIN c : c[i].ledger >= StartLedger}

ChainOK ==
  /\ chain \in Seq([ledger: Nat \ {0}, kind: Kind])
  /\ latest \in Nat
  /\ \A i \in DOMAIN chain : chain[i].ledger <= latest
  /\ \A i, j \in DOMAIN chain : i <= j => chain[i].ledger <= chain[j].ledger

Steps == {"idle", "asked", "answered"} \cup Running

PassType ==
  [step: Steps, after: Nat, from: Nat, found: SUBSET Nat, next: Nat, at: Nat, rows: SUBSET Nat]

\* What a pass that has asked relies on, and one that has its answer.
Asked(r, c, l) ==
  /\ r.after \in Position(c) /\ Covered(l, r.after, c)
  /\ r.after = 0 => r.from >= StartLedger /\ (r.from <= StartLedger \/ r.from <= 1)

Answered(r, c, l) ==
  /\ r.found \subseteq Position(c) \ {0}
  /\ r.next \in Position(c)
  /\ \A j \in r.found \cup {r.next} : Covered(l \cup r.found, j, c)

PassOK(r, c, l) ==
  /\ r.step = "asked" => Asked(r, c, l)
  /\ r.step \notin {"idle", "asked"} => Answered(r, c, l)
  /\ r.step \in Running => r.found \subseteq l

LogOK(c, l) ==
  /\ l \subseteq Position(c) \ {0}
  /\ \A j \in l : Covered(l, j, c)

CursorOK(k, c, l) == k \in Position(c) /\ Covered(l, k, c)

CursorInv ==
  /\ ChainOK
  /\ pass \in [Pass -> PassType]
  /\ log \subseteq Nat /\ cursor \in Nat
  /\ InTime => /\ LogOK(chain, log)
               /\ CursorOK(cursor, chain, log)
               /\ \A p \in Pass : PassOK(pass[p], chain, log)

LEMMA InvImpliesNothingSkipped == CursorInv => NothingSkipped
<1> SUFFICES ASSUME CursorInv, NEW j \in log \cup {cursor}, NEW i \in 1..(j - 1),
                    IsEvent(i), InScope(i)
             PROVE  i \in log
  BY DEF NothingSkipped
<1>1. InTime
  BY DEF InScope, InTime
<1>2. Covered(log, j, chain) /\ j \in Nat
  BY <1>1 DEF CursorInv, LogOK, CursorOK
<1>3. i \in 1..j
  BY <1>2
<1>4. Wanted(i, chain)
  BY DEF Wanted, IsEvent, InScope
<1>5. QED
  BY <1>2, <1>3, <1>4 DEF Covered

-----------------------------------------------------------------------------
(* What is known stays known.                                              *)

Extends(c, d) ==
  /\ DOMAIN c \subseteq DOMAIN d
  /\ \A i \in DOMAIN c : d[i] = c[i]
  /\ \A i \in DOMAIN d \ DOMAIN c : \A j \in DOMAIN c : ~(i <= j)

LEMMA PositionStays ==
  ASSUME NEW c, NEW d, Extends(c, d)
  PROVE  Position(c) \subseteq Position(d)
BY DEF Position, Extends

LEMMA CoveredStays ==
  ASSUME NEW c, NEW d, Extends(c, d), NEW S, NEW T, S \subseteq T,
         NEW j \in Position(c), Covered(S, j, c)
  PROVE  Covered(T, j, d)
<1> SUFFICES ASSUME NEW i \in 1..j, Wanted(i, d) PROVE i \in T
  BY DEF Covered
<1>1. j # 0
  OBVIOUS
<1>2. j \in DOMAIN c
  BY <1>1 DEF Position
<1>3. i \in DOMAIN c
  BY <1>2 DEF Extends, Wanted
<1>4. Wanted(i, c)
  BY <1>3 DEF Wanted, Extends
<1>5. QED
  BY <1>4 DEF Covered

LEMMA PassStays ==
  ASSUME NEW c, NEW d, Extends(c, d), NEW l, NEW m, l \subseteq m,
         NEW r, PassOK(r, c, l)
  PROVE  PassOK(r, d, m)
<1>1. Asked(r, c, l) => Asked(r, d, m)
  BY PositionStays, CoveredStays DEF Asked
<1>2. Answered(r, c, l) => Answered(r, d, m)
  <2> SUFFICES ASSUME Answered(r, c, l) PROVE Answered(r, d, m)
    OBVIOUS
  <2>1. r.found \subseteq Position(d) \ {0} /\ r.next \in Position(d)
    BY PositionStays DEF Answered
  <2>2. ASSUME NEW j \in r.found \cup {r.next}
        PROVE  Covered(m \cup r.found, j, d)
    <3>1. j \in Position(c) /\ Covered(l \cup r.found, j, c)
      BY DEF Answered
    <3>2. l \cup r.found \subseteq m \cup r.found
      OBVIOUS
    <3>3. QED
      BY <3>1, <3>2, CoveredStays
  <2>3. QED
    BY <2>1, <2>2 DEF Answered
<1>3. QED
  BY <1>1, <1>2 DEF PassOK

LEMMA SameChainExtends == ASSUME NEW c PROVE Extends(c, c)
BY DEF Extends

\* One pass goes on; the chain and the log at most grow.
LEMMA PassGoes ==
  ASSUME CursorInv, InTime, Extends(chain, chain'), log \subseteq log',
         NEW p \in Pass, NEW to, PassOK(to, chain', log'), Goto(p, to)
  PROVE  \A q \in Pass : PassOK(pass'[q], chain', log')
<1> SUFFICES ASSUME NEW q \in Pass PROVE PassOK(pass'[q], chain', log')
  OBVIOUS
<1>1. pass'[q] = IF q = p THEN to ELSE pass[q]
  BY DEF Goto, CursorInv
<1>2. PassOK(pass[q], chain', log')
  BY PassStays DEF CursorInv
<1>3. QED
  BY <1>1, <1>2

LEMMA IdlePass == Idle \in PassType /\ Idle.step = "idle"
BY DEF Idle, PassType, Steps

LEMMA IdleKnowsNothing ==
  ASSUME NEW c, NEW l, NEW r, r.step = "idle"
  PROVE  PassOK(r, c, l)
BY DEF PassOK, Running

-----------------------------------------------------------------------------
(* The page of an answer.                                                  *)

LEMMA ChainRow ==
  ASSUME ChainOK, NEW i \in DOMAIN chain
  PROVE  /\ chain[i].ledger \in Nat /\ chain[i].ledger # 0 /\ chain[i].kind \in Kind
         /\ i \in Nat \ {0}
<1> DEFINE Row == [ledger: Nat \ {0}, kind: Kind]
<1>1. chain \in Seq(Row)
  BY DEF ChainOK
<1>2. DOMAIN chain = 1..Len(chain) /\ Len(chain) \in Nat
  BY <1>1
<1>3. chain[i] \in Row
  <2> HIDE DEF Row
  <2>1. QED
    BY <1>1, <1>2
<1>4. QED
  BY <1>2, <1>3

\* Nothing that getEvents could have given is left out before an event of the page.
LEMMA PageIsPrefix ==
  ASSUME ChainOK, NEW after, NEW from, NEW i \in Page(after, from),
         NEW k \in DOMAIN chain, k < i, k > after,
         after = 0 => chain[k].ledger >= from
  PROVE  k \in Page(after, from)
<1> DEFINE matching == {n \in DOMAIN chain :
                          n > after /\ (after = 0 => chain[n].ledger >= from)}
           A == {n \in matching : n < k}
           B == {n \in matching : n < i}
<1>1. i \in matching /\ Cardinality(B) < PageLimit
  BY DEF Page
<1>2. DOMAIN chain = 1..Len(chain) /\ Len(chain) \in Nat
  BY DEF ChainOK
<1>3. k \in matching
  OBVIOUS
<1>4. A \subseteq B
  <2>1. k \in Int /\ i \in Int /\ \A n \in matching : n \in Int
    BY <1>1, <1>2
  <2>2. QED
    BY <2>1
<1>5. IsFiniteSet(B)
  <2>1. IsFiniteSet(1..Len(chain))
    BY <1>2, FS_Interval
  <2>2. B \subseteq 1..Len(chain)
    BY <1>2
  <2>3. QED
    BY <2>1, <2>2, FS_Subset
<1>6. IsFiniteSet(A) /\ Cardinality(A) <= Cardinality(B)
  BY <1>4, <1>5, FS_Subset
<1>7. Cardinality(A) \in Nat /\ Cardinality(B) \in Nat
  BY <1>5, <1>6, FS_CardinalityType
<1>8. Cardinality(A) < PageLimit
  BY <1>1, <1>6, <1>7, IndexerConstants
<1>9. QED
  BY <1>3, <1>8 DEF Page

LEMMA NextOfPage ==
  ASSUME ChainOK, NEW page, page \subseteq DOMAIN chain
  PROVE  NextCursor(page) \in {0} \cup page
<1> DEFINE S == {0} \cup {i \in page : chain[i].kind # "failed"}
<1>1. Len(chain) \in Nat /\ DOMAIN chain = 1..Len(chain)
  BY DEF ChainOK
<1>2. S \in SUBSET (0..Len(chain)) /\ S # {}
  BY <1>1
<1>3. Max(S) \in S
  BY <1>1, <1>2, MaxExists
<1>4. QED
  BY <1>3 DEF NextCursor

\* What a pass knows once the RPC has answered.
LEMMA AnswerIsCovered ==
  ASSUME ChainOK, NEW r, Asked(r, chain, log), NEW to,
         to.found = Found(Page(r.after, r.from)),
         to.next = NextCursor(Page(r.after, r.from)),
         r.after \in Nat, r.from \in Nat
  PROVE  Answered(to, chain, log)
<1> DEFINE page == Page(r.after, r.from)
<1>1. DOMAIN chain = 1..Len(chain) /\ Len(chain) \in Nat
  BY DEF ChainOK
<1>2. ASSUME NEW i \in page
      PROVE  i \in DOMAIN chain /\ i > r.after
             /\ (r.after = 0 => chain[i].ledger >= r.from)
  BY <1>2 DEF Page
<1>3. page \subseteq Position(chain) \ {0}
  <2> SUFFICES ASSUME NEW i \in page PROVE i \in Position(chain) \ {0}
    OBVIOUS
  <2>1. i \in DOMAIN chain /\ i > r.after /\ chain[i].ledger \in Nat
    BY <1>2, ChainRow
  <2>2. chain[i].ledger >= StartLedger
    <3>1. CASE r.after = 0
      BY <1>2, <2>1, <3>1, IndexerConstants DEF Asked
    <3>2. CASE r.after # 0
      <4>1. r.after \in DOMAIN chain /\ chain[r.after].ledger >= StartLedger
        BY <3>2 DEF Asked, Position
      <4>2. r.after <= i
        BY <1>1, <2>1
      <4>3. chain[r.after].ledger <= chain[i].ledger
        BY <2>1, <4>1, <4>2 DEF ChainOK
      <4>4. chain[r.after].ledger \in Nat
        BY <4>1, ChainRow
      <4>5. QED
        BY <2>1, <4>1, <4>3, <4>4, IndexerConstants
    <3>3. QED
      BY <3>1, <3>2
  <2>3. QED
    BY <1>1, <2>1, <2>2 DEF Position
<1>4. ASSUME NEW j \in page
      PROVE  Covered(log \cup Found(page), j, chain)
  <2> SUFFICES ASSUME NEW i \in 1..j, Wanted(i, chain), i \notin log
               PROVE  i \in Found(page)
    BY DEF Covered
  <2>1. i \in DOMAIN chain /\ chain[i].kind = "event" /\ chain[i].ledger \in Nat \ {0}
        /\ chain[i].ledger >= StartLedger
    BY ChainRow DEF Wanted
  <2>2. i > r.after
    <3>1. CASE r.after = 0
      BY <2>1, <1>1, <3>1
    <3>2. CASE r.after # 0
      <4>1. i \notin 1..r.after
        BY DEF Asked, Covered
      <4>2. QED
        BY <2>1, <1>1, <4>1
    <3>3. QED
      BY <3>1, <3>2
  <2>3. r.after = 0 => chain[i].ledger >= r.from
    BY <2>1, IndexerConstants DEF Asked
  <2>4. i \in page
    <3>1. CASE i = j
      BY <3>1
    <3>2. CASE i # j
      <4>1. i < j
        BY <1>1, <1>2, <3>2
      <4>2. QED
        BY <2>1, <2>2, <2>3, <4>1, PageIsPrefix
    <3>3. QED
      BY <3>1, <3>2
  <2>5. QED
    BY <2>1, <2>4 DEF Found
<1>5. to.found \subseteq page
  BY DEF Found
<1>6. to.next \in {0} \cup page
  <2>1. page \subseteq DOMAIN chain
    BY <1>2
  <2>2. QED
    BY <2>1, NextOfPage
<1>7. Covered(log \cup Found(page), 0, chain)
  BY DEF Covered
<1>8. \A j \in to.found \cup {to.next} : Covered(log \cup to.found, j, chain)
  BY <1>4, <1>5, <1>6, <1>7
<1>9. 0 \in Position(chain)
  BY DEF Position
<1>10. QED
  BY <1>3, <1>5, <1>6, <1>8, <1>9 DEF Answered

-----------------------------------------------------------------------------
(* Every step keeps the invariant.                                         *)

\* What a step of one pass has to show.
LEMMA PassStep ==
  ASSUME CursorInv, UNCHANGED network, NEW p \in Pass, NEW to \in PassType, Goto(p, to),
         log \subseteq log', log' \subseteq Nat, cursor' \in Nat,
         InTime => /\ LogOK(chain, log')
                   /\ CursorOK(cursor', chain, log')
                   /\ PassOK(to, chain, log')
  PROVE  CursorInv'
<1>1. chain' = chain /\ latest' = latest
  BY DEF network
<1>2. ChainOK'
  BY <1>1 DEF CursorInv, ChainOK
<1>3. (pass \in [Pass -> PassType])'
  <2>1. pass \in [Pass -> PassType]
    BY DEF CursorInv
  <2>2. pass' = [pass EXCEPT ![p] = to]
    BY DEF Goto
  <2>3. QED
    BY <2>1, <2>2
<1>4. Extends(chain, chain')
  BY <1>1, SameChainExtends
<1>5. ASSUME InTime'
      PROVE  /\ LogOK(chain', log') /\ CursorOK(cursor', chain', log')
             /\ \A q \in Pass : PassOK(pass'[q], chain', log')
  <2>1. InTime
    BY <1>1, <1>5 DEF InTime
  <2>2. PassOK(to, chain', log')
    BY <1>1, <2>1
  <2>3. \A q \in Pass : PassOK(pass'[q], chain', log')
    BY <1>4, <2>1, <2>2, PassGoes
  <2>4. QED
    BY <1>1, <2>1, <2>3
<1>6. QED
  BY <1>2, <1>3, <1>5 DEF CursorInv

LEMMA AskKeeps ==
  ASSUME CursorInv, NEW p \in Pass, indexOnce(p)
  PROVE  CursorInv'
<1> DEFINE from == IF cursor = 0 THEN FirstLedger ELSE 0
           to == [Idle EXCEPT !.step = "asked", !.after = cursor, !.from = from]
<1>1. UNCHANGED network /\ log' = log /\ cursor' = cursor /\ Goto(p, to)
  BY DEF indexOnce, database
<1>2. cursor \in Nat /\ log \subseteq Nat /\ ChainOK
  BY DEF CursorInv
<1>3. FirstLedger \in Nat
  BY <1>2, IndexerConstants DEF FirstLedger, ChainOK
<1>4. from \in Nat
  BY <1>3
<1>5. InTime => FirstLedger >= StartLedger /\ (FirstLedger <= StartLedger \/ FirstLedger <= 1)
  BY <1>2, IndexerConstants DEF FirstLedger, InTime, ChainOK
<1>6. cursor = 0 => from = FirstLedger
  OBVIOUS
<1> HIDE DEF from
<1>7. to \in PassType /\ to.step = "asked" /\ to.after = cursor /\ to.from = from
  BY <1>2, <1>4 DEF Idle, PassType, Steps
<1> HIDE DEF to
<1>8. InTime => PassOK(to, chain, log)
  <2> SUFFICES ASSUME InTime PROVE PassOK(to, chain, log)
    OBVIOUS
  <2>1. CursorOK(cursor, chain, log)
    BY DEF CursorInv
  <2>2. Asked(to, chain, log)
    BY <1>5, <1>6, <1>7, <2>1 DEF Asked, CursorOK
  <2>3. QED
    BY <1>7, <2>2 DEF PassOK, Running
<1>9. InTime => LogOK(chain, log) /\ CursorOK(cursor, chain, log)
  BY DEF CursorInv
<1>10. QED
  BY <1>1, <1>2, <1>7, <1>8, <1>9, PassStep

LEMMA AnswerKeeps ==
  ASSUME CursorInv, NEW p \in Pass, fetchContractEvents(p)
  PROVE  CursorInv'
<1> DEFINE page == Page(pass[p].after, pass[p].from)
           found == Found(page)
           next == NextCursor(page)
           to == [Idle EXCEPT !.step = "answered", !.found = found, !.next = next]
<1>1. UNCHANGED network /\ log' = log /\ cursor' = cursor /\ Goto(p, to)
      /\ pass[p].step = "asked"
  BY DEF fetchContractEvents, database
<1>2. cursor \in Nat /\ log \subseteq Nat /\ ChainOK
  BY DEF CursorInv
<1>3. pass[p].after \in Nat /\ pass[p].from \in Nat
  BY DEF CursorInv, PassType
<1>4. page \subseteq DOMAIN chain /\ DOMAIN chain = 1..Len(chain) /\ Len(chain) \in Nat
  BY <1>2 DEF Page, ChainOK
<1>5. found \subseteq Nat
  BY <1>4 DEF Found
<1>6. next \in Nat
  <2>1. next \in {0} \cup page
    BY <1>2, <1>4, NextOfPage
  <2>2. QED
    BY <1>4, <2>1
<1> HIDE DEF found, next
<1>7. to \in PassType /\ to.step = "answered" /\ to.found = found /\ to.next = next
  <2>1. 0 \in Nat /\ 1 \in Nat
    OBVIOUS
  <2>2. QED
    BY <1>5, <1>6, <2>1 DEF Idle, PassType, Steps
<1> HIDE DEF to
<1>8. InTime => PassOK(to, chain, log)
  <2> SUFFICES ASSUME InTime PROVE PassOK(to, chain, log)
    OBVIOUS
  <2>1. Asked(pass[p], chain, log)
    BY <1>1 DEF CursorInv, PassOK
  <2>2. Answered(to, chain, log)
    BY <1>2, <1>3, <1>7, <2>1, AnswerIsCovered DEF found, next
  <2>3. QED
    BY <1>7, <2>2 DEF PassOK, Running
<1>9. InTime => LogOK(chain, log) /\ CursorOK(cursor, chain, log)
  BY DEF CursorInv
<1>10. QED
  BY <1>1, <1>2, <1>7, <1>8, <1>9, PassStep

\* The pass is over, or it goes on with the same answer.
GoesOn(to, r) ==
  /\ to \in PassType
  /\ \/ to.step = "idle"
     \/ to.step \in Running /\ to.found = r.found /\ to.next = r.next

LEMMA FinishGoesOn ==
  ASSUME NEW r \in PassType
  PROVE  GoesOn(Finish(r), r)
<1>1. [r EXCEPT !.step = "cursor", !.rows = {}] \in PassType
  BY DEF PassType, Steps, Running
<1>2. QED
  BY <1>1, IdlePass DEF GoesOn, Finish, PassType, Running

LEMMA AfterTableGoesOn ==
  ASSUME NEW r \in PassType
  PROVE  GoesOn(AfterTable(r), r)
<1> DEFINE at == r.at + 1
           to == [r EXCEPT !.step = "load", !.at = at, !.rows = {}]
<1>1. at \in Nat
  BY DEF PassType
<1>2. AfterTable(r) = IF r.at < LastTable THEN to ELSE Finish(r)
  BY DEF AfterTable
<1> HIDE DEF at
<1>3. GoesOn(to, r)
  BY <1>1 DEF GoesOn, PassType, Steps, Running
<1> HIDE DEF to
<1>4. QED
  BY <1>2, <1>3, FinishGoesOn

LEMMA AnswerStays ==
  ASSUME CursorInv, InTime, NEW p \in Pass, pass[p].step \notin {"idle", "asked"},
         NEW m, log \subseteq m, pass[p].found \subseteq m,
         NEW to, GoesOn(to, pass[p])
  PROVE  PassOK(to, chain, m)
<1>1. CASE to.step = "idle"
  BY <1>1, IdleKnowsNothing
<1>2. CASE to.step \in Running /\ to.found = pass[p].found /\ to.next = pass[p].next
  <2>1. PassOK(pass[p], chain, m)
    BY SameChainExtends, PassStays DEF CursorInv
  <2>2. Answered(pass[p], chain, m)
    BY <2>1 DEF PassOK
  <2>3. Answered(to, chain, m)
    BY <1>2, <2>2 DEF Answered
  <2>4. QED
    BY <1>2, <2>3 DEF PassOK, Running
<1>3. QED
  BY <1>1, <1>2 DEF GoesOn

LEMMA PersistKeeps ==
  ASSUME CursorInv, NEW p \in Pass, persistEvents(p)
  PROVE  CursorInv'
<1> DEFINE r == pass[p]
           to == IF Inserted(r.found) THEN [r EXCEPT !.step = "load"] ELSE Finish(r)
           m == log \cup r.found
<1>1. UNCHANGED network /\ log' = m /\ cursor' = cursor /\ Goto(p, to)
      /\ r.step = "answered"
  BY DEF persistEvents
<1>2. cursor \in Nat /\ log \subseteq Nat /\ r \in PassType
  BY DEF CursorInv
<1>3. m \subseteq Nat
  BY <1>2 DEF PassType
<1>4. GoesOn(to, r)
  <2>1. GoesOn([r EXCEPT !.step = "load"], r)
    BY <1>2 DEF GoesOn, PassType, Steps, Running
  <2>2. QED
    BY <1>2, <2>1, FinishGoesOn
<1>5. to \in PassType
  BY <1>4 DEF GoesOn
<1>6. ASSUME InTime
      PROVE  LogOK(chain, m) /\ CursorOK(cursor, chain, m) /\ PassOK(to, chain, m)
  <2>1. Answered(r, chain, log) /\ LogOK(chain, log) /\ CursorOK(cursor, chain, log)
    BY <1>1, <1>6 DEF CursorInv, PassOK
  <2>2. \A j \in Position(chain) : Covered(log, j, chain) => Covered(m, j, chain)
    BY SameChainExtends, CoveredStays
  <2>3. LogOK(chain, m)
    BY <2>1, <2>2 DEF LogOK, Answered
  <2>4. CursorOK(cursor, chain, m)
    BY <2>1, <2>2 DEF CursorOK
  <2>5. PassOK(to, chain, m)
    BY <1>1, <1>4, <1>6, AnswerStays
  <2>6. QED
    BY <2>3, <2>4, <2>5
<1> HIDE DEF to, m
<1>7. log \subseteq m
  BY DEF m
<1>8. QED
  BY <1>1, <1>2, <1>3, <1>5, <1>6, <1>7, PassStep

\* The tables, the last ledger and failures leave the log and the cursor alone.
LEMMA OtherStepKeeps ==
  ASSUME CursorInv, NEW p \in Pass,
         NEW to, GoesOn(to, pass[p]), Goto(p, to),
         to.step = "idle" \/ pass[p].step \in Running,
         UNCHANGED <<network, log, cursor>>
  PROVE  CursorInv'
<1>1. UNCHANGED network /\ log' = log /\ cursor' = cursor /\ to \in PassType
  BY DEF GoesOn
<1>2. cursor \in Nat /\ log \subseteq Nat
  BY DEF CursorInv
<1>3. ASSUME InTime
      PROVE  LogOK(chain, log) /\ CursorOK(cursor, chain, log) /\ PassOK(to, chain, log)
  <2>1. LogOK(chain, log) /\ CursorOK(cursor, chain, log) /\ PassOK(pass[p], chain, log)
    BY <1>3 DEF CursorInv
  <2>2. CASE to.step = "idle"
    BY <2>1, <2>2, IdleKnowsNothing
  <2>3. CASE pass[p].step \in Running
    <3>1. pass[p].found \subseteq log /\ pass[p].step \notin {"idle", "asked"}
      BY <2>1, <2>3 DEF PassOK, Running
    <3>2. QED
      BY <1>3, <2>1, <3>1, AnswerStays
  <2>4. QED
    BY <2>2, <2>3
<1>4. QED
  BY <1>1, <1>2, <1>3, PassStep

LEMMA TablesKeep ==
  ASSUME CursorInv, NEW p \in Pass,
         loadEvents(p) \/ rebuild(p) \/ setLastLedger(p) \/ PassFails(p)
  PROVE  CursorInv'
<1> DEFINE r == pass[p]
<1>1. r \in PassType /\ log \subseteq Nat
  BY DEF CursorInv
<1>2. CASE loadEvents(p)
  <2> DEFINE to == [r EXCEPT !.step = "write", !.rows = log]
  <2>1. GoesOn(to, r)
    BY <1>1 DEF GoesOn, PassType, Steps, Running
  <2>2. Goto(p, to) /\ r.step \in Running /\ UNCHANGED <<network, log, cursor>>
    BY <1>2 DEF loadEvents, Running, database
  <2> HIDE DEF to
  <2>3. QED
    BY <2>1, <2>2, OtherStepKeeps
<1>3. CASE rebuild(p)
  <2>1. GoesOn(AfterTable(r), r)
    BY <1>1, AfterTableGoesOn
  <2>2. Goto(p, AfterTable(r)) /\ r.step \in Running /\ UNCHANGED <<network, log, cursor>>
    BY <1>3 DEF rebuild, Running
  <2>3. QED
    BY <2>1, <2>2, OtherStepKeeps
<1>4. CASE setLastLedger(p) \/ PassFails(p)
  <2>1. GoesOn(Idle, r) /\ Idle.step = "idle"
    BY IdlePass DEF GoesOn
  <2>2. Goto(p, Idle) /\ UNCHANGED <<network, log, cursor>>
    BY <1>4 DEF setLastLedger, PassFails, database
  <2>3. QED
    BY <2>1, <2>2, OtherStepKeeps
<1>5. QED
  BY <1>2, <1>3, <1>4

LEMMA CursorKeeps ==
  ASSUME CursorInv, NEW p \in Pass, setCursor(p)
  PROVE  CursorInv'
<1> DEFINE r == pass[p]
           to == IF r.found = {} THEN Idle ELSE [r EXCEPT !.step = "ledger"]
<1>1. UNCHANGED network /\ log' = log /\ cursor' = r.next /\ Goto(p, to)
      /\ r.step = "cursor"
  BY DEF setCursor
<1>2. log \subseteq Nat /\ r \in PassType
  BY DEF CursorInv
<1>3. r.next \in Nat
  BY <1>2 DEF PassType
<1>4. GoesOn(to, r)
  BY <1>2, IdlePass DEF GoesOn, PassType, Steps, Running
<1>5. to \in PassType
  BY <1>4 DEF GoesOn
<1> HIDE DEF to
<1>6. ASSUME InTime
      PROVE  LogOK(chain, log) /\ CursorOK(r.next, chain, log) /\ PassOK(to, chain, log)
  <2>1. Answered(r, chain, log) /\ r.found \subseteq log /\ LogOK(chain, log)
    BY <1>1, <1>6 DEF CursorInv, PassOK, Running
  <2>2. log \cup r.found = log
    BY <2>1
  <2>3. CursorOK(r.next, chain, log)
    BY <2>1, <2>2 DEF CursorOK, Answered
  <2>4. PassOK(to, chain, log)
    BY <1>1, <1>4, <1>6, <2>1, AnswerStays
  <2>5. QED
    BY <2>1, <2>3, <2>4
<1>7. QED
  BY <1>1, <1>2, <1>3, <1>5, <1>6, PassStep

LEMMA CrashKeeps ==
  ASSUME CursorInv, NEW p \in Pass, Crash(p)
  PROVE  CursorInv'
<1>1. chain' = chain /\ latest' = latest /\ log' = log /\ cursor' = cursor
      /\ pass' = [q \in Pass |-> IF q \in Process(p) THEN Idle ELSE pass[q]]
  BY DEF Crash, network, database
<1>2. ChainOK' /\ (log \subseteq Nat /\ cursor \in Nat)'
  BY <1>1 DEF CursorInv, ChainOK
<1>3. (pass \in [Pass -> PassType])'
  BY <1>1, IdlePass DEF CursorInv
<1>4. ASSUME InTime'
      PROVE  (LogOK(chain, log) /\ CursorOK(cursor, chain, log)
              /\ \A q \in Pass : PassOK(pass[q], chain, log))'
  <2>1. InTime
    BY <1>1, <1>4 DEF InTime
  <2>2. ASSUME NEW q \in Pass
        PROVE  PassOK(pass'[q], chain, log)
    <3>1. pass'[q] = Idle \/ pass'[q] = pass[q]
      BY <1>1
    <3>2. PassOK(Idle, chain, log)
      BY IdlePass, IdleKnowsNothing
    <3>3. QED
      BY <2>1, <3>1, <3>2 DEF CursorInv
  <2>3. QED
    BY <1>1, <2>1, <2>2 DEF CursorInv
<1>5. QED
  BY <1>2, <1>3, <1>4 DEF CursorInv

\* A ledger adds its events at the end of the chain.
LEMMA ChainGrows ==
  ASSUME ChainOK, NEW batch \in Batches, CloseLedger(batch)
  PROVE  ChainOK' /\ Extends(chain, chain')
<1> DEFINE Row == [ledger: Nat \ {0}, kind: Kind]
           new == [n \in DOMAIN batch |-> [ledger |-> latest + 1, kind |-> batch[n]]]
           len == Len(chain)
<1>1. chain' = chain \o new /\ latest' = latest + 1
  BY DEF CloseLedger
<1>2. chain \in Seq(Row) /\ latest \in Nat
  BY DEF ChainOK
<1>3. batch \in Seq(Kind)
  BY IndexerConstants
<1>4. latest + 1 \in Nat \ {0}
  BY <1>2
<1>5. \A n \in DOMAIN batch : new[n] \in Row /\ new[n].ledger = latest + 1
  BY <1>3, <1>4
<1>6. DOMAIN batch = 1..Len(batch) /\ Len(batch) \in Nat
  BY <1>3
<1>7. new \in Seq(Row) /\ Len(new) = Len(batch) /\ DOMAIN new = DOMAIN batch
  <2> HIDE DEF Row
  <2>1. new \in [1..Len(batch) -> Row]
    BY <1>5, <1>6
  <2>2. QED
    BY <1>6, <2>1
<1> HIDE DEF Row, new
<1>8. /\ chain' \in Seq(Row) /\ len \in Nat
      /\ DOMAIN chain = 1..len /\ DOMAIN chain' = 1..(len + Len(batch))
      /\ \A i \in 1..len : chain'[i] = chain[i]
      /\ \A i \in (len + 1)..(len + Len(batch)) : chain'[i] = new[i - len]
  <2>1. chain \o new \in Seq(Row) /\ len \in Nat /\ DOMAIN chain = 1..len
    BY <1>2, <1>7
  <2>2. Len(chain \o new) = len + Len(batch)
    BY <1>2, <1>7
  <2>3. DOMAIN (chain \o new) = 1..(len + Len(batch))
    BY <2>1, <2>2
  <2>4. \A i \in 1..len : (chain \o new)[i] = chain[i]
    BY <1>2, <1>6, <1>7
  <2>5. \A i \in (len + 1)..(len + Len(batch)) : (chain \o new)[i] = new[i - len]
    BY <1>2, <1>6, <1>7
  <2>6. QED
    BY <1>1, <2>1, <2>3, <2>4, <2>5
<1>9. Extends(chain, chain')
  BY <1>6, <1>8 DEF Extends
<1>10. ASSUME NEW i \in DOMAIN chain'
       PROVE  \/ i \in DOMAIN chain /\ chain'[i] = chain[i]
              \/ i > len /\ chain'[i].ledger = latest + 1
  <2>1. CASE i <= len
    BY <1>8, <2>1
  <2>2. CASE i > len
    <3>1. i - len \in DOMAIN batch /\ chain'[i] = new[i - len]
      BY <1>6, <1>8, <2>2
    <3>2. QED
      BY <1>5, <2>2, <3>1
  <2>3. QED
    BY <1>8, <2>1, <2>2
<1>11. ASSUME NEW i \in DOMAIN chain'
       PROVE  chain'[i].ledger <= latest'
  <2>1. CASE i \in DOMAIN chain /\ chain'[i] = chain[i]
    <3>1. chain[i].ledger \in Nat /\ chain[i].ledger <= latest
      BY <2>1, ChainRow DEF ChainOK
    <3>2. QED
      BY <1>1, <1>2, <2>1, <3>1
  <2>2. CASE chain'[i].ledger = latest + 1
    BY <1>1, <1>2, <2>2
  <2>3. QED
    BY <1>10, <2>1, <2>2
<1>12. ASSUME NEW i \in DOMAIN chain', NEW j \in DOMAIN chain', i <= j
       PROVE  chain'[i].ledger <= chain'[j].ledger
  <2>1. CASE j \in DOMAIN chain /\ chain'[j] = chain[j]
    <3>1. i \in DOMAIN chain /\ chain'[i] = chain[i]
      BY <1>8, <1>12, <2>1
    <3>2. QED
      BY <1>12, <2>1, <3>1 DEF ChainOK
  <2>2. CASE chain'[j].ledger = latest + 1
    BY <1>1, <1>11, <2>2
  <2>3. QED
    BY <1>10, <2>1, <2>2
<1>13. ChainOK'
  BY <1>1, <1>4, <1>8, <1>11, <1>12 DEF ChainOK, Row
<1>14. QED
  BY <1>9, <1>13

LEMMA LedgerKeeps ==
  ASSUME CursorInv, NEW batch \in Batches, CloseLedger(batch)
  PROVE  CursorInv'
<1>1. ChainOK' /\ Extends(chain, chain')
  BY ChainGrows DEF CursorInv
<1>2. latest' = latest + 1 /\ log' = log /\ cursor' = cursor /\ pass' = pass
  BY DEF CloseLedger, database
<1>3. (pass \in [Pass -> PassType] /\ log \subseteq Nat /\ cursor \in Nat)'
  BY <1>2 DEF CursorInv
<1>4. ASSUME InTime'
      PROVE  (LogOK(chain, log) /\ CursorOK(cursor, chain, log)
              /\ \A q \in Pass : PassOK(pass[q], chain, log))'
  <2>1. InTime
    BY <1>2, <1>4, IndexerConstants DEF InTime, CursorInv, ChainOK
  <2>2. LogOK(chain', log)
    BY <1>1, <2>1, PositionStays, CoveredStays DEF CursorInv, LogOK
  <2>3. CursorOK(cursor, chain', log)
    BY <1>1, <2>1, PositionStays, CoveredStays DEF CursorInv, CursorOK
  <2>4. \A q \in Pass : PassOK(pass[q], chain', log)
    BY <1>1, <2>1, PassStays DEF CursorInv
  <2>5. QED
    BY <1>2, <2>2, <2>3, <2>4
<1>5. QED
  BY <1>1, <1>3, <1>4 DEF CursorInv

-----------------------------------------------------------------------------
LEMMA InitEstablishes == Init => CursorInv
<1> SUFFICES ASSUME Init PROVE CursorInv
  OBVIOUS
<1>1. chain = <<>> /\ latest = 0 /\ log = {} /\ cursor = 0
      /\ pass = [p \in Pass |-> Idle]
  BY DEF Init
<1>2. ChainOK
  BY <1>1 DEF ChainOK
<1>3. pass \in [Pass -> PassType] /\ \A p \in Pass : pass[p].step = "idle"
  BY <1>1, IdlePass
<1>4. LogOK(chain, log)
  BY <1>1 DEF LogOK
<1>5. CursorOK(cursor, chain, log)
  BY <1>1 DEF CursorOK, Position, Covered
<1>6. \A p \in Pass : PassOK(pass[p], chain, log)
  BY <1>3, IdleKnowsNothing
<1>7. QED
  BY <1>1, <1>2, <1>3, <1>4, <1>5, <1>6 DEF CursorInv

LEMMA StepKeeps == CursorInv /\ [Next]_vars => CursorInv'
<1> SUFFICES ASSUME CursorInv, [Next]_vars PROVE CursorInv'
  OBVIOUS
<1>1. ASSUME NEW p \in Pass, indexOnce(p) \/ Continue(p) \/ PassFails(p) \/ Crash(p)
      PROVE  CursorInv'
  BY <1>1, AskKeeps, AnswerKeeps, PersistKeeps, TablesKeep, CursorKeeps, CrashKeeps DEF Continue
<1>2. ASSUME NEW batch \in Batches, CloseLedger(batch)
      PROVE  CursorInv'
  BY <1>2, LedgerKeeps
<1>3. CASE UNCHANGED vars
  BY <1>3 DEF vars, database, network, CursorInv, ChainOK, InTime
<1>4. QED
  BY <1>1, <1>2, <1>3 DEF Next

\* Below the cursor and below every stored event, every event in scope is
\* stored, whatever passes overlap, fail or die (indexer.ts 733-742, 748, 763).
THEOREM NoEventIsSkipped == Spec => []NothingSkipped
<1>1. Spec => []CursorInv
  BY InitEstablishes, StepKeeps, PTL DEF Spec
<1>2. QED
  BY <1>1, InvImpliesNothingSkipped, PTL


-----------------------------------------------------------------------------
(* The tables.  As long as no other process has run, at most one pass is   *)
(* between its commit and its end, what it loaded is the log, and a table  *)
(* that is behind the log is one that this pass has still to rebuild.      *)

Rebuilding == {"load", "write"}

OwnProcess ==
  /\ \A p \in CliPass : pass[p].step = "idle"
  /\ \A p, q \in Pass : pass[p].step \in Running /\ pass[q].step \in Running => p = q
  /\ \A p \in Pass : pass[p].step = "write" => pass[p].rows = log
  /\ \A t \in Table : table[t] \subseteq log
  /\ faults = 0 => \A t \in Table :
       \/ table[t] = log
       \/ \E p \in Pass : pass[p].step \in Rebuilding /\ pass[p].at <= t

TablesInv ==
  /\ pass \in [Pass -> PassType]
  /\ table \in [Table -> SUBSET Nat]
  /\ log \subseteq Nat
  /\ cliRuns \in Nat /\ faults \in Nat
  /\ \A p \in Pass : /\ pass[p].step = "answered" => pass[p].at = 1
                     /\ pass[p].step \in Rebuilding => pass[p].at \in Table
  /\ cliRuns = 0 => OwnProcess

LEMMA InvImpliesTablesFollow == TablesInv => TablesFollowLog
BY DEF TablesInv, OwnProcess, TablesFollowLog, Rebuilding

LEMMA InitTables == Init => TablesInv
<1> SUFFICES ASSUME Init PROVE TablesInv
  OBVIOUS
<1>1. /\ log = {} /\ cliRuns = 0 /\ faults = 0
      /\ table = [t \in Table |-> {}] /\ pass = [p \in Pass |-> Idle]
  BY DEF Init
<1>2. /\ pass \in [Pass -> PassType] /\ \A p \in Pass : pass[p].step = "idle"
  BY <1>1, IdlePass
<1>3. "idle" \notin Running /\ "idle" \notin Rebuilding /\ "idle" # "write"
  BY DEF Running, Rebuilding
<1>4. OwnProcess
  BY <1>1, <1>2, <1>3 DEF OwnProcess, Pass
<1>5. QED
  BY <1>1, <1>2, <1>3, <1>4 DEF TablesInv

\* With the thread a pass is alone in the database.
LEMMA MovesAlone ==
  ASSUME TablesInv, cliRuns = 0, NEW p \in Pass, pass[p].step # "idle",
         HasThread(p) \/ pass[p].step \in Running
  PROVE  \A q \in Pass : q # p => pass[q].step \notin Running
<1>1. OwnProcess
  BY DEF TablesInv
<1>2. CASE pass[p].step \in Running
  BY <1>1, <1>2 DEF OwnProcess
<1>3. CASE HasThread(p)
  <2>1. p \in ServerPass
    BY <1>1 DEF OwnProcess, Pass
  <2>2. \A q \in CliPass : pass[q].step \notin Running
    BY <1>1 DEF OwnProcess, Running
  <2>3. QED
    BY <1>3, <2>1, <2>2 DEF HasThread, Process, Pass
<1>4. QED
  BY <1>2, <1>3

\* What is behind the log is what this pass has still to do.
BehindIs(r, l, T) == \A t \in Table : T[t] = l \/ (r.step \in Rebuilding /\ r.at <= t)

LEMMA BehindOnlyHere ==
  ASSUME TablesInv, cliRuns = 0, faults = 0, NEW p \in Pass, pass[p].step # "idle",
         HasThread(p) \/ pass[p].step \in Running
  PROVE  BehindIs(pass[p], log, table)
<1>1. \A q \in Pass : q # p => pass[q].step \notin Rebuilding
  BY MovesAlone DEF Running, Rebuilding
<1>2. QED
  BY <1>1 DEF TablesInv, OwnProcess, BehindIs

\* A pass with the thread goes on.
LEMMA AloneKeeps ==
  ASSUME TablesInv, NEW p \in Pass, pass[p].step # "idle",
         HasThread(p) \/ pass[p].step \in Running,
         NEW to \in PassType, Goto(p, to), cliRuns' = cliRuns, faults' = faults,
         table' \in [Table -> SUBSET Nat], log' \subseteq Nat,
         to.step # "answered", to.step \in Rebuilding => to.at \in Table,
         cliRuns = 0 => /\ to.step = "write" => to.rows = log'
                        /\ \A t \in Table : table'[t] \subseteq log'
                        /\ faults = 0 => BehindIs(to, log', table')
  PROVE  TablesInv'
<1>1. pass \in [Pass -> PassType] /\ pass' = [pass EXCEPT ![p] = to]
  BY DEF TablesInv, Goto
<1>2. pass'[p] = to /\ \A q \in Pass : q # p => pass'[q] = pass[q]
  BY <1>1
<1>3. pass' \in [Pass -> PassType]
  BY <1>1
<1>4. \A q \in Pass : /\ pass'[q].step = "answered" => pass'[q].at = 1
                      /\ pass'[q].step \in Rebuilding => pass'[q].at \in Table
  BY <1>2 DEF TablesInv
<1>5. ASSUME cliRuns = 0  PROVE OwnProcess'
  <2>1. \A q \in Pass : q # p => pass'[q].step \notin Running
    BY <1>2, <1>5, MovesAlone
  <2>2. \A q \in CliPass : pass'[q].step = "idle"
    <3>1. \A q \in CliPass : pass[q].step = "idle"
      BY <1>5 DEF TablesInv, OwnProcess
    <3>2. p \notin CliPass
      BY <3>1
    <3>3. QED
      BY <1>2, <3>1, <3>2 DEF Pass
  <2>3. \A q, u \in Pass : pass'[q].step \in Running /\ pass'[u].step \in Running => q = u
    BY <2>1
  <2>4. \A q \in Pass : pass'[q].step = "write" => pass'[q].rows = log'
    BY <1>2, <1>5, <2>1 DEF Running
  <2>5. faults' = 0 => \A t \in Table :
          \/ table'[t] = log'
          \/ \E q \in Pass : pass'[q].step \in Rebuilding /\ pass'[q].at <= t
    BY <1>2, <1>5 DEF BehindIs
  <2>6. QED
    BY <1>5, <2>2, <2>3, <2>4, <2>5 DEF OwnProcess
<1>6. QED
  BY <1>3, <1>4, <1>5 DEF TablesInv

LEMMA FinishParts ==
  ASSUME NEW r \in PassType
  PROVE  /\ Finish(r) \in PassType
         /\ Finish(r).step \notin Rebuilding /\ Finish(r).step # "answered"
<1>1. Idle \in PassType /\ Idle.step = "idle"
  BY IdlePass
<1>2. PICK to : to = [r EXCEPT !.step = "cursor", !.rows = {}]
  OBVIOUS
<1>3. to \in PassType /\ to.step = "cursor"
  BY <1>2 DEF PassType, Steps, Running
<1>4. Finish(r) = Idle \/ Finish(r) = to
  BY <1>2 DEF Finish
<1>5. QED
  BY <1>1, <1>3, <1>4 DEF Rebuilding

\* A pass that asks, and one that gets its answer, touches no table.
LEMMA WaitingKeeps ==
  ASSUME TablesInv, NEW p \in Pass, pass[p].step \in {"idle", "asked"},
         NEW to \in PassType, Goto(p, to), to.step \in {"asked", "answered"}, to.at = 1,
         UNCHANGED <<log, table, faults>>, cliRuns' \in Nat,
         cliRuns' = 0 => cliRuns = 0 /\ p \notin CliPass
  PROVE  TablesInv'
<1>1. pass \in [Pass -> PassType] /\ pass' = [pass EXCEPT ![p] = to]
  BY DEF TablesInv, Goto
<1>2. pass'[p] = to /\ \A q \in Pass : q # p => pass'[q] = pass[q]
  BY <1>1
<1>3. pass' \in [Pass -> PassType]
  BY <1>1
<1>4. /\ pass[p].step \notin Running /\ to.step \notin Running
      /\ pass[p].step \notin Rebuilding /\ to.step \notin Rebuilding /\ to.step # "write"
  BY DEF Running, Rebuilding
<1>5. \A q \in Pass : /\ pass'[q].step = "answered" => pass'[q].at = 1
                      /\ pass'[q].step \in Rebuilding => pass'[q].at \in Table
  BY <1>2, <1>4 DEF TablesInv
<1>6. ASSUME cliRuns' = 0  PROVE OwnProcess'
  <2>1. OwnProcess /\ p \notin CliPass
    BY <1>6 DEF TablesInv
  <2>2. \A q \in CliPass : pass'[q].step = "idle"
    BY <1>2, <2>1 DEF OwnProcess, Pass
  <2>3. \A q \in Pass : pass'[q].step \in Running => pass'[q] = pass[q]
    BY <1>2, <1>4
  <2>4. \A q \in Pass : pass[q].step \in Rebuilding => pass'[q] = pass[q]
    BY <1>2, <1>4
  <2>5. \A q, u \in Pass : pass'[q].step \in Running /\ pass'[u].step \in Running => q = u
    BY <2>1, <2>3 DEF OwnProcess
  <2>6. \A q \in Pass : pass'[q].step = "write" => pass'[q].rows = log'
    BY <2>1, <2>3 DEF OwnProcess, Running
  <2>7. faults' = 0 => \A t \in Table :
          \/ table'[t] = log'
          \/ \E q \in Pass : pass'[q].step \in Rebuilding /\ pass'[q].at <= t
    BY <2>1, <2>4 DEF OwnProcess
  <2>8. \A t \in Table : table'[t] \subseteq log'
    BY <2>1 DEF OwnProcess
  <2>9. QED
    BY <2>2, <2>5, <2>6, <2>7, <2>8 DEF OwnProcess
<1>7. QED
  BY <1>3, <1>5, <1>6 DEF TablesInv

LEMMA AskTables ==
  ASSUME TablesInv, CursorInv', NEW p \in Pass, indexOnce(p) \/ fetchContractEvents(p)
  PROVE  TablesInv'
<1>1. pass \in [Pass -> PassType] /\ pass' \in [Pass -> PassType] /\ cliRuns \in Nat
  BY DEF CursorInv, TablesInv
<1>2. CASE indexOnce(p)
  <2>1. PICK to : /\ to = [Idle EXCEPT !.step = "asked", !.after = cursor,
                                       !.from = IF cursor = 0 THEN FirstLedger ELSE 0]
                  /\ Goto(p, to)
    BY <1>2 DEF indexOnce
  <2>2. to.step = "asked" /\ to.at = 1
    BY <2>1 DEF Idle
  <2>3. to \in PassType
    BY <1>1, <2>1 DEF Goto
  <2>4. UNCHANGED <<log, table, faults>> /\ pass[p].step = "idle"
    BY <1>2 DEF indexOnce, database
  <2>5. cliRuns' \in Nat /\ (cliRuns' = 0 => cliRuns = 0 /\ p \notin CliPass)
    BY <1>1, <1>2 DEF indexOnce
  <2>6. QED
    BY <2>1, <2>2, <2>3, <2>4, <2>5, WaitingKeeps
<1>3. CASE fetchContractEvents(p)
  <2>1. PICK page, to : /\ to = [Idle EXCEPT !.step = "answered", !.found = Found(page),
                                             !.next = NextCursor(page)]
                        /\ Goto(p, to)
    BY <1>3 DEF fetchContractEvents
  <2>2. to.step = "answered" /\ to.at = 1
    BY <2>1 DEF Idle
  <2>3. to \in PassType
    BY <1>1, <2>1 DEF Goto
  <2>4. UNCHANGED <<log, table, faults, cliRuns>> /\ pass[p].step = "asked"
    BY <1>3 DEF fetchContractEvents, database
  <2>5. cliRuns = 0 => p \notin CliPass
    BY <2>4 DEF TablesInv, OwnProcess
  <2>6. QED
    BY <1>1, <2>1, <2>2, <2>3, <2>4, <2>5, WaitingKeeps
<1>4. QED
  BY <1>2, <1>3

LEMMA PersistTables ==
  ASSUME TablesInv, CursorInv', NEW p \in Pass, persistEvents(p)
  PROVE  TablesInv'
<1>1. PICK r, to : /\ r = pass[p] /\ Goto(p, to)
                   /\ to = IF Inserted(r.found) THEN [r EXCEPT !.step = "load"] ELSE Finish(r)
  BY DEF persistEvents
<1>2. /\ r.step = "answered" /\ HasThread(p) /\ log' = log \cup r.found
      /\ UNCHANGED <<table, faults, cliRuns>>
  BY <1>1 DEF persistEvents
<1>3. r \in PassType /\ r.at = 1 /\ 1 \in Table /\ log' \subseteq Nat
  <2>1. r \in PassType /\ r.at = 1
    BY <1>1, <1>2 DEF TablesInv
  <2>2. 1 \in Table
    BY IndexerConstants DEF Table
  <2>3. QED
    BY <2>1, <2>2 DEF CursorInv
<1>4. BehindIs(r, log, table) \/ cliRuns # 0 \/ faults # 0
  BY <1>1, <1>2, BehindOnlyHere
<1>5. r.step \notin Rebuilding /\ "load" \in Rebuilding
  BY <1>2 DEF Rebuilding
<1>6. CASE Inserted(r.found)
  <2>1. to \in PassType /\ to.step = "load" /\ to.at = 1
    BY <1>1, <1>3, <1>6 DEF PassType, Steps, Running
  <2>2. BehindIs(to, log', table')
    BY <1>5, <2>1 DEF BehindIs, Table
  <2>3. cliRuns = 0 => \A t \in Table : table'[t] \subseteq log'
    BY <1>2 DEF TablesInv, OwnProcess
  <2>4. QED
    BY <1>1, <1>2, <1>3, <2>1, <2>2, <2>3, AloneKeeps DEF TablesInv
<1>7. CASE ~Inserted(r.found)
  <2>1. log' = log
    BY <1>2, <1>7 DEF Inserted
  <2>2. /\ to \in PassType /\ to.step \notin Rebuilding /\ to.step # "answered"
        /\ to.step # "write"
    BY <1>1, <1>3, <1>7, FinishParts DEF Rebuilding
  <2>3. cliRuns = 0 /\ faults = 0 => BehindIs(to, log', table')
    BY <1>2, <1>4, <1>5, <2>1 DEF BehindIs
  <2>4. cliRuns = 0 => \A t \in Table : table'[t] \subseteq log'
    BY <1>2, <2>1 DEF TablesInv, OwnProcess
  <2>5. QED
    BY <1>1, <1>2, <1>3, <2>2, <2>3, <2>4, AloneKeeps DEF TablesInv
<1>8. QED
  BY <1>6, <1>7

LEMMA LoadTables ==
  ASSUME TablesInv, NEW p \in Pass, loadEvents(p)
  PROVE  TablesInv'
<1>1. PICK r, to : /\ r = pass[p] /\ Goto(p, to)
                   /\ to = [r EXCEPT !.step = "write", !.rows = log]
  BY DEF loadEvents
<1>2. r.step = "load" /\ UNCHANGED <<log, table, faults, cliRuns>>
  BY <1>1 DEF loadEvents, database
<1>3. r \in PassType /\ r.step \in Running /\ r.at \in Table /\ log \subseteq Nat
  BY <1>1, <1>2 DEF TablesInv, Running, Rebuilding
<1>4. to \in PassType /\ to.step = "write" /\ to.at = r.at /\ to.rows = log
  BY <1>1, <1>3 DEF PassType, Steps, Running
<1>5. cliRuns = 0 /\ faults = 0 => BehindIs(to, log', table')
  <2>1. ASSUME cliRuns = 0, faults = 0  PROVE BehindIs(r, log, table)
    BY <1>1, <1>2, <1>3, <2>1, BehindOnlyHere
  <2>2. QED
    BY <1>2, <1>4, <2>1 DEF BehindIs, Rebuilding
<1>6. cliRuns = 0 => \A t \in Table : table'[t] \subseteq log'
  BY <1>2 DEF TablesInv, OwnProcess
<1>7. QED
  BY <1>1, <1>2, <1>3, <1>4, <1>5, <1>6, AloneKeeps DEF TablesInv

LEMMA RebuildTables ==
  ASSUME TablesInv, NEW p \in Pass, rebuild(p)
  PROVE  TablesInv'
<1>1. PICK r, to : r = pass[p] /\ to = AfterTable(r) /\ Goto(p, to)
  BY DEF rebuild
<1>2. /\ r.step = "write" /\ UNCHANGED <<log, faults, cliRuns>>
      /\ table' = [table EXCEPT ![r.at] = r.rows]
  BY <1>1 DEF rebuild
<1>3. /\ r \in PassType /\ r.step \in Running /\ r.at \in Table
      /\ log \subseteq Nat /\ table \in [Table -> SUBSET Nat]
  BY <1>1, <1>2 DEF TablesInv, Running, Rebuilding
<1>4. table' \in [Table -> SUBSET Nat]
  BY <1>2, <1>3 DEF PassType
<1>5. cliRuns = 0 => r.rows = log
  BY <1>1, <1>2 DEF TablesInv, OwnProcess
<1>6. cliRuns = 0 => \A t \in Table : table'[t] \subseteq log'
  BY <1>2, <1>3, <1>5 DEF TablesInv, OwnProcess
<1>7. ASSUME cliRuns = 0, faults = 0, NEW t \in Table
      PROVE  table'[t] = log' \/ t > r.at
  <2>1. BehindIs(r, log, table)
    BY <1>1, <1>2, <1>3, <1>7, BehindOnlyHere
  <2>2. t \in Nat /\ r.at \in Nat
    BY <1>3, IndexerConstants DEF Table
  <2>3. CASE t = r.at
    BY <1>2, <1>3, <1>5, <1>7, <2>3
  <2>4. CASE t < r.at
    BY <1>2, <1>3, <2>1, <2>2, <2>4 DEF BehindIs
  <2>5. QED
    BY <2>2, <2>3, <2>4
<1>8. LastTable \in Nat /\ r.at \in 1..LastTable /\ Table = 1..LastTable
  BY <1>3, IndexerConstants DEF Table
<1>9. CASE r.at < LastTable
  <2>1. to \in PassType /\ to.step = "load" /\ to.at = r.at + 1
    <3>1. PICK at : at = r.at + 1 /\ at \in Nat
      BY <1>8
    <3>2. to = [r EXCEPT !.step = "load", !.at = at, !.rows = {}]
      BY <1>1, <1>9, <3>1 DEF AfterTable
    <3>3. QED
      BY <1>3, <3>1, <3>2 DEF PassType, Steps, Running
  <2>2. to.at \in Table /\ to.step \in Rebuilding
    BY <1>8, <1>9, <2>1 DEF Rebuilding
  <2>3. cliRuns = 0 /\ faults = 0 => BehindIs(to, log', table')
    BY <1>7, <1>8, <2>1, <2>2 DEF BehindIs
  <2>4. QED
    BY <1>1, <1>2, <1>3, <1>4, <1>6, <2>1, <2>2, <2>3, AloneKeeps
<1>10. CASE ~(r.at < LastTable)
  <2>1. /\ to \in PassType /\ to.step \notin Rebuilding /\ to.step # "answered"
        /\ to.step # "write"
    BY <1>1, <1>3, <1>10, FinishParts DEF AfterTable, Rebuilding
  <2>2. cliRuns = 0 /\ faults = 0 => BehindIs(to, log', table')
    BY <1>7, <1>8, <1>10 DEF BehindIs
  <2>3. QED
    BY <1>1, <1>2, <1>3, <1>4, <1>6, <2>1, <2>2, AloneKeeps
<1>11. QED
  BY <1>9, <1>10

LEMMA EndTables ==
  ASSUME TablesInv, CursorInv', NEW p \in Pass, setCursor(p) \/ setLastLedger(p)
  PROVE  TablesInv'
<1>1. PICK r, to : /\ r = pass[p] /\ Goto(p, to)
                   /\ to = Idle \/ to = [r EXCEPT !.step = "ledger"]
  BY DEF setCursor, setLastLedger
<1>2. r.step \in {"cursor", "ledger"} /\ UNCHANGED <<log, table, faults, cliRuns>>
  BY <1>1 DEF setCursor, setLastLedger
<1>3. /\ r \in PassType /\ r.step \in Running /\ r.step \notin Rebuilding
      /\ log \subseteq Nat
  BY <1>1, <1>2 DEF TablesInv, Running, Rebuilding
<1>4. /\ to \in PassType /\ to.step \in {"idle", "ledger"}
  BY <1>1, <1>3, IdlePass DEF PassType, Steps, Running
<1>5. to.step \notin Rebuilding /\ to.step # "answered" /\ to.step # "write"
  BY <1>4 DEF Rebuilding
<1>6. cliRuns = 0 /\ faults = 0 => BehindIs(to, log', table')
  <2>1. ASSUME cliRuns = 0, faults = 0  PROVE BehindIs(r, log, table)
    BY <1>1, <1>2, <1>3, <2>1, BehindOnlyHere
  <2>2. QED
    BY <1>2, <1>3, <2>1 DEF BehindIs
<1>7. cliRuns = 0 => \A t \in Table : table'[t] \subseteq log'
  BY <1>2 DEF TablesInv, OwnProcess
<1>8. QED
  BY <1>1, <1>2, <1>3, <1>4, <1>5, <1>6, <1>7, AloneKeeps DEF TablesInv

\* A pass that fails, and a process that dies, leaves the tables as they are.
LEMMA FailureTables ==
  ASSUME TablesInv, CursorInv', NEW p \in Pass, PassFails(p) \/ Crash(p)
  PROVE  TablesInv'
<1>1. UNCHANGED <<log, table, cliRuns>> /\ faults' = faults + 1
  BY DEF PassFails, Crash, database
<1>2. \A q \in Pass : pass'[q] = Idle \/ pass'[q] = pass[q]
  BY DEF PassFails, Crash, Goto, TablesInv
<1>3. /\ faults' \in Nat /\ faults' # 0 /\ cliRuns' \in Nat
      /\ pass' \in [Pass -> PassType] /\ log' \subseteq Nat
  BY <1>1 DEF TablesInv, CursorInv
<1>4. Idle.step = "idle" /\ "idle" \notin Running /\ "idle" \notin Rebuilding
  BY IdlePass DEF Running, Rebuilding
<1>5. \A q \in Pass : /\ pass'[q].step = "answered" => pass'[q].at = 1
                      /\ pass'[q].step \in Rebuilding => pass'[q].at \in Table
  BY <1>2, <1>4 DEF TablesInv
<1>6. ASSUME cliRuns = 0  PROVE OwnProcess'
  <2>1. OwnProcess
    BY <1>6 DEF TablesInv
  <2>2. \A q \in CliPass : pass'[q].step = "idle"
    BY <1>2, <1>4, <2>1 DEF OwnProcess, Pass
  <2>3. \A q \in Pass : pass'[q].step \in Running => pass'[q] = pass[q]
    BY <1>2, <1>4
  <2>4. \A q, u \in Pass : pass'[q].step \in Running /\ pass'[u].step \in Running => q = u
    BY <2>1, <2>3 DEF OwnProcess
  <2>5. \A q \in Pass : pass'[q].step = "write" => pass'[q].rows = log'
    BY <1>1, <2>1, <2>3 DEF OwnProcess, Running
  <2>6. \A t \in Table : table'[t] \subseteq log'
    BY <1>1, <2>1 DEF OwnProcess
  <2>7. QED
    BY <1>3, <2>2, <2>4, <2>5, <2>6 DEF OwnProcess
<1>7. QED
  BY <1>1, <1>3, <1>5, <1>6 DEF TablesInv

LEMMA UntouchedTables ==
  ASSUME TablesInv, UNCHANGED <<pass, log, table, cliRuns, faults>>
  PROVE  TablesInv'
BY DEF TablesInv, OwnProcess

LEMMA TablesStep ==
  ASSUME TablesInv, CursorInv', [Next]_vars
  PROVE  TablesInv'
<1>1. ASSUME NEW p \in Pass, indexOnce(p) \/ Continue(p) \/ PassFails(p) \/ Crash(p)
      PROVE  TablesInv'
  BY <1>1, AskTables, PersistTables, LoadTables, RebuildTables, EndTables, FailureTables
  DEF Continue
<1>2. ASSUME NEW batch \in Batches, CloseLedger(batch)
      PROVE  TablesInv'
  BY <1>2, UntouchedTables DEF CloseLedger, database
<1>3. CASE UNCHANGED vars
  BY <1>3, UntouchedTables DEF vars, database
<1>4. QED
  BY <1>1, <1>2, <1>3 DEF Next

\* Between the passes of the server, and as long as nothing failed, every table is
\* derived from the whole log, however the passes overlap (indexer.ts 160-161).
THEOREM TablesAreRebuilt == Spec => []TablesFollowLog
<1>1. Spec => []CursorInv
  BY InitEstablishes, StepKeeps, PTL DEF Spec
<1>2. TablesInv /\ CursorInv' /\ [Next]_vars => TablesInv'
  BY TablesStep
<1>3. Spec => []TablesInv
  BY InitTables, <1>1, <1>2, PTL DEF Spec
<1>4. QED
  BY <1>3, InvImpliesTablesFollow, PTL


TablesGrow == cliRuns' = 0 => \A t \in Table : table[t] \subseteq table'[t]

LEMMA TablesGrowStep ==
  ASSUME TablesInv, [Next]_vars
  PROVE  TablesGrow
<1>1. ASSUME NEW p \in Pass, rebuild(p)  PROVE TablesGrow
  <2>1. PICK r : r = pass[p]
    OBVIOUS
  <2>2. /\ r.step = "write" /\ table' = [table EXCEPT ![r.at] = r.rows] /\ cliRuns' = cliRuns
        /\ table \in [Table -> SUBSET Nat]
    BY <1>1, <2>1 DEF rebuild, TablesInv
  <2>3. ASSUME cliRuns = 0  PROVE r.rows = log /\ \A t \in Table : table[t] \subseteq log
    BY <2>1, <2>2, <2>3 DEF TablesInv, OwnProcess
  <2>4. QED
    BY <2>2, <2>3 DEF TablesGrow
<1>2. table' = table => TablesGrow
  BY DEF TablesGrow
<1>3. ASSUME NEW p \in Pass, indexOnce(p) \/ Continue(p) \/ PassFails(p) \/ Crash(p)
      PROVE  table' = table \/ rebuild(p)
  BY <1>3 DEF Continue, indexOnce, fetchContractEvents, persistEvents, loadEvents,
              setCursor, setLastLedger, PassFails, Crash, database
<1>4. (\E batch \in Batches : CloseLedger(batch)) => table' = table
  BY DEF CloseLedger, database
<1>5. UNCHANGED vars => table' = table
  BY DEF vars, database
<1>6. QED
  BY <1>1, <1>2, <1>3, <1>4, <1>5 DEF Next

\* With the server as the only process no table goes back to an older log, also
\* after failures and crashes (indexer.ts 192, 270).
THEOREM TablesOnlyGrow == Spec => TablesNeverGoBack
<1>1. Spec => []CursorInv
  BY InitEstablishes, StepKeeps, PTL DEF Spec
<1>2. TablesInv /\ CursorInv' /\ [Next]_vars => TablesInv'
  BY TablesStep
<1>3. Spec => []TablesInv
  BY InitTables, <1>1, <1>2, PTL DEF Spec
<1>4. TablesInv /\ [Next]_vars => [TablesGrow]_vars
  BY TablesGrowStep
<1>5. QED
  BY <1>3, <1>4, PTL DEF Spec, TablesNeverGoBack, TablesGrow

-----------------------------------------------------------------------------
(* Types: nothing that a pass holds or a table shows is beyond what there  *)
(* is.                                                                     *)

\* A pass that knows n events of the chain and the log l.
PassIn(n, l) ==
  [step: Steps, after: 0..n, from: 0..(1 + MaxLedger + StartLedger),
   found: SUBSET (1..n), next: 0..n, at: Table, rows: SUBSET l]

\* What setLastLedger takes the newest ledger of is not empty.
FoundSome == \A p \in Pass : pass[p].step = "ledger" => pass[p].found # {}

RangeInv ==
  /\ latest \in 0..MaxLedger
  /\ log \subseteq 1..Len(chain)
  /\ cursor \in 0..Len(chain)
  /\ lastLedger \in 0..latest
  /\ table \in [Table -> SUBSET log]
  /\ pass \in [Pass -> PassIn(Len(chain), log)]
  /\ FoundSome
  /\ cliRuns \in 0..MaxCliRuns
  /\ faults \in 0..MaxFaults

LEMMA LengthOK == ASSUME ChainOK PROVE Len(chain) \in Nat /\ DOMAIN chain = 1..Len(chain)
BY DEF ChainOK

LEMMA RangeImpliesType == CursorInv /\ RangeInv => IndexerTypeOK
<1> SUFFICES ASSUME CursorInv, RangeInv  PROVE IndexerTypeOK
  OBVIOUS
<1>1. ChainOK /\ DOMAIN chain = 1..Len(chain) /\ Len(chain) \in Nat
  BY LengthOK DEF CursorInv
<1> DEFINE Row == [ledger: 1..MaxLedger, kind: Kind]
<1>2. chain \in Seq(Row)
  <2>1. ASSUME NEW i \in DOMAIN chain  PROVE chain[i] \in Row
    <3>1. chain[i] \in [ledger: Nat \ {0}, kind: Kind]
      <4> DEFINE R == [ledger: Nat \ {0}, kind: Kind]
      <4>1. chain \in Seq(R)
        BY <1>1 DEF ChainOK
      <4> HIDE DEF R
      <4>2. chain[i] \in R
        BY <1>1, <2>1, <4>1
      <4>3. QED
        BY <4>2 DEF R
    <3>2. chain[i].ledger <= latest
      BY <1>1 DEF ChainOK
    <3>3. chain[i].ledger \in 1..MaxLedger
      BY <3>1, <3>2, IndexerConstants DEF RangeInv
    <3>4. QED
      BY <3>1, <3>3
  <2> HIDE DEF Row
  <2>2. chain = [i \in 1..Len(chain) |-> chain[i]]
    BY <1>1 DEF ChainOK
  <2>3. QED
    BY <1>1, <2>1, <2>2
<1>3. QED
  BY <1>1, <1>2 DEF RangeInv, IndexerTypeOK, PassIn, Steps

LEMMA PassInGrows ==
  ASSUME NEW n \in Nat, NEW m \in Nat, n <= m, NEW l, NEW k, l \subseteq k,
         NEW r \in PassIn(n, l)
  PROVE  r \in PassIn(m, k)
BY DEF PassIn

LEMMA IdleIn == ASSUME NEW n \in Nat, NEW l PROVE Idle \in PassIn(n, l)
<1>1. 1 \in Table /\ 0 \in 0..(1 + MaxLedger + StartLedger)
  BY IndexerConstants DEF Table
<1>2. QED
  BY <1>1 DEF Idle, PassIn, Steps

\* One pass goes on with what there is.
LEMMA PassWithin ==
  ASSUME RangeInv, ChainOK, UNCHANGED network, log \subseteq log',
         NEW p \in Pass, NEW to \in PassIn(Len(chain), log'),
         to.step = "ledger" => to.found # {}, Goto(p, to)
  PROVE  (pass \in [Pass -> PassIn(Len(chain), log)] /\ FoundSome)'
<1>1. PICK n \in Nat : n = Len(chain)
  BY LengthOK
<1>2. pass \in [Pass -> PassIn(n, log)] /\ FoundSome
  BY <1>1 DEF RangeInv
<1>3. pass' = [pass EXCEPT ![p] = to]
  BY DEF Goto
<1>4. PassIn(n, log) \subseteq PassIn(n, log')
  BY PassInGrows
<1>5. pass' \in [Pass -> PassIn(n, log')]
  BY <1>1, <1>2, <1>3, <1>4
<1>6. \A q \in Pass : pass'[q] = IF q = p THEN to ELSE pass[q]
  BY <1>2, <1>3
<1>7. FoundSome'
  BY <1>2, <1>6 DEF FoundSome
<1>8. chain' = chain
  BY DEF network
<1>9. QED
  BY <1>1, <1>5, <1>7, <1>8

LEMMA TablesWithin ==
  ASSUME RangeInv, log \subseteq log', table' = table
  PROVE  (table \in [Table -> SUBSET log])'
BY DEF RangeInv

LEMMA AskRange ==
  ASSUME RangeInv, ChainOK, NEW p \in Pass, indexOnce(p)
  PROVE  RangeInv'
<1>1. PICK n \in Nat : n = Len(chain)
  BY LengthOK
<1>2. PICK from : from = IF cursor = 0 THEN FirstLedger ELSE 0
  OBVIOUS
<1>3. from \in 0..(1 + MaxLedger + StartLedger)
  <2>1. latest \in 0..MaxLedger
    BY DEF RangeInv
  <2>2. FirstLedger \in 0..(1 + MaxLedger + StartLedger)
    BY <2>1, IndexerConstants DEF FirstLedger
  <2>3. QED
    BY <1>2, <2>2, IndexerConstants
<1>4. cursor \in 0..n
  BY <1>1 DEF RangeInv
<1>5. PICK to : to = [Idle EXCEPT !.step = "asked", !.after = cursor, !.from = from]
  OBVIOUS
<1>6. to \in PassIn(n, log) /\ to.step = "asked"
  <2>1. Idle \in PassIn(n, log)
    BY IdleIn
  <2>2. QED
    BY <1>3, <1>4, <1>5, <2>1 DEF PassIn, Steps
<1>7. Goto(p, to) /\ UNCHANGED <<database, network, faults>>
  BY <1>2, <1>5 DEF indexOnce
<1>8. cliRuns' \in 0..MaxCliRuns
  BY IndexerConstants DEF indexOnce, RangeInv
<1>9. (pass \in [Pass -> PassIn(Len(chain), log)] /\ FoundSome)'
  BY <1>1, <1>6, <1>7, PassWithin DEF database
<1>10. QED
  BY <1>7, <1>8, <1>9 DEF RangeInv, database, network

LEMMA AnswerRange ==
  ASSUME RangeInv, ChainOK, NEW p \in Pass, fetchContractEvents(p)
  PROVE  RangeInv'
<1>1. PICK n \in Nat : n = Len(chain) /\ DOMAIN chain = 1..n
  BY LengthOK
<1>2. PICK page, found, next :
        /\ page = Page(pass[p].after, pass[p].from)
        /\ found = Found(page) /\ next = NextCursor(page)
  OBVIOUS
<1>3. page \subseteq DOMAIN chain
  BY <1>2 DEF Page
<1>4. found \subseteq 1..n
  BY <1>1, <1>2, <1>3 DEF Found
<1>5. next \in 0..n
  <2>1. next \in {0} \cup page
    BY <1>2, <1>3, NextOfPage
  <2>2. QED
    BY <1>1, <1>3, <2>1
<1>6. PICK to : to = [Idle EXCEPT !.step = "answered", !.found = found, !.next = next]
  OBVIOUS
<1>7. to \in PassIn(n, log) /\ to.step = "answered"
  <2>1. Idle \in PassIn(n, log)
    BY IdleIn
  <2>2. QED
    BY <1>4, <1>5, <1>6, <2>1 DEF PassIn, Steps
<1>8. Goto(p, to) /\ UNCHANGED <<database, network, cliRuns, faults>>
  BY <1>2, <1>6 DEF fetchContractEvents
<1>9. (pass \in [Pass -> PassIn(Len(chain), log)] /\ FoundSome)'
  BY <1>1, <1>7, <1>8, PassWithin DEF database
<1>10. QED
  BY <1>8, <1>9 DEF RangeInv, database, network

LEMMA FinishIn ==
  ASSUME NEW n \in Nat, NEW l, NEW r \in PassIn(n, l)
  PROVE  Finish(r) \in PassIn(n, l) /\ Finish(r).step # "ledger"
<1>1. PICK to : to = [r EXCEPT !.step = "cursor", !.rows = {}]
  OBVIOUS
<1>2. to \in PassIn(n, l) /\ to.step = "cursor"
  BY <1>1 DEF PassIn, Steps, Running
<1>3. Idle \in PassIn(n, l) /\ Idle.step # "ledger"
  BY IdleIn, IdlePass
<1>4. QED
  BY <1>1, <1>2, <1>3 DEF Finish

LEMMA AfterTableIn ==
  ASSUME NEW n \in Nat, NEW l, NEW r \in PassIn(n, l)
  PROVE  AfterTable(r) \in PassIn(n, l) /\ AfterTable(r).step # "ledger"
<1>1. CASE r.at < LastTable
  <2>1. PICK k : k = r.at + 1
    OBVIOUS
  <2>2. k \in Table
    BY <1>1, <2>1, IndexerConstants DEF PassIn, Table
  <2>3. PICK to : to = [r EXCEPT !.step = "load", !.at = k, !.rows = {}]
    OBVIOUS
  <2>4. to \in PassIn(n, l) /\ to.step = "load"
    BY <2>2, <2>3 DEF PassIn, Steps, Running
  <2>5. AfterTable(r) = to
    BY <1>1, <2>1, <2>3 DEF AfterTable
  <2>6. QED
    BY <2>4, <2>5
<1>2. CASE ~(r.at < LastTable)
  BY <1>2, FinishIn DEF AfterTable
<1>3. QED
  BY <1>1, <1>2

LEMMA PersistRange ==
  ASSUME RangeInv, ChainOK, NEW p \in Pass, persistEvents(p)
  PROVE  RangeInv'
<1>1. PICK n \in Nat : n = Len(chain)
  BY LengthOK
<1>2. PICK r : r = pass[p]
  OBVIOUS
<1>3. r \in PassIn(n, log) /\ r.found \subseteq 1..n
  BY <1>1, <1>2 DEF RangeInv, PassIn
<1>4. log' = log \cup r.found /\ log' \subseteq 1..n /\ log \subseteq log'
  BY <1>1, <1>2, <1>3 DEF persistEvents, RangeInv
<1>5. r \in PassIn(n, log')
  BY <1>3, <1>4, PassInGrows
<1>6. PICK to : to = IF Inserted(r.found) THEN [r EXCEPT !.step = "load"] ELSE Finish(r)
  OBVIOUS
<1>7. to \in PassIn(n, log') /\ to.step # "ledger"
  <2>1. PICK on : on = [r EXCEPT !.step = "load"]
    OBVIOUS
  <2>2. on \in PassIn(n, log') /\ on.step = "load"
    BY <1>5, <2>1 DEF PassIn, Steps, Running
  <2>3. Finish(r) \in PassIn(n, log') /\ Finish(r).step # "ledger"
    BY <1>5, FinishIn
  <2>4. QED
    BY <1>6, <2>1, <2>2, <2>3
<1>8. Goto(p, to) /\ UNCHANGED <<cursor, lastLedger, table, network, faults, cliRuns>>
  BY <1>2, <1>6 DEF persistEvents
<1>9. (pass \in [Pass -> PassIn(Len(chain), log)] /\ FoundSome)'
  BY <1>1, <1>4, <1>7, <1>8, PassWithin
<1>10. (table \in [Table -> SUBSET log])'
  BY <1>4, <1>8, TablesWithin
<1>11. QED
  BY <1>1, <1>4, <1>8, <1>9, <1>10 DEF RangeInv, network

LEMMA LoadRange ==
  ASSUME RangeInv, ChainOK, NEW p \in Pass, loadEvents(p)
  PROVE  RangeInv'
<1>1. PICK n \in Nat : n = Len(chain)
  BY LengthOK
<1>2. PICK r, to : r = pass[p] /\ to = [r EXCEPT !.step = "write", !.rows = log]
  OBVIOUS
<1>3. r \in PassIn(n, log)
  BY <1>1, <1>2 DEF RangeInv
<1>4. to \in PassIn(n, log) /\ to.step = "write"
  BY <1>2, <1>3 DEF PassIn, Steps, Running
<1>5. Goto(p, to) /\ UNCHANGED <<database, network, cliRuns, faults>>
  BY <1>2 DEF loadEvents
<1>6. (pass \in [Pass -> PassIn(Len(chain), log)] /\ FoundSome)'
  BY <1>1, <1>4, <1>5, PassWithin DEF database
<1>7. QED
  BY <1>5, <1>6 DEF RangeInv, database, network

LEMMA RebuildRange ==
  ASSUME RangeInv, ChainOK, NEW p \in Pass, rebuild(p)
  PROVE  RangeInv'
<1>1. PICK n \in Nat : n = Len(chain)
  BY LengthOK
<1>2. PICK r : r = pass[p]
  OBVIOUS
<1>3. r \in PassIn(n, log) /\ r.rows \subseteq log
  BY <1>1, <1>2 DEF RangeInv, PassIn
<1>4. AfterTable(r) \in PassIn(n, log) /\ AfterTable(r).step # "ledger"
  BY <1>3, AfterTableIn
<1>5. /\ Goto(p, AfterTable(r)) /\ table' = [table EXCEPT ![r.at] = r.rows]
      /\ UNCHANGED <<log, cursor, lastLedger, network, faults, cliRuns>>
  BY <1>2 DEF rebuild
<1>6. table' \in [Table -> SUBSET log]
  BY <1>3, <1>5 DEF RangeInv
<1>7. (pass \in [Pass -> PassIn(Len(chain), log)] /\ FoundSome)'
  BY <1>1, <1>4, <1>5, PassWithin
<1>8. QED
  BY <1>5, <1>6, <1>7 DEF RangeInv, network

LEMMA CursorRange ==
  ASSUME RangeInv, ChainOK, NEW p \in Pass, setCursor(p)
  PROVE  RangeInv'
<1>1. PICK n \in Nat : n = Len(chain)
  BY LengthOK
<1>2. PICK r : r = pass[p]
  OBVIOUS
<1>3. r \in PassIn(n, log) /\ r.next \in 0..n
  BY <1>1, <1>2 DEF RangeInv, PassIn
<1>4. PICK to : to = IF r.found = {} THEN Idle ELSE [r EXCEPT !.step = "ledger"]
  OBVIOUS
<1>5. to \in PassIn(n, log) /\ (to.step = "ledger" => to.found # {})
  <2>1. CASE r.found = {}
    BY <1>4, <2>1, IdleIn, IdlePass
  <2>2. CASE r.found # {}
    <3>1. to = [r EXCEPT !.step = "ledger"]
      BY <1>4, <2>2
    <3>2. QED
      BY <1>3, <2>2, <3>1 DEF PassIn, Steps, Running
  <2>3. QED
    BY <2>1, <2>2
<1>6. /\ Goto(p, to) /\ cursor' = r.next
      /\ UNCHANGED <<log, lastLedger, table, network, faults, cliRuns>>
  BY <1>2, <1>4 DEF setCursor
<1>7. (pass \in [Pass -> PassIn(Len(chain), log)] /\ FoundSome)'
  BY <1>1, <1>5, <1>6, PassWithin
<1>8. QED
  BY <1>1, <1>3, <1>6, <1>7 DEF RangeInv, network

LEMMA LastLedgerRange ==
  ASSUME RangeInv, ChainOK, NEW p \in Pass, setLastLedger(p)
  PROVE  RangeInv'
<1>1. PICK n \in Nat : n = Len(chain) /\ DOMAIN chain = 1..n
  BY LengthOK
<1>2. PICK f : f = pass[p].found
  OBVIOUS
<1>3. f # {} /\ f \subseteq 1..n
  <2>1. pass[p] \in PassIn(n, log) /\ (pass[p].step = "ledger" => f # {})
    BY <1>1, <1>2 DEF RangeInv, FoundSome
  <2>2. QED
    BY <1>2, <2>1 DEF setLastLedger, PassIn
<1>4. PICK S : S = {chain[i].ledger : i \in f}
  OBVIOUS
<1>5. latest \in Nat
  BY DEF ChainOK
<1>6. S # {} /\ S \subseteq 0..latest
  <2>1. ASSUME NEW i \in f  PROVE chain[i].ledger \in 0..latest
    <3>1. i \in DOMAIN chain
      BY <1>1, <1>3
    <3>2. chain[i].ledger \in Nat /\ chain[i].ledger <= latest
      BY <3>1, ChainRow DEF ChainOK
    <3>3. QED
      BY <1>5, <3>2
  <2>2. QED
    BY <1>3, <1>4, <2>1
<1>7. Max(S) \in 0..latest
  BY <1>5, <1>6, MaxExists
<1>8. /\ Goto(p, Idle) /\ lastLedger' = Max(S)
      /\ UNCHANGED <<log, cursor, table, network, faults, cliRuns>>
  BY <1>2, <1>4 DEF setLastLedger
<1>9. Idle \in PassIn(n, log) /\ Idle.step # "ledger"
  BY IdleIn, IdlePass
<1>10. (pass \in [Pass -> PassIn(Len(chain), log)] /\ FoundSome)'
  BY <1>1, <1>8, <1>9, PassWithin
<1>11. QED
  BY <1>7, <1>8, <1>10 DEF RangeInv, network

LEMMA FailureRange ==
  ASSUME RangeInv, ChainOK, NEW p \in Pass, PassFails(p) \/ Crash(p)
  PROVE  RangeInv'
<1>1. PICK n \in Nat : n = Len(chain)
  BY LengthOK
<1>2. Idle \in PassIn(n, log) /\ Idle.step # "ledger"
  BY IdleIn, IdlePass
<1>3. UNCHANGED <<database, network, cliRuns>> /\ faults' \in 0..MaxFaults
  BY IndexerConstants DEF PassFails, Crash, RangeInv
<1>4. PICK D : pass' = [q \in Pass |-> IF q \in D THEN Idle ELSE pass[q]]
  <2>1. CASE PassFails(p)
    <3>1. pass' = [pass EXCEPT ![p] = Idle]
      BY <2>1 DEF PassFails, Goto
    <3>2. pass' = [q \in Pass |-> IF q \in {p} THEN Idle ELSE pass[q]]
      BY <3>1 DEF RangeInv
    <3>3. QED
      BY <3>2
  <2>2. CASE Crash(p)
    BY <2>2 DEF Crash
  <2>3. QED
    BY <2>1, <2>2
<1>5. pass \in [Pass -> PassIn(n, log)] /\ FoundSome
  BY <1>1 DEF RangeInv
<1>6. pass' \in [Pass -> PassIn(n, log)]
  BY <1>2, <1>4, <1>5
<1>7. FoundSome'
  BY <1>2, <1>4, <1>5 DEF FoundSome
<1>8. QED
  BY <1>1, <1>3, <1>6, <1>7 DEF RangeInv, database, network

LEMMA CloseRange ==
  ASSUME RangeInv, ChainOK, ChainOK', NEW batch \in Batches, CloseLedger(batch)
  PROVE  RangeInv'
<1>1. PICK n \in Nat, m \in Nat : n = Len(chain) /\ m = Len(chain')
  BY LengthOK DEF ChainOK
<1>2. n <= m
  <2>1. Extends(chain, chain')
    BY ChainGrows
  <2>2. DOMAIN chain = 1..n /\ DOMAIN chain' = 1..m
    BY <1>1 DEF ChainOK
  <2>3. QED
    BY <2>1, <2>2 DEF Extends
<1>3. /\ latest' = latest + 1 /\ latest < MaxLedger
      /\ UNCHANGED <<database, pass, faults, cliRuns>>
  BY DEF CloseLedger
<1>4. latest' \in 0..MaxLedger /\ (lastLedger \in 0..latest)'
  BY <1>3, IndexerConstants DEF RangeInv, database
<1>5. PassIn(n, log) \subseteq PassIn(m, log)
  BY <1>2, PassInGrows
<1>6. pass' \in [Pass -> PassIn(m, log)]
  BY <1>1, <1>3, <1>5 DEF RangeInv
<1>7. FoundSome'
  BY <1>3 DEF FoundSome, RangeInv
<1>8. QED
  BY <1>1, <1>2, <1>3, <1>4, <1>6, <1>7 DEF RangeInv, database

LEMMA RangeStep ==
  ASSUME RangeInv, CursorInv, CursorInv', [Next]_vars
  PROVE  RangeInv'
<1>1. ChainOK /\ ChainOK'
  BY DEF CursorInv
<1>2. ASSUME NEW p \in Pass, indexOnce(p) \/ Continue(p) \/ PassFails(p) \/ Crash(p)
      PROVE  RangeInv'
  BY <1>1, <1>2, AskRange, AnswerRange, PersistRange, LoadRange, RebuildRange, CursorRange,
     LastLedgerRange, FailureRange DEF Continue
<1>3. ASSUME NEW batch \in Batches, CloseLedger(batch)  PROVE RangeInv'
  BY <1>1, <1>3, CloseRange
<1>4. CASE UNCHANGED vars
  BY <1>4 DEF vars, database, network, RangeInv, FoundSome
<1>5. QED
  BY <1>2, <1>3, <1>4 DEF Next

LEMMA InitRange == Init => RangeInv
<1> SUFFICES ASSUME Init PROVE RangeInv
  OBVIOUS
<1>1. Len(chain) = 0 /\ log = {}
  BY DEF Init
<1>2. Idle \in PassIn(0, log) /\ Idle.step # "ledger"
  BY IdleIn, IdlePass
<1>3. pass \in [Pass -> PassIn(Len(chain), log)] /\ FoundSome
  BY <1>1, <1>2 DEF Init, FoundSome
<1>4. QED
  BY <1>1, <1>3, IndexerConstants DEF Init, RangeInv

\* The cursor, the log, the tables and what every pass holds never point beyond the
\* chain, the tables never beyond the log, and the last ledger is one that closed:
\* a pass that comes to write it has found something (indexer.ts 748-763).
THEOREM IndexerTypes == Spec => []IndexerTypeOK
<1>1. Spec => []CursorInv
  BY InitEstablishes, StepKeeps, PTL DEF Spec
<1>2. RangeInv /\ CursorInv /\ CursorInv' /\ [Next]_vars => RangeInv'
  BY RangeStep
<1>3. QED
  BY <1>1, <1>2, InitRange, RangeImpliesType, PTL DEF Spec
=============================================================================
