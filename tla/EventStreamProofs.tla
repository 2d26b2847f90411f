------------------------- MODULE EventStreamProofs -------------------------
(***************************************************************************)
(* Proofs about the rate limiter and the event stream behind it.           *)
(*                                                                         *)
(* The limit of a window is counted in the window, but what is promised    *)
(* for any time of its length is a sum over the ages of requests: the      *)
(* invariant says what that sum is at each end of the window.              *)
(***************************************************************************)
EXTENDS EventStream, SumTheorems

USE LimiterAssumption, StreamAssumption

-----------------------------------------------------------------------------
(* Division.                                                               *)

LEMMA Division ==
  ASSUME NEW n \in Nat, NEW d \in Nat \ {0}
  PROVE  /\ n \div d \in Nat
         /\ d * (n \div d) <= n /\ n < d * (n \div d) + d
<1>1. n \div d \in Nat /\ (n % d) \in 0..(d - 1) /\ n = d * (n \div d) + (n % d)
  OBVIOUS
<1>2. QED
  BY <1>1

\* There is one quotient.
LEMMA QuotientsAtMost ==
  ASSUME NEW d \in Nat \ {0}, NEW p \in Nat, NEW q \in Nat, d * p < d * q + d
  PROVE  p <= q
<1>1. SUFFICES ASSUME p >= q + 1 PROVE FALSE
  OBVIOUS
<1>2. d * p >= d * (q + 1) /\ d * (q + 1) = d * q + d
  BY <1>1
<1>3. d * p \in Nat /\ d * q \in Nat
  OBVIOUS
<1>4. QED
  BY <1>2, <1>3

LEMMA QuotientsGrow ==
  ASSUME NEW m \in Nat, NEW n \in Nat, m <= n, NEW d \in Nat \ {0}
  PROVE  m \div d <= n \div d
<1>1. /\ m \div d \in Nat /\ n \div d \in Nat
      /\ d * (m \div d) <= m /\ n < d * (n \div d) + d
  BY Division
<1>2. d * (m \div d) < d * (n \div d) + d
  <2>1. d * (m \div d) \in Nat /\ d * (n \div d) \in Nat
    BY <1>1
  <2>2. QED
    BY <1>1, <2>1
<1>3. QED
  BY <1>1, <1>2, QuotientsAtMost

LEMMA OneMore ==
  ASSUME NEW n \in Nat, NEW d \in Nat \ {0}
  PROVE  (n + d) \div d <= n \div d + 1 /\ n \div d + 1 <= (n + d) \div d
<1>1. /\ n \div d \in Nat /\ (n + d) \div d \in Nat
      /\ d * (n \div d) <= n /\ n < d * (n \div d) + d
      /\ d * ((n + d) \div d) <= n + d /\ n + d < d * ((n + d) \div d) + d
  BY Division, n + d \in Nat
<1>2. d * (n \div d + 1) = d * (n \div d) + d /\ n \div d + 1 \in Nat
  BY <1>1
<1>3. /\ d * (n \div d) \in Nat /\ d * ((n + d) \div d) \in Nat
  BY <1>1
<1>4. d * ((n + d) \div d) < d * (n \div d + 1) + d
  BY <1>1, <1>2, <1>3
<1>5. d * (n \div d + 1) < d * ((n + d) \div d) + d
  BY <1>1, <1>2, <1>3
<1>6. QED
  BY <1>1, <1>2, <1>4, <1>5, QuotientsAtMost

\* Rounding up to seconds (Math.ceil): not less, and less than a second more.
LEMMA RoundedUp ==
  ASSUME NEW l \in Nat
  PROVE  /\ ((l + Second - 1) \div Second) * Second \in Nat
         /\ l <= ((l + Second - 1) \div Second) * Second
         /\ ((l + Second - 1) \div Second) * Second <= l + Second - 1
<1> DEFINE n == l + Second - 1
           q == n \div Second
<1>1. n \in Nat /\ Second \in Nat \ {0}
  OBVIOUS
<1>2. q \in Nat /\ Second * q <= n /\ n < Second * q + Second
  <2> HIDE DEF n
  <2>1. QED
    BY <1>1, Division
<1> HIDE DEF q
<1>3. q * Second = Second * q /\ q * Second \in Nat
  BY <1>2
<1>4. QED
  BY <1>1, <1>2, <1>3 DEF q

-----------------------------------------------------------------------------
(* Types.                                                                  *)

\* A window that is not over.
Live(ip) == ip \in DOMAIN windows /\ windows[ip].left > 0

\* What a request of an address leaves of its window.
LEMMA WindowOfRequest ==
  ASSUME LimiterTypeOK, NEW ip \in Ip
  PROVE  /\ DOMAIN Counted(ip) = {i \in DOMAIN windows : windows[i].left > 0} \cup {ip}
         /\ \A i \in DOMAIN Counted(ip) \ {ip} : Counted(ip)[i] = windows[i]
         /\ ~Live(ip) => Counted(ip)[ip].count = 1 /\ Counted(ip)[ip].left = RateLimitWindow
         /\ Live(ip) =>
              /\ Counted(ip)[ip].left = windows[ip].left
              /\ Counted(ip)[ip].count =
                   IF windows[ip].count > RateLimitMax THEN windows[ip].count
                   ELSE windows[ip].count + 1
         /\ Counted(ip)[ip] \in [count: 1..(RateLimitMax + 1), left: 0..RateLimitWindow]
<1>1. /\ DOMAIN prune = {i \in DOMAIN windows : windows[i].left > 0}
      /\ \A i \in DOMAIN prune : prune[i] = windows[i]
  BY DEF prune
<1>2. ip \in DOMAIN prune <=> Live(ip)
  BY <1>1 DEF Live
<1>3. DOMAIN Counted(ip) = DOMAIN prune \cup {ip}
  BY DEF Counted
<1>4. \A i \in DOMAIN Counted(ip) \ {ip} : Counted(ip)[i] = windows[i]
  BY <1>1 DEF Counted
<1>5. CASE ~Live(ip)
  <2>1. Counted(ip)[ip] = [count |-> 1, left |-> RateLimitWindow]
    BY <1>2, <1>5 DEF Counted
  <2>2. QED
    BY <1>1, <1>3, <1>4, <1>5, <2>1
<1>6. CASE Live(ip)
  <2> DEFINE w == windows[ip]
  <2>1. w \in [count: 1..(RateLimitMax + 1), left: 0..RateLimitWindow]
    BY <1>6 DEF Live, LimiterTypeOK
  <2>2. Counted(ip)[ip] =
          [w EXCEPT !.count = IF w.count > RateLimitMax THEN w.count ELSE w.count + 1]
    BY <1>1, <1>2, <1>6 DEF Counted
  <2> HIDE DEF w
  <2>3. /\ Counted(ip)[ip].left = w.left
        /\ Counted(ip)[ip].count = IF w.count > RateLimitMax THEN w.count ELSE w.count + 1
        /\ Counted(ip)[ip] \in [count: 1..(RateLimitMax + 1), left: 0..RateLimitWindow]
    BY <2>1, <2>2
  <2>4. QED
    BY <1>1, <1>3, <1>4, <1>6, <2>3 DEF w
<1>7. QED
  BY <1>5, <1>6

\* Only of a window that is not over a request is refused.
LEMMA RefusedIsLive ==
  ASSUME LimiterTypeOK, NEW ip \in Ip
  PROVE  Admits(ip) <=> ~Live(ip) \/ windows[ip].count < RateLimitMax
<1>1. Live(ip) => windows[ip].count \in 1..(RateLimitMax + 1)
  BY DEF LimiterTypeOK, Live
<1>2. /\ ~Live(ip) => Counted(ip)[ip].count = 1
      /\ Live(ip) =>
           Counted(ip)[ip].count =
             IF windows[ip].count > RateLimitMax THEN windows[ip].count ELSE windows[ip].count + 1
  BY WindowOfRequest
<1>3. RateLimitMax \in Nat /\ RateLimitMax >= 1
  OBVIOUS
<1>4. QED
  BY <1>1, <1>2, <1>3 DEF Admits

LEMMA LimiterTypeInit ==
  ASSUME LimiterInit PROVE LimiterTypeOK
BY DEF LimiterInit, LimiterTypeOK

LEMMA RequestTypes ==
  ASSUME LimiterTypeOK, NEW ip \in Ip, rateLimit(ip)
  PROVE  LimiterTypeOK'
<1> DEFINE W == [count: 1..(RateLimitMax + 1), left: 0..RateLimitWindow]
<1>0. /\ windows' = Counted(ip)
      /\ DOMAIN Counted(ip) = {i \in DOMAIN windows : windows[i].left > 0} \cup {ip}
      /\ \A i \in DOMAIN Counted(ip) \ {ip} : Counted(ip)[i] = windows[i]
      /\ Counted(ip)[ip] \in W
  BY WindowOfRequest DEF rateLimit
<1>1. DOMAIN windows' \subseteq Ip
  BY <1>0 DEF LimiterTypeOK
<1>2. \A i \in DOMAIN windows' : windows'[i] \in W
  <2>1. \A i \in DOMAIN windows : windows[i] \in W
    BY DEF LimiterTypeOK
  <2> HIDE DEF W
  <2>2. QED
    BY <1>0, <2>1
<1>3. recent' \in [Ip -> [Ages -> Nat]]
  <2>1. recent \in [Ip -> [Ages -> Nat]] /\ 0 \in Ages
    BY DEF LimiterTypeOK, Ages
  <2>2. recent[ip] \in [Ages -> Nat]
    BY <2>1
  <2>3. [recent[ip] EXCEPT ![0] = @ + 1] \in [Ages -> Nat]
    BY <2>1, <2>2
  <2>4. recent' = recent \/ recent' = [recent EXCEPT ![ip] = [recent[ip] EXCEPT ![0] = @ + 1]]
    BY DEF rateLimit
  <2>5. QED
    BY <2>1, <2>3, <2>4
<1>4. promised' \in [Ip -> {Free} \cup 0..(RateLimitWindow + Second)]
  <2>1. Admits(ip) \/ RetryAfter(ip) * Second \in 0..(RateLimitWindow + Second)
    <3>1. SUFFICES ASSUME ~Admits(ip) PROVE RetryAfter(ip) * Second \in 0..(RateLimitWindow + Second)
      OBVIOUS
    <3>2. windows[ip].left \in 0..RateLimitWindow
      BY <3>1, RefusedIsLive DEF LimiterTypeOK, Live
    <3>3. QED
      BY <3>2, RoundedUp DEF RetryAfter
  <2>2. QED
    BY <2>1 DEF LimiterTypeOK, rateLimit
<1>5. QED
  BY <1>1, <1>2, <1>3, <1>4 DEF LimiterTypeOK

LEMMA PassTypes ==
  ASSUME LimiterTypeOK, Pass
  PROVE  LimiterTypeOK'
<1>1. DOMAIN windows' = DOMAIN windows
  BY DEF Pass
<1>2. \A i \in DOMAIN windows' :
        windows'[i] \in [count: 1..(RateLimitMax + 1), left: 0..RateLimitWindow]
  <2>1. TAKE i \in DOMAIN windows'
  <2>2. windows[i] \in [count: 1..(RateLimitMax + 1), left: 0..RateLimitWindow]
    BY <1>1 DEF LimiterTypeOK
  <2>3. windows'[i] = [windows[i] EXCEPT !.left = IF windows[i].left = 0 THEN 0 ELSE windows[i].left - 1]
    BY <1>1 DEF Pass
  <2>4. QED
    BY <2>2, <2>3
<1>3. recent' \in [Ip -> [Ages -> Nat]]
  <2>1. \A i \in Ip, age \in Ages : age # 0 => age - 1 \in Ages
    BY DEF Ages
  <2>2. QED
    BY <2>1 DEF Pass, LimiterTypeOK
<1>4. promised' \in [Ip -> {Free} \cup 0..(RateLimitWindow + Second)]
  BY DEF LimiterTypeOK, Pass, Free
<1>5. QED
  BY <1>1, <1>2, <1>3, <1>4 DEF LimiterTypeOK

LEMMA ForgetTypes ==
  ASSUME LimiterTypeOK, Forget
  PROVE  LimiterTypeOK'
BY DEF LimiterTypeOK, Forget

-----------------------------------------------------------------------------
(* Requests by their age.                                                  *)

\* The n newest ages.
Newest(n) == {age \in Ages : age < n}

\* As many requests of the address as are younger than n ticks.
Recently(ip, n) == Sum(recent[ip], Newest(n))

LEMMA NewestGrow ==
  ASSUME NEW n \in 0..(RateLimitWindow - 1)
  PROVE  /\ n \notin Newest(n) /\ n \in Ages
         /\ Newest(n + 1) = Newest(n) \cup {n}
         /\ IsFiniteSet(Newest(n))
<1>1. n \notin Newest(n) /\ n \in Ages /\ Newest(n + 1) = Newest(n) \cup {n}
  BY DEF Newest, Ages
<1>2. IsFiniteSet(Newest(n))
  <2>1. IsFiniteSet(0..(RateLimitWindow - 1))
    BY FS_Interval
  <2>2. QED
    BY <2>1, FS_Subset DEF Newest, Ages
<1>3. QED
  BY <1>1, <1>2

LEMMA NewestAreAll ==
  /\ Newest(0) = {}
  /\ Newest(RateLimitWindow) = Ages
  /\ IsFiniteSet(Ages)
<1>1. IsFiniteSet(Ages)
  BY FS_Interval DEF Ages
<1>2. QED
  BY <1>1 DEF Newest, Ages

LEMMA SumNewest ==
  ASSUME NEW f \in [Ages -> Nat], NEW n \in 0..(RateLimitWindow - 1)
  PROVE  Sum(f, Newest(n + 1)) = f[n] + Sum(f, Newest(n))
<1>1. \A age \in Newest(n) : f[age] \in Nat
  BY DEF Newest
<1>2. f[n] \in Nat
  BY NewestGrow
<1>3. QED
  BY <1>1, <1>2, NewestGrow, SumAdd

LEMMA SumNewestType ==
  ASSUME NEW f \in [Ages -> Nat], NEW n \in 0..RateLimitWindow
  PROVE  Sum(f, Newest(n)) \in Nat
<1>1. IsFiniteSet(Newest(n))
  BY NewestAreAll, FS_Subset DEF Newest
<1>2. \A age \in Newest(n) : f[age] \in Nat
  BY DEF Newest
<1>3. QED
  BY <1>1, <1>2, SumType

\* A tick later, the requests are those of the ages before, each a tick older.
LEMMA SumShifted ==
  ASSUME NEW f \in [Ages -> Nat], NEW n \in 0..(RateLimitWindow - 1)
  PROVE  Sum([age \in Ages |-> IF age = 0 THEN 0 ELSE f[age - 1]], Newest(n + 1)) =
           Sum(f, Newest(n))
<1> DEFINE g == [age \in Ages |-> IF age = 0 THEN 0 ELSE f[age - 1]]
           T == {m \in Nat : m < RateLimitWindow => Sum(g, Newest(m + 1)) = Sum(f, Newest(m))}
<1>1. g \in [Ages -> Nat]
  BY DEF Ages
<1>2. /\ 0 \in Ages /\ g[0] = 0
      /\ \A m \in Nat : m + 1 \in Ages => g[m + 1] = f[m]
  BY DEF Ages
<1> HIDE DEF g
<1>3. 0 \in T
  <2>1. Sum(g, Newest(0 + 1)) = g[0] + Sum(g, Newest(0))
    BY <1>1, SumNewest, 0 \in 0..(RateLimitWindow - 1)
  <2>2. Sum(g, Newest(0)) = 0 /\ Sum(f, Newest(0)) = 0
    BY NewestAreAll, SumEmpty
  <2>3. QED
    BY <1>2, <2>1, <2>2
<1>4. ASSUME NEW m \in Nat, m \in T  PROVE m + 1 \in T
  <2>1. SUFFICES ASSUME m + 1 < RateLimitWindow
                 PROVE  Sum(g, Newest((m + 1) + 1)) = Sum(f, Newest(m + 1))
    OBVIOUS
  <2>2. m + 1 \in 0..(RateLimitWindow - 1) /\ m \in 0..(RateLimitWindow - 1) /\ m + 1 \in Ages
    BY <2>1 DEF Ages
  <2>3. Sum(g, Newest((m + 1) + 1)) = g[m + 1] + Sum(g, Newest(m + 1))
    BY <1>1, <2>2, SumNewest
  <2>4. Sum(f, Newest(m + 1)) = f[m] + Sum(f, Newest(m))
    BY <2>2, SumNewest
  <2>5. Sum(g, Newest(m + 1)) = Sum(f, Newest(m))
    BY <1>4, <2>1
  <2>6. g[m + 1] = f[m]
    BY <1>2, <2>2
  <2>7. QED
    BY <2>3, <2>4, <2>5, <2>6
<1>5. \A m \in Nat : m \in T
  <2> HIDE DEF T
  <2>1. QED
    BY <1>3, <1>4, NaturalInduction
<1>6. QED
  BY <1>5 DEF g

\* One more request now.
LEMMA SumOneMore ==
  ASSUME NEW f \in [Ages -> Nat], NEW n \in 1..RateLimitWindow
  PROVE  Sum([f EXCEPT ![0] = @ + 1], Newest(n)) = Sum(f, Newest(n)) + 1
<1> DEFINE g == [f EXCEPT ![0] = @ + 1]
           S == Newest(n)
<1>1. 0 \in S /\ S \subseteq Ages
  BY DEF Newest, Ages
<1>2. IsFiniteSet(S)
  BY <1>1, NewestAreAll, FS_Subset
<1>3. g[0] = f[0] + 1 /\ f[0] \in Nat /\ \A age \in S \ {0} : g[age] = f[age]
  BY <1>1
<1>4. \A age \in S : f[age] \in Nat
  BY <1>1
<1>5. Sum(f, S) \in Nat /\ Sum(g, S) \in Nat
  <2>1. g \in [Ages -> Nat]
    BY <1>1, <1>3
  <2>2. n \in 0..RateLimitWindow
    OBVIOUS
  <2> HIDE DEF g
  <2>3. QED
    BY <2>1, <2>2, SumNewestType
<1> HIDE DEF g, S
<1>6. Sum(g, S) + f[0] = Sum(f, S) + g[0]
  <2>1. g[0] \in Nat
    BY <1>3
  <2>2. QED
    BY <1>1, <1>2, <1>3, <1>4, <2>1, SumChange
<1>7. QED
  BY <1>3, <1>5, <1>6 DEF g, S

-----------------------------------------------------------------------------
(* The limit.                                                              *)

\* The ages of the requests that a window has counted.
Spent(ip) == RateLimitWindow - windows[ip].left + 1

\* A window has counted what was admitted since it began, up to the limit, and
\* not more than the limit is left of what was admitted before.
WindowSays(ip) ==
  /\ Recently(ip, Spent(ip)) =
       IF windows[ip].count > RateLimitMax THEN RateLimitMax ELSE windows[ip].count
  /\ Recently(ip, RateLimitWindow) - Recently(ip, Spent(ip)) <= RateLimitMax

\* When it is over, all of it together is not more than the limit, and nothing
\* is admitted before a new window begins.
NoWindowSays(ip) ==
  /\ Recently(ip, RateLimitWindow) <= RateLimitMax
  /\ recent[ip][0] = 0

LimitOf(ip) == (Live(ip) => WindowSays(ip)) /\ (~Live(ip) => NoWindowSays(ip))

LimiterInv == LimiterTypeOK /\ \A ip \in Ip : LimitOf(ip)

LEMMA RecentlyType ==
  ASSUME LimiterTypeOK, NEW ip \in Ip, NEW n \in 0..RateLimitWindow
  PROVE  Recently(ip, n) \in Nat
<1>1. recent[ip] \in [Ages -> Nat]
  BY DEF LimiterTypeOK
<1>2. QED
  BY <1>1, SumNewestType DEF Recently

LEMMA LiveTypes ==
  ASSUME LimiterTypeOK, NEW ip \in Ip, Live(ip)
  PROVE  /\ windows[ip].count \in 1..(RateLimitMax + 1)
         /\ windows[ip].left \in 1..RateLimitWindow
         /\ Spent(ip) \in 1..RateLimitWindow
<1>1. windows[ip] \in [count: 1..(RateLimitMax + 1), left: 0..RateLimitWindow]
  BY DEF LimiterTypeOK, Live
<1>2. QED
  BY <1>1 DEF Live, Spent

LEMMA LiveWindowOfRequest ==
  ASSUME LimiterTypeOK, NEW ip \in Ip, Live(ip)
  PROVE  /\ Counted(ip)[ip].left = windows[ip].left
         /\ windows[ip].count < RateLimitMax => Counted(ip)[ip].count = windows[ip].count + 1
         /\ windows[ip].count >= RateLimitMax => Counted(ip)[ip].count = RateLimitMax + 1
<1>1. /\ Counted(ip)[ip].left = windows[ip].left
      /\ Counted(ip)[ip].count =
           IF windows[ip].count > RateLimitMax THEN windows[ip].count ELSE windows[ip].count + 1
  BY WindowOfRequest
<1>2. windows[ip].count \in 1..(RateLimitMax + 1) /\ RateLimitMax \in Nat
  BY LiveTypes
<1>3. QED
  BY <1>1, <1>2

\* Nothing was asked, or everything is forgotten: the sums are zero.
LEMMA NothingRecent == Sum([age \in Ages |-> 0], Newest(RateLimitWindow)) = 0
<1> DEFINE f == [age \in Ages |-> 0]
<1>1. IsFiniteSet(Ages) /\ Newest(RateLimitWindow) = Ages /\ Cardinality(Ages) \in Nat
  BY NewestAreAll, FS_CardinalityType
<1>2. \A age \in Ages : f[age] \in Nat /\ f[age] <= 0
  OBVIOUS
<1> HIDE DEF f
<1>3. Sum(f, Ages) <= Cardinality(Ages) * 0 /\ Sum(f, Ages) \in Nat
  BY <1>1, <1>2, SumBound, SumType, 0 \in Nat
<1>4. Sum(f, Ages) = 0
  BY <1>1, <1>3
<1>5. QED
  BY <1>1, <1>4 DEF f

LEMMA LimiterInvInit ==
  ASSUME LimiterInit PROVE LimiterInv
<1>1. LimiterTypeOK
  BY LimiterTypeInit
<1>2. ASSUME NEW ip \in Ip PROVE LimitOf(ip)
  <2>1. recent[ip] = [age \in Ages |-> 0] /\ ~Live(ip)
    BY DEF LimiterInit, Live
  <2>2. Recently(ip, RateLimitWindow) = 0 /\ recent[ip][0] = 0
    BY <2>1, NothingRecent DEF Recently, Ages
  <2>3. QED
    BY <2>1, <2>2 DEF LimitOf, NoWindowSays
<1>3. QED
  BY <1>1, <1>2 DEF LimiterInv

\* A request of another address does not matter.
LEMMA OthersAreApart ==
  ASSUME LimiterInv, NEW ip \in Ip, rateLimit(ip), NEW other \in Ip, other # ip
  PROVE  LimitOf(other)'
<1>1. LimiterTypeOK /\ LimitOf(other)
  BY DEF LimiterInv
<1>2. recent'[other] = recent[other]
  BY <1>1 DEF rateLimit, LimiterTypeOK
<1>3. /\ other \in DOMAIN windows' <=> Live(other)
      /\ Live(other) => windows'[other] = windows[other]
  <2>1. /\ windows' = Counted(ip)
        /\ DOMAIN Counted(ip) = {i \in DOMAIN windows : windows[i].left > 0} \cup {ip}
        /\ \A i \in DOMAIN Counted(ip) \ {ip} : Counted(ip)[i] = windows[i]
    BY <1>1, WindowOfRequest DEF rateLimit
  <2>2. QED
    BY <2>1 DEF Live
<1>4. Live(other)' <=> Live(other)
  BY <1>3 DEF Live
<1>5. Live(other) => Spent(other)' = Spent(other) /\ windows'[other].count = windows[other].count
  BY <1>3 DEF Spent
<1>6. CASE Live(other)
  BY <1>1, <1>2, <1>4, <1>5, <1>6 DEF LimitOf, WindowSays, Recently
<1>7. CASE ~Live(other)
  BY <1>1, <1>2, <1>4, <1>7 DEF LimitOf, NoWindowSays, Recently
<1>8. QED
  BY <1>6, <1>7

\* A request that is admitted: the window and the sums count it.
LEMMA AdmittedIsCounted ==
  ASSUME LimiterInv, NEW ip \in Ip, rateLimit(ip), Admits(ip)
  PROVE  LimitOf(ip)'
<1>1. LimiterTypeOK /\ LimitOf(ip) /\ LimiterTypeOK'
  BY RequestTypes DEF LimiterInv
<1>2. recent[ip] \in [Ages -> Nat] /\ recent'[ip] = [recent[ip] EXCEPT ![0] = @ + 1]
  BY <1>1 DEF rateLimit, LimiterTypeOK
<1>3. ASSUME NEW n \in 1..RateLimitWindow
      PROVE  Recently(ip, n)' = Recently(ip, n) + 1 /\ Recently(ip, n) \in Nat
  <2>1. Sum(recent'[ip], Newest(n)) = Sum(recent[ip], Newest(n)) + 1
    BY <1>2, SumOneMore
  <2>2. n \in 0..RateLimitWindow
    OBVIOUS
  <2>3. QED
    BY <1>1, <2>1, <2>2, RecentlyType DEF Recently
<1>4. ip \in DOMAIN windows' /\ windows'[ip] = Counted(ip)[ip]
  BY <1>1, WindowOfRequest DEF rateLimit
<1>5. CASE Live(ip)
  <2>1. /\ windows'[ip].left = windows[ip].left
        /\ windows'[ip].count = windows[ip].count + 1 /\ windows[ip].count < RateLimitMax
    BY <1>1, <1>4, <1>5, LiveWindowOfRequest, RefusedIsLive
  <2>2. Spent(ip) \in 1..RateLimitWindow /\ Spent(ip)' = Spent(ip) /\ Live(ip)'
    BY <1>1, <1>4, <1>5, <2>1, LiveTypes DEF Spent, Live
  <2>3. /\ Recently(ip, Spent(ip))' = Recently(ip, Spent(ip)) + 1
        /\ Recently(ip, Spent(ip)) \in Nat
    <3>1. \A n \in 1..RateLimitWindow :
            Sum(recent'[ip], Newest(n)) = Recently(ip, n) + 1 /\ Recently(ip, n) \in Nat
      BY <1>3 DEF Recently
    <3>2. QED
      BY <2>2, <3>1 DEF Recently
  <2>4. /\ Recently(ip, RateLimitWindow)' = Recently(ip, RateLimitWindow) + 1
        /\ Recently(ip, RateLimitWindow) \in Nat
    BY <1>3, RateLimitWindow \in 1..RateLimitWindow
  <2>5. WindowSays(ip) /\ windows[ip].count \in Nat
    BY <1>1, <1>5, LiveTypes DEF LimitOf
  <2>6. WindowSays(ip)'
    BY <2>1, <2>3, <2>4, <2>5 DEF WindowSays
  <2>7. QED
    BY <2>2, <2>6 DEF LimitOf
<1>6. CASE ~Live(ip)
  <2>1. windows'[ip].left = RateLimitWindow /\ windows'[ip].count = 1
    BY <1>1, <1>4, <1>6, WindowOfRequest
  <2>2. Spent(ip)' = 1 /\ Live(ip)'
    BY <1>4, <2>1 DEF Spent, Live
  <2>3. Recently(ip, 1) = 0
    <3>1. Sum(recent[ip], Newest(0 + 1)) = recent[ip][0] + Sum(recent[ip], Newest(0))
      BY <1>2, SumNewest, 0 \in 0..(RateLimitWindow - 1)
    <3>2. recent[ip][0] = 0 /\ Sum(recent[ip], Newest(0)) = 0
      BY <1>1, <1>6, NewestAreAll, SumEmpty DEF LimitOf, NoWindowSays
    <3>3. QED
      BY <3>1, <3>2 DEF Recently
  <2>4. Recently(ip, 1)' = 1
    BY <1>3, <2>3, 1 \in 1..RateLimitWindow
  <2>5. /\ Recently(ip, RateLimitWindow)' = Recently(ip, RateLimitWindow) + 1
        /\ Recently(ip, RateLimitWindow) \in Nat
    BY <1>3, RateLimitWindow \in 1..RateLimitWindow
  <2>6. Recently(ip, RateLimitWindow) <= RateLimitMax
    BY <1>1, <1>6 DEF LimitOf, NoWindowSays
  <2>7. Recently(ip, Spent(ip))' = 1
    BY <2>2, <2>4 DEF Recently
  <2>8. WindowSays(ip)'
    BY <2>1, <2>5, <2>6, <2>7 DEF WindowSays
  <2>9. QED
    BY <2>2, <2>8 DEF LimitOf
<1>7. QED
  BY <1>5, <1>6

\* A request that is refused: the window has counted the limit already.
LEMMA RefusedIsNot ==
  ASSUME LimiterInv, NEW ip \in Ip, rateLimit(ip), ~Admits(ip)
  PROVE  LimitOf(ip)'
<1>1. LimiterTypeOK /\ LimitOf(ip)
  BY DEF LimiterInv
<1>2. Live(ip) /\ windows[ip].count >= RateLimitMax
  BY <1>1, RefusedIsLive, LiveTypes
<1>3. recent' = recent
  BY DEF rateLimit
<1>4. ip \in DOMAIN windows' /\ windows'[ip] = Counted(ip)[ip]
  BY <1>1, WindowOfRequest DEF rateLimit
<1>5. windows'[ip].left = windows[ip].left /\ windows'[ip].count = RateLimitMax + 1
  BY <1>1, <1>2, <1>4, LiveWindowOfRequest
<1>6. Live(ip)' /\ Spent(ip)' = Spent(ip)
  BY <1>2, <1>4, <1>5 DEF Live, Spent
<1>7. WindowSays(ip) /\ windows[ip].count \in Nat
  BY <1>1, <1>2, LiveTypes DEF LimitOf
<1>8. Recently(ip, Spent(ip)) = RateLimitMax
  BY <1>2, <1>7 DEF WindowSays
<1>9. Recently(ip, Spent(ip))' = RateLimitMax
  BY <1>3, <1>6, <1>8 DEF Recently
<1>10. WindowSays(ip)'
  BY <1>3, <1>5, <1>6, <1>7, <1>9 DEF WindowSays, Recently
<1>11. QED
  BY <1>6, <1>10 DEF LimitOf

LEMMA RequestKeepsTheLimit ==
  ASSUME LimiterInv, NEW ip \in Ip, rateLimit(ip)
  PROVE  LimiterInv'
<1>1. LimitOf(ip)'
  BY AdmittedIsCounted, RefusedIsNot
<1>2. \A other \in Ip : other # ip => LimitOf(other)'
  BY OthersAreApart
<1>3. LimiterTypeOK'
  BY RequestTypes DEF LimiterInv
<1>4. QED
  BY <1>1, <1>2, <1>3 DEF LimiterInv

\* A tick: requests get older, the oldest are forgotten, and a window that is over
\* leaves the sum that it had.
LEMMA PassKeepsTheLimit ==
  ASSUME LimiterInv, Pass
  PROVE  LimiterInv'
<1>1. LimiterTypeOK /\ LimiterTypeOK'
  BY PassTypes DEF LimiterInv
<1>2. SUFFICES ASSUME NEW ip \in Ip PROVE LimitOf(ip)'
  BY <1>1 DEF LimiterInv
<1> DEFINE f == recent[ip]
           W == RateLimitWindow
<1>3. LimitOf(ip) /\ f \in [Ages -> Nat] /\ W \in Nat \ {0}
  BY <1>1 DEF LimiterInv, LimiterTypeOK
<1>4. recent'[ip] = [age \in Ages |-> IF age = 0 THEN 0 ELSE f[age - 1]]
  BY DEF Pass
<1>5. ASSUME NEW n \in 0..(W - 1)
      PROVE  Sum(recent'[ip], Newest(n + 1)) = Recently(ip, n)
  BY <1>3, <1>4, <1>5, SumShifted DEF Recently
<1>6. recent'[ip][0] = 0
  BY <1>4 DEF Ages
<1>7. Recently(ip, W)' = Recently(ip, W - 1)
  <2>1. W - 1 \in 0..(W - 1) /\ (W - 1) + 1 = W
    BY <1>3
  <2>2. Sum(recent'[ip], Newest((W - 1) + 1)) = Recently(ip, W - 1)
    BY <1>5, <2>1
  <2>3. QED
    BY <2>1, <2>2 DEF Recently
<1>8. /\ Recently(ip, W - 1) <= Recently(ip, W)
      /\ Recently(ip, W - 1) \in Nat /\ Recently(ip, W) \in Nat
  <2>1. W - 1 \in 0..(W - 1) /\ (W - 1) + 1 = W /\ W - 1 \in 0..W /\ W \in 0..W
    BY <1>3
  <2>2. Sum(f, Newest((W - 1) + 1)) = f[W - 1] + Sum(f, Newest(W - 1))
    BY <1>3, <2>1, SumNewest
  <2>3. Recently(ip, W) = f[W - 1] + Recently(ip, W - 1)
    BY <2>1, <2>2 DEF Recently
  <2>4. f[W - 1] \in Nat
    BY <1>3, <2>1 DEF Ages
  <2>5. Recently(ip, W - 1) \in Nat /\ Recently(ip, W) \in Nat
    BY <1>1, <2>1, RecentlyType
  <2>6. QED
    BY <2>3, <2>4, <2>5
<1>9. /\ DOMAIN windows' = DOMAIN windows
      /\ ip \in DOMAIN windows =>
           /\ windows'[ip].left = IF windows[ip].left = 0 THEN 0 ELSE windows[ip].left - 1
           /\ windows'[ip].count = windows[ip].count
  <2>1. ASSUME ip \in DOMAIN windows
        PROVE  /\ windows'[ip] = [windows[ip] EXCEPT !.left = IF @ = 0 THEN 0 ELSE @ - 1]
               /\ windows[ip] \in [count: 1..(RateLimitMax + 1), left: 0..W]
    BY <1>1, <2>1 DEF Pass, LimiterTypeOK
  <2>2. DOMAIN windows' = DOMAIN windows
    BY DEF Pass
  <2>3. QED
    BY <2>1, <2>2
<1> HIDE DEF f, W
<1>10. CASE Live(ip) /\ windows[ip].left >= 2
  <2>1. windows[ip].left \in 2..W /\ Spent(ip) \in 1..(W - 1) /\ windows[ip].count \in Nat
    BY <1>1, <1>3, <1>10, LiveTypes DEF Spent, W
  <2>2. Live(ip)' /\ Spent(ip)' = Spent(ip) + 1 /\ windows'[ip].count = windows[ip].count
    BY <1>3, <1>9, <1>10, <2>1 DEF Spent, Live, W
  <2>3. Recently(ip, Spent(ip))' = Recently(ip, Spent(ip))
    <3>1. Spent(ip) \in 0..(W - 1)
      BY <1>3, <2>1
    <3>2. Sum(recent'[ip], Newest(Spent(ip) + 1)) = Recently(ip, Spent(ip))
      BY <1>5, <3>1
    <3>3. QED
      BY <2>2, <3>2 DEF Recently
  <2>4. Recently(ip, Spent(ip)) \in Nat
    BY <1>1, <1>3, <2>1, RecentlyType DEF W
  <2>5. WindowSays(ip)
    BY <1>3, <1>10 DEF LimitOf
  <2>6. WindowSays(ip)'
    BY <1>7, <1>8, <2>2, <2>3, <2>4, <2>5 DEF WindowSays, W
  <2>7. QED
    BY <2>2, <2>6 DEF LimitOf
<1>11. CASE Live(ip) /\ windows[ip].left < 2
  <2>1. windows[ip].left = 1 /\ Spent(ip) = W /\ windows[ip].count \in Nat
    BY <1>1, <1>3, <1>11, LiveTypes DEF Spent, W
  <2>2. ~Live(ip)'
    BY <1>9, <1>11, <2>1 DEF Live
  <2>3. WindowSays(ip)
    BY <1>3, <1>11 DEF LimitOf
  <2>4. Recently(ip, W) <= RateLimitMax
    BY <2>1, <2>3 DEF WindowSays
  <2>5. NoWindowSays(ip)'
    BY <1>6, <1>7, <1>8, <2>4 DEF NoWindowSays, W
  <2>6. QED
    BY <2>2, <2>5 DEF LimitOf
<1>12. CASE ~Live(ip)
  <2>1. ~Live(ip)'
    <3>1. ip \in DOMAIN windows => windows[ip].left \in 0..RateLimitWindow
      BY <1>1 DEF LimiterTypeOK
    <3>2. QED
      BY <1>9, <1>12, <3>1 DEF Live
  <2>2. Recently(ip, W) <= RateLimitMax
    BY <1>3, <1>12 DEF LimitOf, NoWindowSays, W
  <2>3. NoWindowSays(ip)'
    BY <1>6, <1>7, <1>8, <2>2 DEF NoWindowSays, W
  <2>4. QED
    BY <2>1, <2>3 DEF LimitOf
<1>13. QED
  <2>1. Live(ip) => windows[ip].left \in Nat
    BY <1>1, LiveTypes
  <2>2. QED
    BY <1>10, <1>11, <1>12, <2>1

LEMMA ForgetKeepsTheLimit ==
  ASSUME LimiterInv, Forget
  PROVE  LimiterInv'
<1>1. LimiterTypeOK /\ LimiterTypeOK'
  BY ForgetTypes DEF LimiterInv
<1>2. ASSUME NEW ip \in Ip PROVE LimitOf(ip)'
  <2>1. recent'[ip] = [age \in Ages |-> 0] /\ ~Live(ip)'
    BY DEF Forget, Live
  <2>2. Sum(recent'[ip], Newest(RateLimitWindow)) = 0 /\ recent'[ip][0] = 0
    BY <2>1, NothingRecent DEF Ages
  <2>3. QED
    BY <2>1, <2>2 DEF LimitOf, NoWindowSays, Recently
<1>3. QED
  BY <1>1, <1>2 DEF LimiterInv

LEMMA LimitIsTwice ==
  ASSUME LimiterInv PROVE RequestsAreLimited
<1>1. SUFFICES ASSUME NEW ip \in Ip
               PROVE  /\ SumFunction(recent[ip]) <= 2 * RateLimitMax
                      /\ ip \in DOMAIN windows =>
                           SumFunctionOnSet(recent[ip],
                             {age \in Ages : age <= RateLimitWindow - windows[ip].left}) <= RateLimitMax
  BY DEF RequestsAreLimited
<1>2. LimiterTypeOK /\ LimitOf(ip)
  BY DEF LimiterInv
<1>3. SumFunction(recent[ip]) = Recently(ip, RateLimitWindow)
  <2>1. DOMAIN recent[ip] = Newest(RateLimitWindow)
    BY <1>2, NewestAreAll DEF LimiterTypeOK
  <2>2. QED
    BY <2>1 DEF SumFunction, Recently, Sum
<1>4. ASSUME ip \in DOMAIN windows
      PROVE  SumFunctionOnSet(recent[ip],
               {age \in Ages : age <= RateLimitWindow - windows[ip].left}) = Recently(ip, Spent(ip))
  <2>1. windows[ip].left \in Nat
    BY <1>2, <1>4 DEF LimiterTypeOK
  <2>2. {age \in Ages : age <= RateLimitWindow - windows[ip].left} = Newest(Spent(ip))
    BY <2>1 DEF Newest, Spent, Ages
  <2>3. QED
    BY <2>2 DEF Recently, Sum
<1>5. Recently(ip, RateLimitWindow) \in Nat
  BY <1>2, RecentlyType, RateLimitWindow \in 0..RateLimitWindow
<1>6. CASE Live(ip)
  <2>1. Spent(ip) \in 0..RateLimitWindow /\ windows[ip].count \in Nat
    BY <1>2, <1>6, LiveTypes
  <2>2. Recently(ip, Spent(ip)) \in Nat
    BY <1>2, <2>1, RecentlyType
  <2>3. WindowSays(ip)
    BY <1>2, <1>6 DEF LimitOf
  <2>4. QED
    BY <1>3, <1>4, <1>5, <2>1, <2>2, <2>3 DEF WindowSays
<1>7. CASE ~Live(ip)
  <2>1. Recently(ip, RateLimitWindow) <= RateLimitMax
    BY <1>2, <1>7 DEF LimitOf, NoWindowSays
  <2>2. ASSUME ip \in DOMAIN windows PROVE Recently(ip, Spent(ip)) = Recently(ip, RateLimitWindow)
    <3>1. windows[ip].left = 0
      BY <1>2, <1>7, <2>2 DEF Live, LimiterTypeOK
    <3>2. Newest(Spent(ip)) = Newest(RateLimitWindow)
      BY <3>1 DEF Spent, Newest, Ages
    <3>3. QED
      BY <3>2 DEF Recently
  <2>3. QED
    BY <1>3, <1>4, <1>5, <2>1, <2>2
<1>8. QED
  BY <1>6, <1>7

\* Whatever the requests, losses and restarts: at most the limit in a window, and
\* at most twice the limit in any time of its length (rateLimit.ts 30-46).
THEOREM LimitHolds == StreamSpec => []RequestsAreLimited
<1>1. StreamInit => LimiterInv
  BY LimiterInvInit DEF StreamInit
<1>2. ASSUME LimiterInv, [StreamNext]_streamVars
      PROVE  LimiterInv'
  <2>1. CASE UNCHANGED limiterVars
    BY <1>2, <2>1 DEF LimiterInv, LimiterTypeOK, LimitOf, WindowSays, NoWindowSays, Recently,
       Spent, Live, limiterVars
  <2>2. CASE Tick
    BY <1>2, <2>2, PassKeepsTheLimit DEF Tick
  <2>3. CASE Restart
    BY <1>2, <2>3, ForgetKeepsTheLimit DEF Restart
  <2>4. ASSUME NEW s \in Stream, Handle(s) PROVE LimiterInv'
    <3>1. IpOf[s] \in Ip
      OBVIOUS
    <3>2. QED
      BY <1>2, <2>4, <3>1, RequestKeepsTheLimit DEF Handle
  <2>5. ASSUME NEW ip \in Ip, OtherRequest(ip) PROVE LimiterInv'
    BY <1>2, <2>5, RequestKeepsTheLimit DEF OtherRequest
  <2>6. ASSUME NEW s \in Stream, Fire(s) \/ Receive(s) \/ ReceiveAll(s) \/ Fails(s) \/ close(s)
        PROVE  LimiterInv'
    BY <2>1, <2>6 DEF Fire, Receive, ReceiveAll, Fails, close
  <2>7. ASSUME NEW id \in Event, publishSseEventId(id) PROVE LimiterInv'
    BY <2>1, <2>7 DEF publishSseEventId
  <2>8. CASE UNCHANGED streamVars
    BY <2>1, <2>8 DEF streamVars
  <2>9. QED
    BY <1>2, <2>2, <2>3, <2>4, <2>5, <2>6, <2>7, <2>8 DEF StreamNext
<1>3. QED
  BY <1>1, <1>2, LimitIsTwice, PTL DEF StreamSpec

-----------------------------------------------------------------------------
(* Waiting.                                                                *)

\* A window is over when the wait that a refusal named is.
PromiseCovers(ip) ==
  promised[ip] # Free /\ ip \in DOMAIN windows => windows[ip].left <= promised[ip]

WaitInv == LimiterTypeOK /\ \A ip \in Ip : PromiseCovers(ip)

LEMMA RequestKeepsWaits ==
  ASSUME WaitInv, NEW ip \in Ip, rateLimit(ip)
  PROVE  WaitInv'
<1>1. LimiterTypeOK /\ LimiterTypeOK' /\ \A i \in Ip : PromiseCovers(i)
  BY RequestTypes DEF WaitInv
<1>2. /\ windows' = Counted(ip)
      /\ DOMAIN Counted(ip) = {i \in DOMAIN windows : windows[i].left > 0} \cup {ip}
      /\ \A i \in DOMAIN Counted(ip) \ {ip} : Counted(ip)[i] = windows[i]
  BY <1>1, WindowOfRequest DEF rateLimit
<1>3. ASSUME NEW i \in Ip, i # ip PROVE PromiseCovers(i)'
  <2>1. promised'[i] = promised[i]
    BY <1>1, <1>3 DEF rateLimit, LimiterTypeOK
  <2>2. i \in DOMAIN windows' => i \in DOMAIN windows /\ windows'[i] = windows[i]
    BY <1>2, <1>3
  <2>3. PromiseCovers(i)
    BY <1>1
  <2>4. QED
    BY <2>1, <2>2, <2>3 DEF PromiseCovers
<1>4. PromiseCovers(ip)'
  <2>1. promised'[ip] = IF Admits(ip) THEN Free ELSE RetryAfter(ip) * Second
    BY <1>1 DEF rateLimit, LimiterTypeOK
  <2>2. ASSUME ~Admits(ip) PROVE windows'[ip].left <= RetryAfter(ip) * Second
    <3>1. Live(ip)
      BY <1>1, <2>2, RefusedIsLive
    <3>2. windows'[ip].left = windows[ip].left /\ windows[ip].left \in Nat
      BY <1>1, <1>2, <3>1, LiveWindowOfRequest, LiveTypes
    <3>3. QED
      BY <3>2, RoundedUp DEF RetryAfter
  <2>3. QED
    BY <2>1, <2>2 DEF PromiseCovers
<1>5. QED
  BY <1>1, <1>3, <1>4 DEF WaitInv

LEMMA PassKeepsWaits ==
  ASSUME WaitInv, Pass
  PROVE  WaitInv'
<1>1. LimiterTypeOK /\ LimiterTypeOK'
  BY PassTypes DEF WaitInv
<1>2. ASSUME NEW i \in Ip PROVE PromiseCovers(i)'
  <2>1. SUFFICES ASSUME i \in DOMAIN windows, promised'[i] # Free
                 PROVE  windows'[i].left <= promised'[i]
    BY DEF PromiseCovers, Pass
  <2>2. promised'[i] = IF promised[i] <= 0 THEN promised[i] ELSE promised[i] - 1
    BY DEF Pass
  <2>3. promised[i] \in Nat /\ promised[i] # Free
    BY <1>1, <2>1, <2>2 DEF LimiterTypeOK, Free
  <2>4. windows[i] \in [count: 1..(RateLimitMax + 1), left: 0..RateLimitWindow]
    BY <1>1, <2>1 DEF LimiterTypeOK
  <2>5. windows[i].left <= promised[i]
    BY <2>1, <2>3 DEF WaitInv, PromiseCovers
  <2>6. windows'[i].left = IF windows[i].left = 0 THEN 0 ELSE windows[i].left - 1
    BY <2>1, <2>4 DEF Pass
  <2>7. QED
    BY <2>2, <2>3, <2>4, <2>5, <2>6
<1>3. QED
  BY <1>1, <1>2 DEF WaitInv

LEMMA WaitInvHolds == StreamSpec => []WaitInv
<1>1. StreamInit => WaitInv
  BY LimiterTypeInit DEF StreamInit, LimiterInit, WaitInv, PromiseCovers
<1>2. ASSUME WaitInv, [StreamNext]_streamVars
      PROVE  WaitInv'
  <2>1. CASE UNCHANGED limiterVars
    BY <1>2, <2>1 DEF WaitInv, LimiterTypeOK, PromiseCovers, limiterVars
  <2>2. CASE Tick
    BY <1>2, <2>2, PassKeepsWaits DEF Tick
  <2>3. CASE Restart
    BY <1>2, <2>3, ForgetTypes DEF Restart, Forget, WaitInv, PromiseCovers
  <2>4. ASSUME NEW s \in Stream, Handle(s) PROVE WaitInv'
    <3>1. IpOf[s] \in Ip
      OBVIOUS
    <3>2. QED
      BY <1>2, <2>4, <3>1, RequestKeepsWaits DEF Handle
  <2>5. ASSUME NEW ip \in Ip, OtherRequest(ip) PROVE WaitInv'
    BY <1>2, <2>5, RequestKeepsWaits DEF OtherRequest
  <2>6. ASSUME NEW s \in Stream, Fire(s) \/ Receive(s) \/ ReceiveAll(s) \/ Fails(s) \/ close(s)
        PROVE  WaitInv'
    BY <2>1, <2>6 DEF Fire, Receive, ReceiveAll, Fails, close
  <2>7. ASSUME NEW id \in Event, publishSseEventId(id) PROVE WaitInv'
    BY <2>1, <2>7 DEF publishSseEventId
  <2>8. CASE UNCHANGED streamVars
    BY <2>1, <2>8 DEF streamVars
  <2>9. QED
    BY <1>2, <2>2, <2>3, <2>4, <2>5, <2>6, <2>7, <2>8 DEF StreamNext
<1>3. QED
  BY <1>1, <1>2, PTL DEF StreamSpec

\* Who waited as long as Retry-After said finds no window left that could refuse
\* the request, however the seconds were rounded (rateLimit.ts 39-43).
THEOREM WhoWaitedIsAdmitted == StreamSpec => WaitingHelps
<1> DEFINE Helps == \A ip \in Ip : promised[ip] = 0 /\ rateLimit(ip) => promised'[ip] = Free
<1>1. ASSUME WaitInv PROVE Helps
  <2>1. SUFFICES ASSUME NEW ip \in Ip, promised[ip] = 0, rateLimit(ip) PROVE promised'[ip] = Free
    OBVIOUS
  <2>2. LimiterTypeOK /\ PromiseCovers(ip)
    BY <1>1 DEF WaitInv
  <2>3. ~Live(ip)
    BY <2>1, <2>2, LiveTypes DEF PromiseCovers, Live, Free
  <2>4. Admits(ip)
    BY <2>2, <2>3, RefusedIsLive
  <2>5. QED
    BY <2>1, <2>2, <2>4 DEF rateLimit, LimiterTypeOK
<1>2. WaitInv /\ [StreamNext]_streamVars => [Helps]_streamVars
  BY <1>1
<1>3. QED
  BY <1>2, WaitInvHolds, PTL DEF StreamSpec, WaitingHelps

-----------------------------------------------------------------------------
(* The clients.                                                            *)

Client ==
  [stage: {"fetch", "timer", "answered"}, wait: 0..LastRetry, retry: FirstRetry..LastRetry,
   closed: BOOLEAN, answer: Event \cup {None, "refused"}, seen: Event \cup {None}]

\* A timer is set, for the first wait at least, and no answer is kept.
IsSet(c) == c \in Client /\ c.stage = "timer" /\ c.wait >= FirstRetry /\ c.answer = None

LEMMA AgainIsSet ==
  ASSUME StreamTypeOK, NEW s \in Stream, NEW retry \in FirstRetry..LastRetry
  PROVE  IsSet(Again(s, retry))
<1>1. stream[s] \in Client
  BY DEF StreamTypeOK, Client
<1>2. retry \in 0..LastRetry /\ retry >= FirstRetry
  OBVIOUS
<1>3. /\ Again(s, retry) \in Client
      /\ Again(s, retry).stage = "timer" /\ Again(s, retry).answer = None
  BY <1>1, <1>2 DEF Again, Client
<1>4. Again(s, retry).wait = retry
  BY <1>1 DEF Again, Client
<1>5. QED
  BY <1>2, <1>3, <1>4 DEF IsSet

LEMMA BackOffIsSet ==
  ASSUME StreamTypeOK, NEW s \in Stream
  PROVE  IsSet(BackOff(s))
<1>1. stream[s].retry \in FirstRetry..LastRetry
  BY DEF StreamTypeOK
<1>2. Least(LastRetry, 2 * stream[s].retry) \in FirstRetry..LastRetry
  BY <1>1 DEF Least
<1>3. QED
  BY <1>2, AgainIsSet DEF BackOff

\* What a client does on its own, of which the limiter hears nothing.
OnItsOwn(s) == Fire(s) \/ Receive(s) \/ ReceiveAll(s) \/ Fails(s) \/ close(s)

LEMMA ClientSteps ==
  ASSUME StreamTypeOK, NEW s \in Stream, OnItsOwn(s)
  PROVE  /\ stream' = [stream EXCEPT ![s] = stream'[s]]
         /\ stream'[s] \in Client
         /\ \/ IsSet(stream'[s]) /\ stream[s].stage # "timer"
            \/ /\ stream[s].stage = "timer" /\ stream[s].wait = 0
               /\ stream'[s].stage = "fetch" /\ stream'[s].answer = stream[s].answer
            \/ /\ stream'[s].stage = stream[s].stage /\ stream'[s].wait = stream[s].wait
               /\ stream'[s].answer = stream[s].answer
<1>1. stream \in [Stream -> Client] /\ stream[s] \in Client
  BY DEF StreamTypeOK, Client
<1>2. CASE Fire(s)
  BY <1>1, <1>2 DEF Fire, Client
<1>3. ASSUME NEW c, IsSet(c), stream' = [stream EXCEPT ![s] = [c EXCEPT !.seen = stream[s].answer]],
             stream[s].answer \in Event
      PROVE  IsSet(stream'[s]) /\ stream'[s] \in Client
  <2>1. stream'[s] = [c EXCEPT !.seen = stream[s].answer] /\ c \in Client
    BY <1>1, <1>3 DEF IsSet
  <2>2. QED
    BY <1>3, <2>1 DEF IsSet, Client
<1>4. IsSet(BackOff(s)) /\ IsSet(Again(s, FirstRetry)) /\ IsSet(Again(s, LastRetry))
  <2>1. FirstRetry \in FirstRetry..LastRetry /\ LastRetry \in FirstRetry..LastRetry
    OBVIOUS
  <2>2. QED
    BY <2>1, BackOffIsSet, AgainIsSet
<1>5. CASE Receive(s)
  <2>1. CASE stream[s].answer \in Event
    <3>1. stream' = [stream EXCEPT ![s] = [BackOff(s) EXCEPT !.seen = stream[s].answer]]
      BY <1>5, <2>1 DEF Receive
    <3>2. IsSet(stream'[s]) /\ stream'[s] \in Client
      BY <1>3, <1>4, <2>1, <3>1
    <3>3. QED
      BY <1>1, <1>5, <3>1, <3>2 DEF Receive
  <2>2. CASE stream[s].answer \notin Event
    BY <1>1, <1>4, <1>5, <2>2 DEF Receive, IsSet
  <2>3. QED
    BY <2>1, <2>2
<1>6. CASE ReceiveAll(s)
  <2>1. CASE stream[s].answer \in Event
    <3>1. stream' = [stream EXCEPT ![s] = [Again(s, FirstRetry) EXCEPT !.seen = stream[s].answer]]
      BY <1>6, <2>1 DEF ReceiveAll
    <3>2. IsSet(stream'[s]) /\ stream'[s] \in Client
      BY <1>3, <1>4, <2>1, <3>1
    <3>3. QED
      BY <1>1, <1>6, <3>1, <3>2 DEF ReceiveAll
  <2>2. CASE stream[s].answer \notin Event
    BY <1>1, <1>4, <1>6, <2>2 DEF ReceiveAll, IsSet
  <2>3. QED
    BY <2>1, <2>2
<1>7. CASE Fails(s)
  BY <1>1, <1>4, <1>7 DEF Fails, IsSet
<1>8. CASE close(s)
  <2>1. CASE stream[s].stage = "timer"
    <3> DEFINE c == [stream[s] EXCEPT !.retry = LastRetry, !.closed = TRUE]
    <3>1. stream' = [stream EXCEPT ![s] = c]
      <4>1. [[stream[s] EXCEPT !.retry = LastRetry] EXCEPT !.closed = TRUE] = c
        BY <1>1 DEF Client
      <4>2. QED
        BY <1>8, <2>1, <4>1 DEF close
    <3>2. c \in Client /\ c.stage = stream[s].stage /\ c.wait = stream[s].wait /\ c.answer = stream[s].answer
      <4>1. LastRetry \in FirstRetry..LastRetry
        OBVIOUS
      <4>2. QED
        BY <1>1, <4>1 DEF Client
    <3> HIDE DEF c
    <3>3. QED
      BY <1>1, <3>1, <3>2
  <2>2. CASE stream[s].stage # "timer"
    <3> DEFINE c == [Again(s, LastRetry) EXCEPT !.closed = TRUE]
    <3>1. stream' = [stream EXCEPT ![s] = c]
      BY <1>8, <2>2 DEF close
    <3>2. IsSet(c)
      BY <1>4 DEF IsSet, Client
    <3> HIDE DEF c
    <3>3. QED
      BY <1>1, <2>2, <3>1, <3>2 DEF IsSet
  <2>3. QED
    BY <2>1, <2>2
<1>9. QED
  BY <1>2, <1>5, <1>6, <1>7, <1>8 DEF OnItsOwn

LEMMA HappensIsCounted ==
  ASSUME StreamTypeOK, NEW what \in DOMAIN Bound, Happens(what)
  PROVE  /\ happened' \in [DOMAIN Bound -> Nat]
         /\ happened'[what] = happened[what] + 1
         /\ \A other \in DOMAIN Bound : other # what => happened'[other] = happened[other]
<1>1. happened \in [DOMAIN Bound -> Nat]
  BY DEF StreamTypeOK
<1>2. happened' = [happened EXCEPT ![what] = @ + 1]
  BY DEF Happens
<1>3. QED
  BY <1>1, <1>2

LEMMA BoundNames == {"published", "restarts", "other", "lost", "closed"} = DOMAIN Bound
BY DEF Bound

LEMMA StreamInitTypes ==
  ASSUME StreamInit PROVE StreamTypeOK
<1>1. connect \in Client
  BY DEF connect, Client
<1>2. stream \in [Stream -> Client]
  BY <1>1 DEF StreamInit
<1>3. happened \in [DOMAIN Bound -> Nat]
  BY DEF StreamInit
<1>4. QED
  BY <1>2, <1>3, LimiterTypeInit DEF StreamInit, StreamTypeOK, Client

LEMMA StreamStepTypes ==
  ASSUME StreamTypeOK, [StreamNext]_streamVars
  PROVE  StreamTypeOK'
<1>1. /\ LimiterTypeOK /\ stream \in [Stream -> Client] /\ happened \in [DOMAIN Bound -> Nat]
      /\ lastSseEventId \in Event \cup {None}
  BY DEF StreamTypeOK, Client
<1>2. SUFFICES /\ LimiterTypeOK' /\ stream' \in [Stream -> Client] /\ happened' \in [DOMAIN Bound -> Nat]
               /\ lastSseEventId' \in Event \cup {None}
  BY DEF StreamTypeOK, Client
<1>3. UNCHANGED limiterVars => LimiterTypeOK'
  BY <1>1 DEF limiterVars, LimiterTypeOK
<1>4. CASE Tick
  <2>1. stream' \in [Stream -> Client]
    <3>1. SUFFICES ASSUME NEW s \in Stream, stream[s].stage = "timer"
                   PROVE  [stream[s] EXCEPT !.wait = @ - 1] \in Client
      BY <1>1, <1>4 DEF Tick
    <3>2. stream[s] \in Client /\ stream[s].wait > 0
      BY <1>1, <1>4, <3>1 DEF Tick
    <3>3. stream[s].wait - 1 \in 0..LastRetry
      BY <3>2 DEF Client
    <3>4. QED
      BY <3>2, <3>3 DEF Client
  <2>2. QED
    BY <1>1, <1>4, <2>1, PassTypes DEF Tick
<1>5. CASE Restart
  BY <1>1, <1>5, ForgetTypes, HappensIsCounted, BoundNames DEF Restart
<1>6. ASSUME NEW s \in Stream, OnItsOwn(s) PROVE StreamTypeOK'
  <2>1. stream' \in [Stream -> Client]
    BY <1>1, <1>6, ClientSteps
  <2>2. happened' \in [DOMAIN Bound -> Nat]
    BY <1>1, <1>6, HappensIsCounted, BoundNames
       DEF OnItsOwn, Fire, Receive, ReceiveAll, Fails, close
  <2>3. QED
    BY <1>1, <1>3, <1>6, <2>1, <2>2
       DEF OnItsOwn, Fire, Receive, ReceiveAll, Fails, close, StreamTypeOK, Client
<1>7. ASSUME NEW s \in Stream, Handle(s) PROVE StreamTypeOK'
  <2>1. IpOf[s] \in Ip
    OBVIOUS
  <2>2. stream' \in [Stream -> Client]
    <3>1. ASSUME NEW c \in Client, NEW a \in Event \cup {None, "refused"}
          PROVE  [[c EXCEPT !.stage = "answered"] EXCEPT !.answer = a] \in Client
      BY DEF Client
    <3>2. PICK a \in Event \cup {None, "refused"} :
            stream' = [stream EXCEPT ![s] = [[stream[s] EXCEPT !.stage = "answered"] EXCEPT !.answer = a]]
      <4>1. (IF Admits(IpOf[s]) THEN lastSseEventId ELSE "refused") \in Event \cup {None, "refused"}
        BY <1>1
      <4>2. stream' = [stream EXCEPT ![s] = [[stream[s] EXCEPT !.stage = "answered"]
               EXCEPT !.answer = IF Admits(IpOf[s]) THEN lastSseEventId ELSE "refused"]]
        BY <1>1, <1>7 DEF Handle
      <4>3. QED
        BY <4>1, <4>2
    <3> DEFINE c == [[stream[s] EXCEPT !.stage = "answered"] EXCEPT !.answer = a]
    <3>3. c \in Client
      BY <1>1, <3>1
    <3>4. stream' = [stream EXCEPT ![s] = c]
      BY <3>2
    <3> HIDE DEF c
    <3>5. QED
      BY <1>1, <3>3, <3>4
  <2>3. QED
    BY <1>1, <1>7, <2>1, <2>2, RequestTypes DEF Handle, StreamTypeOK, Client
<1>8. ASSUME NEW ip \in Ip, OtherRequest(ip) PROVE StreamTypeOK'
  BY <1>1, <1>8, RequestTypes, HappensIsCounted, BoundNames DEF OtherRequest, StreamTypeOK, Client
<1>9. ASSUME NEW id \in Event, publishSseEventId(id) PROVE StreamTypeOK'
  BY <1>1, <1>3, <1>9, HappensIsCounted, BoundNames DEF publishSseEventId, StreamTypeOK, Client
<1>10. CASE UNCHANGED streamVars
  BY <1>1, <1>3, <1>10 DEF streamVars
<1>11. QED
  <2>1. StreamTypeOK' => LimiterTypeOK' /\ stream' \in [Stream -> Client]
                         /\ happened' \in [DOMAIN Bound -> Nat] /\ lastSseEventId' \in Event \cup {None}
    BY DEF StreamTypeOK, Client
  <2>2. QED
    BY <1>4, <1>5, <1>6, <1>7, <1>8, <1>9, <1>10, <2>1 DEF StreamNext, OnItsOwn

\* What autoSse and the limiter keep is what it was meant to be.
THEOREM StreamTypes == StreamSpec => []StreamTypeOK
BY StreamInitTypes, StreamStepTypes, PTL DEF StreamSpec

-----------------------------------------------------------------------------
(* Reconnecting.                                                           *)

\* The requests that a client can have made within e ticks: after each it waits
\* for FirstRetry at least.
CanHaveAsked(c, e) ==
  IF c.stage = "fetch" THEN e \div FirstRetry
  ELSE IF c.stage = "answered" THEN e \div FirstRetry + 1
  ELSE (e + Least(c.wait, FirstRetry)) \div FirstRetry

\* As many as a client can make in a window.
Share == (RateLimitWindow - 1) \div FirstRetry + 1

LEMMA CanHaveAskedType ==
  ASSUME NEW c \in Client, NEW e \in Nat
  PROVE  /\ CanHaveAsked(c, e) \in Nat
         /\ e <= RateLimitWindow - 1 => CanHaveAsked(c, e) <= Share
         /\ Share \in Nat
<1> DEFINE F == FirstRetry
           W == RateLimitWindow
           n == Least(c.wait, F)
<1>1. F \in Nat \ {0} /\ W - 1 \in Nat /\ n \in Nat /\ n <= F
  BY DEF Least, Client
<1> HIDE DEF n
<1>2. e \div F \in Nat /\ (e + n) \div F \in Nat /\ (W - 1) \div F \in Nat
  <2>1. e + n \in Nat
    BY <1>1
  <2>2. QED
    BY <1>1, <2>1, Division
<1>3. ASSUME e <= W - 1
      PROVE  e \div F <= (W - 1) \div F /\ (e + n) \div F <= (W - 1) \div F + 1
  <2>1. e \div F <= (W - 1) \div F
    BY <1>1, <1>3, QuotientsGrow
  <2>2. (e + n) \div F <= (e + F) \div F
    <3>1. e + n \in Nat /\ e + F \in Nat /\ e + n <= e + F
      BY <1>1
    <3>2. QED
      BY <1>1, <3>1, QuotientsGrow
  <2>3. (e + F) \div F <= e \div F + 1 /\ (e + F) \div F \in Nat
    BY <1>1, OneMore, Division, e + F \in Nat
  <2>4. QED
    BY <1>2, <2>1, <2>2, <2>3
<1>4. CanHaveAsked(c, e) \in Nat /\ Share \in Nat
  BY <1>2 DEF CanHaveAsked, Share, n
<1>5. ASSUME e <= W - 1 PROVE CanHaveAsked(c, e) <= Share
  BY <1>2, <1>3, <1>5 DEF CanHaveAsked, Share, n
<1>6. QED
  BY <1>4, <1>5

\* What a client does on its own is no request.
LEMMA OwnStepsAskNothing ==
  ASSUME NEW c \in Client, NEW d \in Client, NEW e \in Nat,
         \/ IsSet(d) /\ c.stage # "timer"
         \/ c.stage = "timer" /\ c.wait = 0 /\ d.stage = "fetch"
         \/ d.stage = c.stage /\ d.wait = c.wait
  PROVE  CanHaveAsked(c, e) <= CanHaveAsked(d, e)
<1>1. CanHaveAsked(c, e) \in Nat /\ e \div FirstRetry \in Nat
  BY CanHaveAskedType, Division
<1>2. CASE IsSet(d) /\ c.stage # "timer"
  <2>1. Least(d.wait, FirstRetry) = FirstRetry
    BY <1>2 DEF IsSet, Least, Client
  <2>2. CanHaveAsked(d, e) = (e + FirstRetry) \div FirstRetry
    BY <1>2, <2>1 DEF IsSet, CanHaveAsked
  <2>3. e \div FirstRetry + 1 <= (e + FirstRetry) \div FirstRetry
    BY OneMore
  <2>4. (e + FirstRetry) \div FirstRetry \in Nat
    BY Division, e + FirstRetry \in Nat
  <2>5. CanHaveAsked(c, e) <= e \div FirstRetry + 1
    BY <1>1, <1>2 DEF CanHaveAsked, Client
  <2>6. QED
    BY <1>1, <2>2, <2>3, <2>4, <2>5
<1>3. CASE c.stage = "timer" /\ c.wait = 0 /\ d.stage = "fetch"
  <2>1. e + Least(c.wait, FirstRetry) = e
    BY <1>3 DEF Least
  <2>2. QED
    BY <1>1, <1>3, <2>1 DEF CanHaveAsked
<1>4. CASE d.stage = c.stage /\ d.wait = c.wait
  BY <1>1, <1>4 DEF CanHaveAsked
<1>5. QED
  BY <1>2, <1>3, <1>4

\* A tick leaves it room for as much as before.
LEMMA TicksAskNothing ==
  ASSUME NEW c \in Client, NEW d \in Client, NEW e \in Nat, d.stage = c.stage,
         c.stage = "timer" => c.wait > 0 /\ d.wait = c.wait - 1
  PROVE  CanHaveAsked(c, e) <= CanHaveAsked(d, e + 1)
<1>1. e \div FirstRetry <= (e + 1) \div FirstRetry
  BY QuotientsGrow, e + 1 \in Nat
<1>2. e \div FirstRetry \in Nat /\ (e + 1) \div FirstRetry \in Nat
  BY Division, e + 1 \in Nat
<1>3. ASSUME c.stage = "timer"
      PROVE  (e + Least(c.wait, FirstRetry)) \div FirstRetry <=
               ((e + 1) + Least(d.wait, FirstRetry)) \div FirstRetry
  <2> DEFINE m == e + Least(c.wait, FirstRetry)
             n == (e + 1) + Least(d.wait, FirstRetry)
  <2>1. m \in Nat /\ n \in Nat /\ m <= n
    BY <1>3 DEF Least, Client
  <2> HIDE DEF m, n
  <2>2. m \div FirstRetry <= n \div FirstRetry
    BY <2>1, QuotientsGrow
  <2>3. QED
    BY <2>2 DEF m, n
<1>4. CASE c.stage = "timer"
  BY <1>3, <1>4 DEF CanHaveAsked
<1>5. CASE c.stage # "timer"
  BY <1>1, <1>2, <1>5 DEF CanHaveAsked, Client
<1>6. QED
  BY <1>4, <1>5

LEMMA RequestsAskOnce ==
  ASSUME NEW c \in Client, NEW d \in Client, NEW e \in Nat, c.stage = "fetch", d.stage = "answered"
  PROVE  CanHaveAsked(d, e) = CanHaveAsked(c, e) + 1
BY DEF CanHaveAsked

\* The clients at an address, and what they can have asked together since its
\* window began.
At(ip) == {s \in Stream : IpOf[s] = ip}

Elapsed(ip) == RateLimitWindow - windows[ip].left

Together(ip) == [s \in At(ip) |-> CanHaveAsked(stream[s], Elapsed(ip))]

\* Without other requests the limit is enough for all clients at an address.
StreamsFit ==
  /\ IsFiniteSet(Stream)
  /\ \A ip \in Ip : Cardinality(At(ip)) * Share <= RateLimitMax

\* A window has counted no more than its clients can have asked.
OnlyTheirs(ip) == Live(ip) => windows[ip].count <= Sum(Together(ip), At(ip))

ReconnectInv ==
  /\ StreamTypeOK
  /\ happened.other = 0 =>
       /\ \A s \in Stream : stream[s].answer # "refused"
       /\ \A ip \in Ip : OnlyTheirs(ip)

LEMMA StreamsOf ==
  ASSUME StreamTypeOK
  PROVE  /\ LimiterTypeOK /\ stream \in [Stream -> Client]
         /\ \A ip \in Ip : Live(ip) =>
              Elapsed(ip) \in 0..(RateLimitWindow - 1) /\ windows[ip].count \in Nat
         /\ happened.other \in Nat
<1>1. LimiterTypeOK /\ stream \in [Stream -> Client]
  BY DEF StreamTypeOK, Client
<1>2. \A ip \in Ip : Live(ip) =>
        Elapsed(ip) \in 0..(RateLimitWindow - 1) /\ windows[ip].count \in Nat
  BY <1>1, LiveTypes DEF Elapsed
<1>3. happened.other \in Nat
  BY BoundNames DEF StreamTypeOK
<1>4. QED
  BY <1>1, <1>2, <1>3

LEMMA AtIsFinite ==
  ASSUME StreamsFit, NEW ip \in Ip
  PROVE  IsFiniteSet(At(ip)) /\ At(ip) \subseteq Stream
BY FS_Subset DEF StreamsFit, At

\* A step that leaves the count of a window, and leaves each client room for as
\* much as before.
LEMMA NothingIsCounted ==
  ASSUME StreamsFit, StreamTypeOK, StreamTypeOK', NEW ip \in Ip, OnlyTheirs(ip),
         Live(ip)' =>
           /\ Live(ip) /\ windows'[ip].count = windows[ip].count
           /\ \A s \in At(ip) :
                CanHaveAsked(stream[s], Elapsed(ip)) <= CanHaveAsked(stream'[s], Elapsed(ip)')
  PROVE  OnlyTheirs(ip)'
<1>1. SUFFICES ASSUME Live(ip)'
               PROVE  windows'[ip].count <= Sum(Together(ip)', At(ip))
  BY DEF OnlyTheirs, At
<1> DEFINE f == [s \in At(ip) |-> CanHaveAsked(stream[s], Elapsed(ip))]
           g == [s \in At(ip) |-> CanHaveAsked(stream'[s], Elapsed(ip)')]
<1>2. Together(ip) = f /\ Together(ip)' = g
  BY DEF Together, At
<1>3. /\ stream \in [Stream -> Client] /\ stream' \in [Stream -> Client]
      /\ Elapsed(ip) \in Nat /\ Elapsed(ip)' \in Nat /\ windows[ip].count \in Nat
  <2>1. LimiterTypeOK /\ stream \in [Stream -> Client] /\ Elapsed(ip) \in Nat /\ windows[ip].count \in Nat
    BY <1>1, StreamsOf
  <2>2. LimiterTypeOK' /\ stream' \in [Stream -> Client]
    BY DEF StreamTypeOK, Client
  <2>3. windows'[ip].left \in 0..RateLimitWindow
    BY <1>1, <2>2 DEF LimiterTypeOK, Live
  <2>4. QED
    BY <2>1, <2>2, <2>3 DEF Elapsed
<1>4. \A s \in At(ip) : f[s] \in Nat /\ g[s] \in Nat /\ f[s] <= g[s]
  <2>1. TAKE s \in At(ip)
  <2>2. stream[s] \in Client /\ stream'[s] \in Client
    BY <1>3 DEF At
  <2>3. CanHaveAsked(stream[s], Elapsed(ip)) \in Nat
    BY <1>3, <2>2, CanHaveAskedType
  <2>4. CanHaveAsked(stream'[s], Elapsed(ip)') \in Nat
    BY <1>3, <2>2, CanHaveAskedType
  <2>5. QED
    BY <1>1, <2>3, <2>4
<1> HIDE DEF f, g
<1>5. Sum(f, At(ip)) <= Sum(g, At(ip)) /\ Sum(f, At(ip)) \in Nat /\ Sum(g, At(ip)) \in Nat
  BY <1>4, AtIsFinite, SumAtMost, SumType
<1>6. windows'[ip].count <= Sum(f, At(ip))
  BY <1>1, <1>2 DEF OnlyTheirs
<1>7. windows'[ip].count \in Nat
  BY <1>1, <1>3
<1>8. QED
  BY <1>2, <1>5, <1>6, <1>7

\* What a client did on its own.
LEMMA OwnStepsKeepIt ==
  ASSUME StreamsFit, ReconnectInv, StreamTypeOK', NEW s \in Stream, OnItsOwn(s)
  PROVE  ReconnectInv'
<1>1. StreamTypeOK /\ stream \in [Stream -> Client] /\ happened.other \in Nat
  BY StreamsOf DEF ReconnectInv
<1>2. UNCHANGED limiterVars
  BY DEF OnItsOwn, Fire, Receive, ReceiveAll, Fails, close
<1>3. happened'.other = happened.other
  BY <1>1, HappensIsCounted, BoundNames DEF OnItsOwn, Fire, Receive, ReceiveAll, Fails, close
<1>4. SUFFICES ASSUME happened.other = 0
               PROVE  /\ \A t \in Stream : stream'[t].answer # "refused"
                      /\ \A ip \in Ip : OnlyTheirs(ip)'
  BY <1>3 DEF ReconnectInv
<1>5. \A t \in Stream : stream[t].answer # "refused"
  BY <1>4 DEF ReconnectInv
<1>6. \A t \in Stream : stream'[t].answer # "refused"
  <2>1. \A t \in Stream \ {s} : stream'[t] = stream[t]
    BY <1>1, ClientSteps
  <2>2. stream'[s].answer = None \/ stream'[s].answer = stream[s].answer
    BY <1>1, ClientSteps DEF IsSet
  <2>3. QED
    BY <1>5, <2>1, <2>2
<1>7. ASSUME NEW ip \in Ip PROVE OnlyTheirs(ip)'
  <2>1. Live(ip)' => /\ Live(ip) /\ windows'[ip].count = windows[ip].count
                     /\ Elapsed(ip)' = Elapsed(ip)
    BY <1>2 DEF limiterVars, Live, Elapsed
  <2>2. ASSUME Live(ip)', NEW t \in At(ip)
        PROVE  CanHaveAsked(stream[t], Elapsed(ip)) <= CanHaveAsked(stream'[t], Elapsed(ip))
    <3>1. Elapsed(ip) \in Nat
      BY <1>1, <2>1, <2>2, StreamsOf
    <3>2. stream[t] \in Client /\ t \in Stream
      BY <1>1 DEF At
    <3>3. CASE t = s
      BY <1>1, <3>1, <3>2, <3>3, ClientSteps, OwnStepsAskNothing
    <3>4. CASE t # s
      <4>1. stream'[t] = stream[t]
        BY <1>1, <3>2, <3>4, ClientSteps
      <4>2. CanHaveAsked(stream[t], Elapsed(ip)) \in Nat
        BY <3>1, <3>2, CanHaveAskedType
      <4>3. QED
        BY <4>1, <4>2
    <3>5. QED
      BY <3>3, <3>4
  <2>3. OnlyTheirs(ip)
    BY <1>4 DEF ReconnectInv
  <2>4. QED
    BY <1>1, <2>1, <2>2, <2>3, NothingIsCounted
<1>8. QED
  BY <1>6, <1>7

\* A request of a client: its window has counted fewer than the limit, because the
\* client, which is still to ask, cannot have asked for its whole share.
LEMMA RequestIsAdmitted ==
  ASSUME StreamsFit, ReconnectInv, StreamTypeOK', happened.other = 0, NEW s \in Stream, Handle(s)
  PROVE  Admits(IpOf[s]) /\ OnlyTheirs(IpOf[s])'
<1> DEFINE ip == IpOf[s]
           e == IF Live(ip) THEN Elapsed(ip) ELSE 0
           f == [t \in At(ip) |-> CanHaveAsked(stream[t], e)]
           g == [t \in At(ip) |-> CanHaveAsked(stream'[t], e)]
<1>1. /\ ip \in Ip /\ s \in At(ip) /\ StreamTypeOK /\ LimiterTypeOK /\ OnlyTheirs(ip)
      /\ stream \in [Stream -> Client] /\ stream' \in [Stream -> Client]
  BY StreamsOf DEF At, ReconnectInv, StreamTypeOK, Client
<1>2. e \in 0..(RateLimitWindow - 1)
  BY <1>1, StreamsOf
<1>3. stream[s].stage = "fetch" /\ stream'[s].stage = "answered"
      /\ \A t \in Stream \ {s} : stream'[t] = stream[t]
  BY <1>1 DEF Handle, Client
<1> HIDE DEF ip, e
<1>4. /\ \A t \in At(ip) : f[t] \in Nat /\ g[t] \in Nat /\ g[t] <= Share
      /\ g[s] = f[s] + 1
      /\ \A t \in At(ip) \ {s} : g[t] = f[t]
  <2>1. ASSUME NEW t \in At(ip) PROVE f[t] \in Nat /\ g[t] \in Nat /\ g[t] <= Share
    <3>1. stream[t] \in Client /\ stream'[t] \in Client /\ e \in Nat /\ e <= RateLimitWindow - 1
      BY <1>1, <1>2 DEF At
    <3>2. CanHaveAsked(stream[t], e) \in Nat
      BY <3>1, CanHaveAskedType
    <3>3. CanHaveAsked(stream'[t], e) \in Nat /\ CanHaveAsked(stream'[t], e) <= Share
      BY <3>1, CanHaveAskedType
    <3>4. QED
      BY <3>2, <3>3
  <2>2. CanHaveAsked(stream'[s], e) = CanHaveAsked(stream[s], e) + 1
    <3>1. stream[s] \in Client /\ stream'[s] \in Client /\ e \in Nat
      BY <1>1, <1>2
    <3>2. QED
      BY <1>3, <3>1, RequestsAskOnce
  <2>3. ASSUME NEW t \in At(ip) \ {s} PROVE stream'[t] = stream[t]
    BY <1>3 DEF At
  <2>4. QED
    BY <1>1, <2>1, <2>2, <2>3
<1>5. Together(ip) = f \/ ~Live(ip)
  BY DEF Together, e
<1>6. /\ IsFiniteSet(At(ip)) /\ Share \in Nat
      /\ Cardinality(At(ip)) * Share <= RateLimitMax
      /\ Cardinality(At(ip)) * Share \in Nat
  <2>1. Share \in Nat
    BY Division, RateLimitWindow - 1 \in Nat DEF Share
  <2>2. IsFiniteSet(At(ip)) /\ Cardinality(At(ip)) * Share <= RateLimitMax
    BY <1>1, AtIsFinite DEF StreamsFit
  <2>3. Cardinality(At(ip)) \in Nat
    BY <2>2, FS_CardinalityType
  <2>4. \A m, n \in Nat : m * n \in Nat
    OBVIOUS
  <2>5. QED
    BY <2>1, <2>2, <2>3, <2>4
<1> HIDE DEF f, g
<1>7. /\ Sum(g, At(ip)) \in Nat /\ Sum(f, At(ip)) \in Nat
      /\ Sum(g, At(ip)) <= RateLimitMax
      /\ Sum(g, At(ip)) = Sum(f, At(ip)) + 1
  <2>1. Sum(g, At(ip)) <= Cardinality(At(ip)) * Share
    BY <1>4, <1>6, SumBound
  <2>2. Sum(g, At(ip)) \in Nat /\ Sum(f, At(ip)) \in Nat
    BY <1>4, <1>6, SumType
  <2>3. Sum(g, At(ip)) + f[s] = Sum(f, At(ip)) + g[s]
    BY <1>1, <1>4, <1>6, SumChange
  <2>4. QED
    BY <1>1, <1>4, <1>6, <2>1, <2>2, <2>3
<1>8. Live(ip) => windows[ip].count <= Sum(f, At(ip)) /\ windows[ip].count \in Nat
  BY <1>1, <1>5, StreamsOf DEF OnlyTheirs
<1>9. Admits(ip)
  BY <1>1, <1>7, <1>8, RefusedIsLive
<1>10. windows'[ip].count <= Sum(g, At(ip)) /\ Elapsed(ip)' = e
  <2>1. windows' = Counted(ip)
    BY DEF Handle, rateLimit, ip
  <2>2. CASE Live(ip)
    <3>1. windows[ip].count < RateLimitMax
      BY <1>7, <1>8, <2>2
    <3>2. windows'[ip].left = windows[ip].left /\ windows'[ip].count = windows[ip].count + 1
      BY <1>1, <2>1, <2>2, <3>1, LiveWindowOfRequest
    <3>3. Elapsed(ip)' = e
      BY <2>2, <3>2 DEF Elapsed, e, ip
    <3>4. QED
      BY <1>7, <1>8, <2>2, <3>2, <3>3
  <2>3. CASE ~Live(ip)
    <3>1. windows'[ip].left = RateLimitWindow /\ windows'[ip].count = 1
      BY <1>1, <2>1, <2>3, WindowOfRequest
    <3>2. Elapsed(ip)' = e
      BY <2>3, <3>1 DEF Elapsed, e, ip
    <3>3. QED
      BY <1>7, <3>1, <3>2
  <2>4. QED
    BY <2>2, <2>3
<1>11. Together(ip)' = g
  BY <1>10 DEF Together, g, At, ip
<1>12. OnlyTheirs(ip)'
  BY <1>10, <1>11 DEF OnlyTheirs, At, ip
<1>13. QED
  BY <1>9, <1>12 DEF ip

LEMMA RequestsKeepIt ==
  ASSUME StreamsFit, ReconnectInv, StreamTypeOK', NEW s \in Stream, Handle(s)
  PROVE  ReconnectInv'
<1>1. /\ StreamTypeOK /\ LimiterTypeOK /\ stream \in [Stream -> Client] /\ IpOf[s] \in Ip
      /\ lastSseEventId # "refused"
  BY StreamsOf DEF ReconnectInv, StreamTypeOK
<1>2. happened' = happened
  BY DEF Handle
<1>3. SUFFICES ASSUME happened.other = 0
               PROVE  /\ \A t \in Stream : stream'[t].answer # "refused"
                      /\ \A ip \in Ip : OnlyTheirs(ip)'
  BY <1>2 DEF ReconnectInv
<1>4. Admits(IpOf[s]) /\ OnlyTheirs(IpOf[s])'
  BY <1>3, RequestIsAdmitted
<1>5. \A t \in Stream : stream'[t].answer # "refused"
  <2>1. stream'[s].answer = lastSseEventId
    BY <1>1, <1>4 DEF Handle, Client
  <2>2. \A t \in Stream \ {s} : stream'[t] = stream[t]
    BY <1>1 DEF Handle
  <2>3. \A t \in Stream : stream[t].answer # "refused"
    BY <1>3 DEF ReconnectInv
  <2>4. QED
    BY <1>1, <2>1, <2>2, <2>3
<1>6. ASSUME NEW ip \in Ip, ip # IpOf[s] PROVE OnlyTheirs(ip)'
  <2>1. /\ windows' = Counted(IpOf[s])
        /\ DOMAIN Counted(IpOf[s]) = {i \in DOMAIN windows : windows[i].left > 0} \cup {IpOf[s]}
        /\ \A i \in DOMAIN Counted(IpOf[s]) \ {IpOf[s]} : Counted(IpOf[s])[i] = windows[i]
    BY <1>1, WindowOfRequest DEF Handle, rateLimit
  <2>2. Live(ip)' => Live(ip) /\ windows'[ip] = windows[ip]
    BY <1>6, <2>1 DEF Live
  <2>3. Live(ip)' => Elapsed(ip)' = Elapsed(ip)
    BY <2>2 DEF Elapsed
  <2>4. ASSUME Live(ip)', NEW t \in At(ip)
        PROVE  CanHaveAsked(stream[t], Elapsed(ip)) <= CanHaveAsked(stream'[t], Elapsed(ip)')
    <3>1. t \in Stream /\ t # s /\ Elapsed(ip) \in Nat
      BY <1>1, <1>6, <2>2, <2>4, StreamsOf DEF At
    <3>2. stream'[t] = stream[t] /\ stream[t] \in Client
      BY <1>1, <3>1 DEF Handle
    <3>3. CanHaveAsked(stream[t], Elapsed(ip)) \in Nat
      BY <3>1, <3>2, CanHaveAskedType
    <3>4. QED
      BY <2>3, <2>4, <3>2, <3>3
  <2>5. OnlyTheirs(ip)
    BY <1>3 DEF ReconnectInv
  <2>6. QED
    BY <1>1, <2>2, <2>4, <2>5, NothingIsCounted
<1>7. QED
  BY <1>4, <1>5, <1>6

LEMMA TicksKeepIt ==
  ASSUME StreamsFit, ReconnectInv, StreamTypeOK', Tick
  PROVE  ReconnectInv'
<1>1. StreamTypeOK /\ LimiterTypeOK /\ stream \in [Stream -> Client] /\ stream' \in [Stream -> Client]
  BY StreamsOf DEF ReconnectInv, StreamTypeOK, Client
<1>2. happened' = happened
  BY DEF Tick
<1>3. SUFFICES ASSUME happened.other = 0
               PROVE  /\ \A t \in Stream : stream'[t].answer # "refused"
                      /\ \A ip \in Ip : OnlyTheirs(ip)'
  BY <1>2 DEF ReconnectInv
<1>4. ASSUME NEW t \in Stream
      PROVE  /\ stream'[t].answer = stream[t].answer /\ stream'[t].stage = stream[t].stage
             /\ stream[t].stage = "timer" => stream[t].wait > 0 /\ stream'[t].wait = stream[t].wait - 1
  BY <1>1 DEF Tick, Client
<1>5. \A t \in Stream : stream'[t].answer # "refused"
  BY <1>3, <1>4 DEF ReconnectInv
<1>6. ASSUME NEW ip \in Ip PROVE OnlyTheirs(ip)'
  <2>1. Live(ip)' => Live(ip) /\ windows'[ip].count = windows[ip].count
                     /\ windows'[ip].left = windows[ip].left - 1
    <3>1. SUFFICES ASSUME ip \in DOMAIN windows, windows'[ip].left > 0
                   PROVE  /\ windows[ip].left > 0 /\ windows'[ip].count = windows[ip].count
                          /\ windows'[ip].left = windows[ip].left - 1
      BY DEF Tick, Pass, Live
    <3>2. windows[ip] \in [count: 1..(RateLimitMax + 1), left: 0..RateLimitWindow]
      BY <1>1, <3>1 DEF LimiterTypeOK
    <3>3. windows'[ip] = [windows[ip] EXCEPT !.left = IF @ = 0 THEN 0 ELSE @ - 1]
      BY <3>1 DEF Tick, Pass
    <3>4. /\ windows'[ip].count = windows[ip].count
          /\ windows'[ip].left = IF windows[ip].left = 0 THEN 0 ELSE windows[ip].left - 1
      BY <3>2, <3>3
    <3>5. QED
      BY <3>1, <3>2, <3>4
  <2>2. ASSUME Live(ip)', NEW t \in At(ip)
        PROVE  CanHaveAsked(stream[t], Elapsed(ip)) <= CanHaveAsked(stream'[t], Elapsed(ip)')
    <3>1. t \in Stream /\ Elapsed(ip) \in Nat /\ windows[ip].left \in Nat
      BY <1>1, <2>1, <2>2, StreamsOf, LiveTypes DEF At
    <3>2. Elapsed(ip)' = Elapsed(ip) + 1
      BY <2>1, <2>2, <3>1 DEF Elapsed
    <3>3. stream[t] \in Client /\ stream'[t] \in Client
      BY <1>1, <3>1
    <3>4. CanHaveAsked(stream[t], Elapsed(ip)) <= CanHaveAsked(stream'[t], Elapsed(ip) + 1)
      BY <1>4, <3>1, <3>3, TicksAskNothing
    <3>5. QED
      BY <3>2, <3>4
  <2>3. OnlyTheirs(ip)
    BY <1>3 DEF ReconnectInv
  <2>4. QED
    BY <1>1, <2>1, <2>2, <2>3, NothingIsCounted
<1>7. QED
  BY <1>5, <1>6

\* Clients that do nothing but reconnect, from as few tabs as have room in the
\* limit of their address together, are never refused, also when no wait is ever
\* doubled (lib/api.ts 400-432).
THEOREM ReconnectingIsFree == ASSUME StreamsFit PROVE StreamSpec => []ReconnectsAreAdmitted
<1>1. StreamInit => ReconnectInv
  <2>1. SUFFICES ASSUME StreamInit PROVE ReconnectInv
    OBVIOUS
  <2>2. \A s \in Stream : stream[s].answer # "refused"
    BY <2>1 DEF StreamInit, connect
  <2>3. \A ip \in Ip : ~Live(ip)
    BY <2>1 DEF StreamInit, LimiterInit, Live
  <2>4. QED
    BY <2>1, <2>2, <2>3, StreamInitTypes DEF ReconnectInv, OnlyTheirs
<1>2. ASSUME ReconnectInv, [StreamNext]_streamVars
      PROVE  ReconnectInv'
  <2>1. StreamTypeOK /\ StreamTypeOK' /\ happened.other \in Nat
    BY <1>2, StreamStepTypes, StreamsOf DEF ReconnectInv
  <2>2. ASSUME UNCHANGED <<limiterVars, stream>>, happened'.other = happened.other PROVE ReconnectInv'
    <3>1. ASSUME NEW ip \in Ip PROVE OnlyTheirs(ip)' <=> OnlyTheirs(ip)
      BY <2>2 DEF OnlyTheirs, Together, Elapsed, Live, At, limiterVars
    <3>2. QED
      BY <1>2, <2>1, <2>2, <3>1 DEF ReconnectInv
  <2>3. CASE Restart
    <3>1. \A ip \in Ip : ~Live(ip)'
      BY <2>3 DEF Restart, Forget, Live
    <3>2. happened'.other = happened.other /\ stream' = stream
      BY <2>1, <2>3, HappensIsCounted, BoundNames DEF Restart
    <3>3. QED
      BY <1>2, <2>1, <3>1, <3>2 DEF ReconnectInv, OnlyTheirs
  <2>4. ASSUME NEW ip \in Ip, OtherRequest(ip) PROVE ReconnectInv'
    <3>1. happened'.other = happened.other + 1
      BY <2>1, <2>4, HappensIsCounted, BoundNames DEF OtherRequest
    <3>2. QED
      BY <2>1, <3>1 DEF ReconnectInv
  <2>5. ASSUME NEW id \in Event, publishSseEventId(id) PROVE ReconnectInv'
    <3>1. happened'.other = happened.other
      BY <2>1, <2>5, HappensIsCounted, BoundNames DEF publishSseEventId
    <3>2. UNCHANGED <<limiterVars, stream>>
      BY <2>5 DEF publishSseEventId
    <3>3. QED
      BY <2>2, <3>1, <3>2
  <2>6. CASE UNCHANGED streamVars
    BY <2>2, <2>6 DEF streamVars
  <2>7. QED
    BY <1>2, <2>1, <2>3, <2>4, <2>5, <2>6, TicksKeepIt, RequestsKeepIt, OwnStepsKeepIt
       DEF StreamNext, OnItsOwn
<1>3. ReconnectInv => ReconnectsAreAdmitted
  BY DEF ReconnectInv, ReconnectsAreAdmitted
<1>4. QED
  BY <1>1, <1>2, <1>3, PTL DEF StreamSpec
=============================================================================
