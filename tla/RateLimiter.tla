---------------------------- MODULE RateLimiter ----------------------------
(***************************************************************************)
(* The fixed-window rate limiter in front of every route                   *)
(* (src/backend/src/middleware/rateLimit.ts).  A window is kept as the     *)
(* time that is left of it, in ticks; the clock does not go back.          *)
(***************************************************************************)
EXTENDS Integers, FiniteSets, Functions

CONSTANTS
  Ip,               \* addresses of clients, the keys of the windows
  RateLimitWindow,  \* RATE_LIMIT_WINDOW_MS in ticks
  RateLimitMax,     \* RATE_LIMIT_MAX
  Second            \* ticks in a second

ASSUME LimiterAssumption ==
  /\ RateLimitWindow \in Nat \ {0} /\ RateLimitMax \in Nat \ {0} /\ Second \in Nat \ {0}

VARIABLES
  windows,   \* Ip |-> window, for those that have one
  recent,    \* observed: Ip |-> age |-> requests admitted that many ticks ago
  promised   \* observed: Ip |-> ticks to wait of the last answer, Free if none

limiterVars == <<windows, recent, promised>>

Free == -1
Ages == 0..(RateLimitWindow - 1)

-----------------------------------------------------------------------------
\* resetAt <= now: the window is over.
prune == [ip \in {i \in DOMAIN windows : windows[i].left > 0} |-> windows[ip]]

\* Mutant of Counted: the window starts anew with every request.
Counted_Sliding(ip) ==
  LET count == IF ip \in DOMAIN prune THEN prune[ip].count ELSE 0
  IN  [i \in DOMAIN prune \cup {ip} |->
         IF i = ip THEN [count |-> count + 1, left |-> RateLimitWindow] ELSE prune[i]]

\* The count of a window that is exceeded says no more than that it is.
Counted(ip) ==
  [i \in DOMAIN prune \cup {ip} |->
     IF i # ip THEN prune[i]
     ELSE IF ip \notin DOMAIN prune THEN [count |-> 1, left |-> RateLimitWindow]
     ELSE [prune[ip] EXCEPT !.count = IF @ > RateLimitMax THEN @ ELSE @ + 1]]

\* Mutant of Admits: one request too many.
Admits_One(ip) == Counted(ip)[ip].count <= RateLimitMax + 1

Admits(ip) == Counted(ip)[ip].count <= RateLimitMax

\* Mutant of RetryAfter: rounded down.
RetryAfter_Down(ip) == windows[ip].left \div Second

\* Math.ceil, in seconds.
RetryAfter(ip) == (windows[ip].left + Second - 1) \div Second

rateLimit(ip) ==
  /\ windows' = Counted(ip)
  /\ recent' = IF Admits(ip) THEN [recent EXCEPT ![ip][0] = @ + 1] ELSE recent
  /\ promised' = [promised EXCEPT ![ip] = IF Admits(ip) THEN Free ELSE RetryAfter(ip) * Second]

\* Time passes.
Pass ==
  /\ windows' = [ip \in DOMAIN windows |-> [windows[ip] EXCEPT !.left = IF @ = 0 THEN 0 ELSE @ - 1]]
  /\ recent' = [ip \in Ip |-> [age \in Ages |-> IF age = 0 THEN 0 ELSE recent[ip][age - 1]]]
  /\ promised' = [ip \in Ip |-> IF promised[ip] <= 0 THEN promised[ip] ELSE promised[ip] - 1]

\* The windows are in memory: a restart forgets them.
Forget ==
  /\ windows' = [ip \in {} |-> 0]
  /\ recent' = [ip \in Ip |-> [age \in Ages |-> 0]]
  /\ UNCHANGED promised

LimiterInit ==
  /\ windows = [ip \in {} |-> 0]
  /\ recent = [ip \in Ip |-> [age \in Ages |-> 0]]
  /\ promised = [ip \in Ip |-> Free]
-----------------------------------------------------------------------------
LimiterTypeOK ==
  /\ DOMAIN windows \subseteq Ip
  /\ \A ip \in DOMAIN windows : windows[ip] \in [count: 1..(RateLimitMax + 1), left: 0..RateLimitWindow]
  /\ recent \in [Ip -> [Ages -> Nat]]
  /\ promised \in [Ip -> {Free} \cup 0..(RateLimitWindow + Second)]

\* Since the server started, no address had more requests admitted than the limit
\* within its window, and none more than twice the limit within any time of that
\* length (rateLimit.ts 30-46).
RequestsAreLimited ==
  \A ip \in Ip :
    /\ SumFunction(recent[ip]) <= 2 * RateLimitMax
    /\ ip \in DOMAIN windows =>
         SumFunctionOnSet(recent[ip], {age \in Ages : age <= RateLimitWindow - windows[ip].left}) <= RateLimitMax
=============================================================================
