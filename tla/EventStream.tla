---------------------------- MODULE EventStream ----------------------------
(***************************************************************************)
(* GET /api/events/stream (src/backend/src/routes/api.ts) behind the rate  *)
(* limiter, and its client autoSse (src/src/lib/api.ts).                   *)
(*                                                                         *)
(* The indexer calls its own publishSseEventId, not the one that           *)
(* wireSseBridge puts in the exports of its module (src/backend/           *)
(* tsconfig.json: CommonJS), so nothing ever creates the bus: each         *)
(* connection is told the newest id, its subscription throws, and with the *)
(* head of the answer sent the error handler can only break it off.  What  *)
(* clients hear, they hear because they connect again.                     *)
(***************************************************************************)
EXTENDS RateLimiter

CONSTANTS
  Stream,       \* clients of the event stream
  IpOf,         \* Stream |-> its address
  Event,        \* ids of events
  None,
  FirstRetry, LastRetry,   \* 1 s and 30 s, in ticks
  MaxPublished, \* bound on publications
  MaxRestarts,  \* bound on restarts of the server
  MaxOther,     \* bound on other requests from the addresses
  MaxLost,      \* bound on connections and answers that are lost
  MaxClosed     \* bound on clients that close

ASSUME StreamAssumption ==
  /\ IpOf \in [Stream -> Ip]
  /\ FirstRetry \in Nat \ {0} /\ LastRetry \in Nat /\ LastRetry >= FirstRetry
  /\ None \notin Event /\ "refused" \notin Event \cup {None}
  /\ {MaxPublished, MaxRestarts, MaxOther, MaxLost, MaxClosed} \subseteq Nat

VARIABLES
  lastSseEventId,
  stream,       \* Stream |-> state of autoSse
  happened      \* how often each of the bounded things happened

streamVars == <<limiterVars, lastSseEventId, stream, happened>>

Bound ==
  [published |-> MaxPublished, restarts |-> MaxRestarts, other |-> MaxOther,
   lost |-> MaxLost, closed |-> MaxClosed]

Happens(what) == happened[what] < Bound[what] /\ happened' = [happened EXCEPT ![what] = @ + 1]

-----------------------------------------------------------------------------
(* autoSse.                                                                *)

\* connect is called at once, and later by a timer.
connect == [stage |-> "fetch", wait |-> 0, retry |-> FirstRetry, closed |-> FALSE,
            answer |-> None, seen |-> None]

Least(i, j) == IF i < j THEN i ELSE j

Again(s, retry) ==
  [stream[s] EXCEPT !.stage = "timer", !.wait = retry, !.retry = retry, !.answer = None]

\* Mutant of BackOff: no timer once the wait cannot be doubled.
BackOff_GivesUp(s) ==
  IF 2 * stream[s].retry > LastRetry THEN [stream[s] EXCEPT !.stage = "ended"]
  ELSE Again(s, 2 * stream[s].retry)

\* After close, twice infinity is again the longest wait.
BackOff(s) == Again(s, Least(LastRetry, 2 * stream[s].retry))

Fire(s) ==
  /\ stream[s].stage = "timer" /\ stream[s].wait = 0
  /\ stream' = [stream EXCEPT ![s].stage = "fetch"]
  /\ UNCHANGED <<limiterVars, lastSseEventId, happened>>

\* A refusal, or a body that breaks off after the id; an empty id is ignored.
Receive(s) ==
  /\ stream[s].stage = "answered"
  /\ stream' = [stream EXCEPT ![s] =
       IF stream[s].answer \in Event THEN [BackOff(s) EXCEPT !.seen = stream[s].answer]
       ELSE BackOff(s)]
  /\ UNCHANGED <<limiterVars, lastSseEventId, happened>>

\* Whatever is between the two ends the body properly: done, without a doubling.
ReceiveAll(s) ==
  /\ stream[s].stage = "answered" /\ stream[s].answer # "refused"
  /\ stream' = [stream EXCEPT ![s] =
       IF stream[s].answer \in Event
       THEN [Again(s, FirstRetry) EXCEPT !.seen = stream[s].answer]
       ELSE Again(s, FirstRetry)]
  /\ UNCHANGED <<limiterVars, lastSseEventId, happened>>

\* The connection fails before an id came.
Fails(s) ==
  /\ stream[s].stage \in {"fetch", "answered"}
  /\ stream' = [stream EXCEPT ![s] = BackOff(s)]
  /\ Happens("lost")
  /\ UNCHANGED <<limiterVars, lastSseEventId>>

\* close aborts what is under way, which the catch takes for a failure; a timer
\* that is set stays set.
close(s) ==
  /\ ~stream[s].closed
  /\ stream' = [stream EXCEPT ![s] =
       [IF stream[s].stage = "timer" THEN [stream[s] EXCEPT !.retry = LastRetry]
        ELSE Again(s, LastRetry) EXCEPT !.closed = TRUE]]
  /\ Happens("closed")
  /\ UNCHANGED <<limiterVars, lastSseEventId>>

-----------------------------------------------------------------------------
(* The server.                                                             *)

\* GET /api/events/stream, and what the limiter makes of it.
Handle(s) ==
  /\ stream[s].stage = "fetch"
  /\ rateLimit(IpOf[s])
  /\ stream' = [stream EXCEPT ![s].stage = "answered",
                              ![s].answer = IF Admits(IpOf[s]) THEN lastSseEventId ELSE "refused"]
  /\ UNCHANGED <<lastSseEventId, happened>>

\* Any other request from an address; health probes are counted too.
OtherRequest(ip) ==
  /\ Happens("other")
  /\ rateLimit(ip)
  /\ UNCHANGED <<lastSseEventId, stream>>

\* persistEvents, with the id of the last event of its batch.
publishSseEventId(id) ==
  /\ Happens("published")
  /\ lastSseEventId' = id
  /\ UNCHANGED <<limiterVars, stream>>

\* The id is in memory only.
Restart ==
  /\ Happens("restarts")
  /\ lastSseEventId' = None
  /\ Forget
  /\ UNCHANGED stream

Tick ==
  /\ Pass
  /\ \A s \in Stream : stream[s].stage = "timer" => stream[s].wait > 0
  /\ stream' = [s \in Stream |->
       IF stream[s].stage = "timer" THEN [stream[s] EXCEPT !.wait = @ - 1] ELSE stream[s]]
  /\ UNCHANGED <<lastSseEventId, happened>>

StreamInit ==
  /\ LimiterInit
  /\ lastSseEventId = None
  /\ stream = [s \in Stream |-> connect]
  /\ happened = [what \in DOMAIN Bound |-> 0]

StreamNext ==
  \/ Tick \/ Restart
  \/ \E s \in Stream : Fire(s) \/ Handle(s) \/ Receive(s) \/ ReceiveAll(s) \/ Fails(s) \/ close(s)
  \/ \E ip \in Ip : OtherRequest(ip)
  \/ \E id \in Event : publishSseEventId(id)

\* Time passes, timers fire, and requests are answered; how often an answer is
\* lost is bounded.
StreamSpec ==
  /\ StreamInit /\ [][StreamNext]_streamVars
  /\ WF_streamVars(Tick)
  /\ \A s \in Stream : WF_streamVars(Fire(s)) /\ WF_streamVars(Handle(s)) /\ WF_streamVars(Receive(s))

-----------------------------------------------------------------------------
StreamTypeOK ==
  /\ LimiterTypeOK
  /\ lastSseEventId \in Event \cup {None}
  /\ stream \in [Stream -> [stage: {"fetch", "timer", "answered"}, wait: 0..LastRetry,
                            retry: FirstRetry..LastRetry, closed: BOOLEAN,
                            answer: Event \cup {None, "refused"}, seen: Event \cup {None}]]
  /\ happened \in [DOMAIN Bound -> Nat]

\* Who waited as long as a refusal said, and asked for nothing else, is admitted
\* (rateLimit.ts 39-43).
WaitingHelps ==
  [][\A ip \in Ip : promised[ip] = 0 /\ rateLimit(ip) => promised'[ip] = Free]_streamVars

\* Although no subscription succeeds, every client comes to hear of the newest
\* event, unless that changes or the server forgets it, whatever it was refused
\* and lost before (api.ts 968-1032; lib/api.ts 373-445).
NewsArrives ==
  \A s \in Stream, id \in Event :
    lastSseEventId = id ~> stream[s].seen = id \/ lastSseEventId # id

\* Clients that do nothing but reconnect are never refused, also when every body
\* ends properly and no wait is ever doubled: the limit is theirs together
\* (lib/api.ts 400-432).
ReconnectsAreAdmitted ==
  happened.other = 0 => \A s \in Stream : stream[s].answer # "refused"
=============================================================================
