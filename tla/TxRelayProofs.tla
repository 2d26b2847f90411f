--------------------------- MODULE TxRelayProofs ---------------------------
(***************************************************************************)
(* The relay implements RelayPromise.tla, for any accounts, requests and   *)
(* number of flows: whatever is lost, late or refused, a confirmation is   *)
(* told only of what took effect, a refusal only of what never will, and   *)
(* neither changes afterwards.                                             *)
(*                                                                         *)
(* The argument is about one flow at a time: what its client, the server   *)
(* and the network know of it is consistent, and each step of one of them  *)
(* keeps that.  What the contract executes is what was asked: arguments go *)
(* by name, then by position, and an amount in two words.                  *)
(*                                                                         *)
(* What the dashboard shows needs only the promise, not the relay.         *)
(***************************************************************************)
EXTENDS TxRelay, Dashboard, SequenceTheorems, FiniteSetTheorems, TLAPS

\* What became of a flow, read off its own record.
FateOf(r) ==
  CASE r.net = "applied" -> "executed"
    [] r.net \in {"failed", "dropped"} \/ (r.net = "none" /\ r.server = "over") -> "void"
    [] OTHER -> "open"

ToldOf(r) ==
  CASE r.step = "done" -> "confirmed"
    [] r.step = "error" -> IF r.answer \in Refusals THEN "refused" ELSE "doubt"
    [] OTHER -> "nothing"

OutcomeOf(r) == [told |-> ToldOf(r), fate |-> FateOf(r)]

\* How far client, server and network can be apart: only a transaction that was
\* sent is anywhere in the network, and the client knows where its request is
\* unless it has given up.
Consistent(r) ==
  /\ r.server \in {"build", "simulate", "idle", "send"} => r.net = "none"
  /\ r.step = "building" => r.server \in {"build", "simulate"}
  /\ r.step = "signing" => r.server = "idle"
  /\ r.step = "submitting" => r.server \in {"send", "poll", "late"}
  /\ r.step = "done" => r.server = "over" /\ r.net = "applied"
  /\ r.step = "error" /\ r.answer \in Refusals => FateOf(r) = "void"

RelayInv ==
  /\ sequence \in [Account -> Nat]
  /\ script \in Scripts
  /\ flow \in Seq(FlowType)
  /\ executed \in Seq(Nat)
  /\ \A f \in Flows : Consistent(flow[f])
  /\ \A f \in Nat : TookEffect(f) <=> f \in Flows /\ flow[f].net = "applied"

\* What a step may do to the record of a flow.
Moves(was, is) ==
  is \in FlowType /\ Consistent(is) /\ Promise!May(OutcomeOf(was), OutcomeOf(is))

-----------------------------------------------------------------------------
(* Steps, as far as they concern the record of a flow.                     *)

\* An answer is given once: the server is done with it.  A confirmation needs an
\* applied transaction, a refusal one that is void.
LEMMA AnsweredMoves ==
  ASSUME NEW r \in FlowType, Consistent(r), r.server # "over",
         NEW code \in {"SUCCESS"} \cup Refusals \cup Doubts,
         code = "SUCCESS" => r.net = "applied",
         code \in Refusals => r.net \in {"none", "failed"}
  PROVE  Moves(r, Answered(r, code))
<1> DEFINE s == Answered(r, code)
<1>1. s \in FlowType
  BY DEF Answered, FlowType
<1>2. CASE r.step = "error"
  <2>1. s.server = "over" /\ s.step = r.step /\ s.answer = r.answer /\ s.net = r.net
    BY <1>2 DEF Answered, FlowType
  <2>2. QED
    BY <1>1, <1>2, <2>1 DEF Moves, Consistent, Promise!May, OutcomeOf, ToldOf, FateOf
<1>3. CASE r.step # "error"
  <2>1. /\ s.server = "over" /\ s.answer = code /\ s.net = r.net
        /\ s.step = IF code = "SUCCESS" THEN "done" ELSE "error"
    BY <1>3 DEF Answered, FlowType
  <2>2. r.step # "done"
    BY DEF Consistent
  <2>3. QED
    BY <1>1, <1>3, <2>1, <2>2 DEF Moves, Consistent, Promise!May, OutcomeOf, ToldOf, FateOf, Refusals, Doubts, FlowType
<1>4. QED
  BY <1>2, <1>3

\* A step that changes where the request stands, and tells nothing.
LEMMA StageMoves ==
  ASSUME NEW r \in FlowType, NEW s \in FlowType, Consistent(s),
         ToldOf(s) = ToldOf(r) \/ (ToldOf(r) = "nothing" /\ ToldOf(s) = "doubt"),
         ToldOf(r) \in {"nothing", "doubt", "refused"},
         FateOf(s) = FateOf(r) \/ (FateOf(r) = "open" /\ FateOf(s) \in {"executed", "void"}),
         ToldOf(r) = "refused" => FateOf(r) = "void"
  PROVE  Moves(r, s)
BY DEF Moves, Promise!May, OutcomeOf

\* One flow moves, and nothing new takes effect.
LEMMA OneMoves ==
  ASSUME RelayInv, NEW f \in Flows, NEW r, Becomes(f, r), Moves(flow[f], r),
         r.net = "applied" <=> flow[f].net = "applied"
  PROVE  RelayInv' /\ Flows' = Flows /\ \A g \in Flows : Moves(flow[g], flow'[g]) \/ flow'[g] = flow[g]
<1>1. r \in FlowType /\ Consistent(r)
  BY DEF Moves
<1>2. /\ flow' = [flow EXCEPT ![f] = r]
      /\ UNCHANGED <<script, sequence, executed, spent>>
  BY DEF Becomes
<1>3. flow' \in Seq(FlowType) /\ Flows' = Flows
  BY <1>1, <1>2 DEF RelayInv, Flows
<1>4. flow'[f] = r /\ \A g \in Flows \ {f} : flow'[g] = flow[g]
  BY <1>2 DEF RelayInv, Flows
<1>5. \A g \in Flows' : Consistent(flow'[g])
  BY <1>1, <1>3, <1>4 DEF RelayInv
<1>6. \A g : TookEffect(g)' <=> TookEffect(g)
  BY <1>2 DEF TookEffect
<1>7. \A g \in Nat : TookEffect(g)' <=> g \in Flows' /\ flow'[g].net = "applied"
  BY <1>3, <1>4, <1>6 DEF RelayInv
<1>8. RelayInv'
  BY <1>2, <1>3, <1>5, <1>7 DEF RelayInv
<1>9. QED
  BY <1>3, <1>4, <1>8

-----------------------------------------------------------------------------
(* The actions.                                                            *)

\* The flow moves on, and nothing takes effect.
Progress(f) ==
  \E r : Becomes(f, r) /\ Moves(flow[f], r) /\ (r.net = "applied" <=> flow[f].net = "applied")

LEMMA FlowFacts ==
  ASSUME RelayInv, NEW f \in Flows
  PROVE  flow[f] \in FlowType /\ Consistent(flow[f])
BY DEF RelayInv, Flows

LEMMA ReplyMoves ==
  ASSUME RelayInv, NEW f \in Flows, flow[f].server # "over",
         NEW code \in {"SUCCESS"} \cup Refusals \cup Doubts,
         code = "SUCCESS" => flow[f].net = "applied",
         code \in Refusals => flow[f].net \in {"none", "failed"},
         Reply(f, code)
  PROVE  Progress(f)
<1>1. flow[f] \in FlowType /\ Consistent(flow[f])
  BY FlowFacts
<1>2. Moves(flow[f], Answered(flow[f], code))
  BY <1>1, AnsweredMoves
<1>3. Answered(flow[f], code).net = flow[f].net
  BY <1>1 DEF Answered, FlowType
<1>4. QED
  BY <1>2, <1>3 DEF Reply, Progress

LEMMA GetAccountMoves ==
  ASSUME RelayInv, NEW f \in Flows, GetAccount(f)
  PROVE  Progress(f)
<1> DEFINE r == flow[f]
           n == sequence[r.who] + 1
           s == [r EXCEPT !.server = "simulate", !.nonce = n]
<1>1. r \in FlowType /\ Consistent(r) /\ r.server = "build" /\ r.net = "none"
  BY FlowFacts DEF GetAccount, Consistent
<1>2. CASE \E code \in {"BAD_FIELD", "BUILD_FAILED"} : Reply(f, code)
  BY <1>1, <1>2, ReplyMoves DEF Refusals
<1>3. CASE Becomes(f, s)
  <2>1. n \in Nat
    BY <1>1 DEF FlowType, RelayInv
  <2>2. s \in FlowType /\ s.server = "simulate" /\ s.step = r.step /\ s.answer = r.answer /\ s.net = r.net
    <3> HIDE DEF n
    <3> QED
      BY <1>1, <2>1 DEF FlowType
  <2>3. r.step \in {"building", "error"} /\ ~(r.step = "error" /\ r.answer \in Refusals)
    BY <1>1 DEF FlowType, Consistent, FateOf
  <2> HIDE DEF s
  <2>4. Consistent(s) /\ ToldOf(s) = ToldOf(r) /\ FateOf(s) = FateOf(r) /\ ToldOf(r) \in {"nothing", "doubt"}
    BY <1>1, <2>2, <2>3 DEF Consistent, ToldOf, FateOf
  <2>5. Moves(r, s)
    BY <1>1, <2>2, <2>4, StageMoves
  <2>6. QED
    BY <1>3, <2>2, <2>5 DEF Progress
<1>4. QED
  BY <1>2, <1>3 DEF GetAccount

LEMMA SimulateMoves ==
  ASSUME RelayInv, NEW f \in Flows, Simulate(f)
  PROVE  Progress(f)
<1> DEFINE r == flow[f]
           s == IF r.step = "error" THEN [r EXCEPT !.server = "over"]
                ELSE [r EXCEPT !.step = "signing", !.server = "idle"]
<1>1. r \in FlowType /\ Consistent(r) /\ r.server = "simulate" /\ r.net = "none"
  BY FlowFacts DEF Simulate, Consistent
<1>2. CASE \E code \in {"SIMULATION_FAILED", "BUILD_FAILED"} : Reply(f, code)
  BY <1>1, <1>2, ReplyMoves DEF Refusals
<1>3. CASE Becomes(f, s)
  <2>1. /\ s \in FlowType /\ s.net = "none" /\ s.answer = r.answer
        /\ r.step = "error" => s.step = "error" /\ s.server = "over"
        /\ r.step # "error" => s.step = "signing" /\ s.server = "idle"
    BY <1>1 DEF FlowType
  <2>2. r.step \in {"building", "error"} /\ ~(r.step = "error" /\ r.answer \in Refusals)
    BY <1>1 DEF FlowType, Consistent, FateOf
  <2> HIDE DEF s
  <2>3. Consistent(s) /\ ToldOf(s) = ToldOf(r) /\ ToldOf(r) \in {"nothing", "doubt"}
        /\ FateOf(r) = "open" /\ FateOf(s) \in {"open", "void"}
    BY <1>1, <2>1, <2>2 DEF Consistent, ToldOf, FateOf
  <2>4. Moves(r, s)
    BY <1>1, <2>1, <2>3, StageMoves
  <2>5. QED
    BY <1>1, <1>3, <2>1, <2>4 DEF Progress
<1>4. QED
  BY <1>2, <1>3 DEF Simulate

LEMMA SignMoves ==
  ASSUME RelayInv, NEW f \in Flows, Sign(f)
  PROVE  Progress(f)
<1> DEFINE r == flow[f]
           s == [r EXCEPT !.step = "submitting", !.server = "send"]
<1>1. r \in FlowType /\ Consistent(r) /\ r.step = "signing" /\ r.server = "idle" /\ r.net = "none"
  BY FlowFacts DEF Sign, Consistent
<1>2. CASE Reply(f, "NOT_SIGNED")
  BY <1>1, <1>2, ReplyMoves DEF Refusals
<1>3. CASE Becomes(f, s)
  <2>1. s \in FlowType /\ s.net = "none" /\ s.step = "submitting" /\ s.server = "send"
    BY <1>1 DEF FlowType
  <2> HIDE DEF s
  <2>2. Consistent(s) /\ ToldOf(s) = "nothing" /\ ToldOf(r) = "nothing" /\ FateOf(r) = "open" /\ FateOf(s) = "open"
    BY <1>1, <2>1 DEF Consistent, ToldOf, FateOf
  <2>3. Moves(r, s)
    BY <1>1, <2>1, <2>2, StageMoves
  <2>4. QED
    BY <1>1, <1>3, <2>1, <2>3 DEF Progress
<1>4. QED
  BY <1>2, <1>3 DEF Sign

\* The request stays open with whoever has it: the transaction is sent, or the
\* poll is in its last attempt.
LEMMA SentMoves ==
  ASSUME RelayInv, NEW f \in Flows, flow[f].server \in {"send", "poll"},
         NEW s \in FlowType, s.step = flow[f].step, s.answer = flow[f].answer,
         s.server \in {"poll", "late"},
         s.net = flow[f].net \/ (flow[f].net = "none" /\ s.net = "pooled")
  PROVE  Moves(flow[f], s)
<1> DEFINE r == flow[f]
<1>1. r \in FlowType /\ Consistent(r)
  BY FlowFacts
<1>2. r.step \in {"submitting", "error"}
  BY <1>1 DEF FlowType, Consistent
<1>3. r.step = "error" /\ r.answer \in Refusals => FateOf(r) = "void" /\ r.net \in {"failed", "dropped"}
  BY <1>1 DEF Consistent, FateOf, FlowType
<1>4. FateOf(s) = FateOf(r) /\ ToldOf(s) = ToldOf(r)
  BY <1>1 DEF FateOf, ToldOf, FlowType
<1>5. Consistent(s)
  BY <1>1, <1>2, <1>3, <1>4 DEF Consistent
<1>6. ToldOf(r) \in {"nothing", "doubt", "refused"} /\ (ToldOf(r) = "refused" => FateOf(r) = "void")
  BY <1>2, <1>3 DEF ToldOf
<1>7. QED
  BY <1>1, <1>4, <1>5, <1>6, StageMoves

LEMMA SendMoves ==
  ASSUME RelayInv, NEW f \in Flows, Send(f)
  PROVE  Progress(f)
<1> DEFINE r == flow[f]
           p == [r EXCEPT !.net = "pooled"]
<1>1. r \in FlowType /\ Consistent(r) /\ r.server = "send" /\ r.net = "none"
  BY FlowFacts DEF Send, Consistent
<1>2. CASE \E code \in {"TX_REJECTED", SendFailure} : Reply(f, code)
  BY <1>1, <1>2, ReplyMoves DEF Refusals, Doubts, SendFailure
<1>3. \A s \in {[r EXCEPT !.server = "poll"], [r EXCEPT !.server = "poll", !.net = "pooled"]} :
        Moves(r, s) /\ s.net \in {"none", "pooled"}
  <2> SUFFICES ASSUME NEW s \in {[r EXCEPT !.server = "poll"], [r EXCEPT !.server = "poll", !.net = "pooled"]}
               PROVE  Moves(r, s) /\ s.net \in {"none", "pooled"}
    OBVIOUS
  <2>1. /\ s \in FlowType /\ s.step = r.step /\ s.answer = r.answer /\ s.server = "poll"
        /\ s.net \in {"none", "pooled"}
    BY <1>1 DEF FlowType
  <2>2. QED
    BY <1>1, <2>1, SentMoves
<1>4. CASE \E s \in {[r EXCEPT !.server = "poll"], [r EXCEPT !.server = "poll", !.net = "pooled"]} :
             Becomes(f, s)
  BY <1>1, <1>3, <1>4 DEF Progress
<1>5. CASE Becomes(f, Answered(p, SendFailure))
  <2> DEFINE s == Answered(p, SendFailure)
  <2>1. /\ s \in FlowType /\ s.net = "pooled" /\ s.server = "over"
        /\ r.step = "error" => s.step = "error" /\ s.answer = r.answer
        /\ r.step # "error" => s.step = "error" /\ s.answer = "SUBMIT_FAILED"
    BY <1>1 DEF FlowType, Answered, SendFailure, Doubts
  <2>2. r.step \in {"submitting", "error"} /\ ~(r.step = "error" /\ r.answer \in Refusals)
    BY <1>1 DEF FlowType, Consistent, FateOf
  <2> HIDE DEF s
  <2>3. /\ Consistent(s) /\ ToldOf(s) = "doubt" /\ ToldOf(r) \in {"nothing", "doubt"}
        /\ FateOf(r) = "open" /\ FateOf(s) = "open"
    BY <1>1, <2>1, <2>2 DEF Consistent, ToldOf, FateOf, Refusals
  <2>4. Moves(r, s)
    BY <1>1, <2>1, <2>3, StageMoves
  <2>5. QED
    BY <1>1, <1>5, <2>1, <2>4 DEF Progress, s
<1>6. QED
  BY <1>2, <1>4, <1>5 DEF Send

LEMMA DropMoves ==
  ASSUME RelayInv, NEW f \in Flows, Drop(f)
  PROVE  Progress(f)
<1> DEFINE r == flow[f]
           s == [r EXCEPT !.net = "dropped"]
<1>1. r \in FlowType /\ Consistent(r) /\ r.net = "pooled"
  BY FlowFacts DEF Drop
<1>2. /\ s \in FlowType /\ s.net = "dropped"
      /\ s.step = r.step /\ s.answer = r.answer /\ s.server = r.server
  BY <1>1 DEF FlowType
<1> HIDE DEF s
<1>3. r.step # "done" /\ ~(r.step = "error" /\ r.answer \in Refusals)
      /\ r.server \notin {"build", "simulate", "idle", "send"}
  BY <1>1 DEF Consistent, FateOf
<1>4. /\ Consistent(s) /\ ToldOf(s) = ToldOf(r) /\ ToldOf(r) \in {"nothing", "doubt"}
      /\ FateOf(r) = "open" /\ FateOf(s) = "void"
  BY <1>1, <1>2, <1>3 DEF Consistent, ToldOf, FateOf
<1>5. Moves(r, s)
  BY <1>1, <1>2, <1>4, StageMoves
<1>6. QED
  BY <1>1, <1>2, <1>5 DEF Drop, Progress, s

LEMMA ExpireMoves ==
  ASSUME RelayInv, NEW f \in Flows, Expire(f)
  PROVE  Progress(f)
<1> DEFINE r == flow[f]
           s == [r EXCEPT !.expired = TRUE]
<1>1. r \in FlowType /\ Consistent(r)
  BY FlowFacts
<1>2. /\ s \in FlowType /\ s.net = r.net
      /\ s.step = r.step /\ s.answer = r.answer /\ s.server = r.server
  BY <1>1 DEF FlowType
<1> HIDE DEF s
<1>3. Consistent(s) /\ OutcomeOf(s) = OutcomeOf(r)
  BY <1>1, <1>2 DEF Consistent, OutcomeOf, ToldOf, FateOf
<1>4. ToldOf(r) = "confirmed" => FateOf(r) = "executed"
  BY <1>1 DEF Consistent, ToldOf, FateOf
<1>5. ToldOf(r) = "refused" => FateOf(r) = "void"
  BY <1>1 DEF Consistent, ToldOf
<1>6. Moves(r, s)
  BY <1>2, <1>3, <1>4, <1>5 DEF Moves, Promise!May, OutcomeOf
<1>7. QED
  BY <1>2, <1>6 DEF Expire, Progress, s

LEMMA PollMoves ==
  ASSUME RelayInv, NEW f \in Flows, Poll(f) \/ PollFails(f)
  PROVE  Progress(f)
<1>1. flow[f].server # "over"
  BY DEF Poll, PollFails
<1>2. CASE Poll(f)
  <2>1. PICK code \in PollAnswers(flow[f]) : Reply(f, code)
    BY <1>2 DEF Poll
  <2>2. /\ code \in {"SUCCESS", "INTERNAL", "TX_FAILED", "TX_TIMEOUT"}
        /\ code = "SUCCESS" => flow[f].net = "applied"
        /\ code = "TX_FAILED" => flow[f].net = "failed"
    BY DEF PollAnswers
  <2>3. QED
    BY <1>1, <2>1, <2>2, ReplyMoves DEF Refusals, Doubts
<1>3. CASE PollFails(f)
  BY <1>1, <1>3, ReplyMoves DEF PollFails, Refusals, Doubts
<1>4. QED
  BY <1>2, <1>3

LEMMA DeadlineMoves ==
  ASSUME RelayInv, NEW f \in Flows, Deadline(f)
  PROVE  Progress(f)
<1> DEFINE s == [flow[f] EXCEPT !.server = "late"]
<1>1. flow[f] \in FlowType
  BY FlowFacts
<1>2. /\ s \in FlowType /\ s.server = "late" /\ s.net = flow[f].net
      /\ s.step = flow[f].step /\ s.answer = flow[f].answer
  BY <1>1 DEF FlowType
<1> HIDE DEF s
<1>3. Moves(flow[f], s)
  BY <1>2, SentMoves DEF Deadline
<1>4. QED
  BY <1>2, <1>3 DEF Deadline, Progress, s

LEMMA LoseAnswerMoves ==
  ASSUME RelayInv, NEW f \in Flows, LoseAnswer(f)
  PROVE  Progress(f)
<1> DEFINE r == flow[f]
           s == [r EXCEPT !.step = "error", !.answer = "NO_ANSWER"]
<1>1. r \in FlowType /\ Consistent(r) /\ r.step \in {"building", "submitting"}
  BY FlowFacts DEF LoseAnswer
<1>2. /\ s \in FlowType /\ s.net = r.net /\ s.server = r.server
      /\ s.step = "error" /\ s.answer = "NO_ANSWER"
  BY <1>1 DEF FlowType, Doubts
<1> HIDE DEF s
<1>3. /\ Consistent(s) /\ ToldOf(s) = "doubt" /\ ToldOf(r) = "nothing"
      /\ FateOf(s) = FateOf(r)
  BY <1>1, <1>2 DEF Consistent, ToldOf, FateOf, Refusals
<1>4. Moves(r, s)
  BY <1>1, <1>2, <1>3, StageMoves
<1>5. QED
  BY <1>1, <1>2, <1>4 DEF LoseAnswer, Progress, s

\* What the server, the client and the network do to a flow, but for the step in
\* which its transaction takes effect.
LEMMA StepMoves ==
  ASSUME RelayInv, NEW f \in Flows, RelayStep(f),
         \A accepted \in BOOLEAN : ~Apply(f, accepted)
  PROVE  Progress(f)
BY GetAccountMoves, SimulateMoves, SignMoves, SendMoves, DropMoves, ExpireMoves,
   PollMoves, DeadlineMoves, LoseAnswerMoves DEF RelayStep, Serve

-----------------------------------------------------------------------------
(* A transaction is applied: what is executed and what is told about it    *)
(* change together, so that it takes effect once.                          *)

LEMMA ApplyMoves ==
  ASSUME RelayInv, NEW f \in Flows, NEW accepted \in BOOLEAN, Apply(f, accepted)
  PROVE  /\ RelayInv' /\ Flows' = Flows
         /\ \A g \in Flows : Moves(flow[g], flow'[g]) \/ flow'[g] = flow[g]
<1> DEFINE r == flow[f]
           to == IF accepted THEN "applied" ELSE "failed"
           s == [r EXCEPT !.net = to]
<1>1. r \in FlowType /\ Consistent(r) /\ r.net = "pooled"
  BY FlowFacts DEF Apply
<1>2. /\ s \in FlowType /\ s.net = to
      /\ s.step = r.step /\ s.answer = r.answer /\ s.server = r.server
  BY <1>1 DEF FlowType
<1>3. flow' = [flow EXCEPT ![f] = s] /\ script' = script
  BY DEF Apply
<1>4. r.step # "done" /\ ~(r.step = "error" /\ r.answer \in Refusals)
      /\ r.server \notin {"build", "simulate", "idle", "send"}
  BY <1>1 DEF Consistent, FateOf
<1> HIDE DEF s
<1>5. /\ Consistent(s) /\ ToldOf(s) = ToldOf(r) /\ ToldOf(r) \in {"nothing", "doubt"}
      /\ FateOf(r) = "open" /\ FateOf(s) \in {"executed", "void"}
  BY <1>1, <1>2, <1>4 DEF Consistent, ToldOf, FateOf
<1>6. Moves(r, s)
  BY <1>1, <1>2, <1>5, StageMoves
<1>7. flow \in Seq(FlowType) /\ executed \in Seq(Nat) /\ f \in Nat
  BY DEF RelayInv, Flows
<1>8. flow' \in Seq(FlowType) /\ Flows' = Flows
  BY <1>2, <1>3, <1>7 DEF Flows
<1>9. flow'[f] = s /\ \A g \in Flows \ {f} : flow'[g] = flow[g]
  BY <1>3, <1>7 DEF Flows
<1>10. \A g \in Flows' : Consistent(flow'[g])
  BY <1>5, <1>8, <1>9 DEF RelayInv
<1>11. executed' = IF accepted THEN Append(executed, f) ELSE executed
  BY DEF Apply
<1>12. executed' \in Seq(Nat)
  BY <1>7, <1>11
<1>13. \A g \in Nat : TookEffect(g)' <=> TookEffect(g) \/ (accepted /\ g = f)
  <2>1. CASE accepted
    <3>1. /\ DOMAIN executed' = 1..(Len(executed) + 1)
          /\ executed'[Len(executed) + 1] = f
          /\ DOMAIN executed = 1..Len(executed)
          /\ \A k \in 1..Len(executed) : executed'[k] = executed[k]
      BY <1>7, <1>11, <2>1
    <3>2. Len(executed) \in Nat
      BY <1>7
    <3>3. QED
      BY <2>1, <3>1, <3>2 DEF TookEffect
  <2>2. CASE ~accepted
    BY <1>11, <2>2 DEF TookEffect
  <2>3. QED
    BY <2>1, <2>2
<1>14. \A g \in Nat : TookEffect(g)' <=> g \in Flows' /\ flow'[g].net = "applied"
  <2>1. \A g \in Nat : TookEffect(g) <=> g \in Flows /\ flow[g].net = "applied"
    BY DEF RelayInv
  <2>2. s.net = "applied" <=> accepted
    BY <1>2
  <2>3. TookEffect(f)' <=> f \in Flows' /\ flow'[f].net = "applied"
    BY <1>1, <1>7, <1>8, <1>9, <1>13, <2>1, <2>2
  <2>4. \A g \in Nat \ {f} : TookEffect(g)' <=> g \in Flows' /\ flow'[g].net = "applied"
    BY <1>8, <1>9, <1>13, <2>1
  <2>5. QED
    BY <1>7, <2>3, <2>4
<1>15. sequence' \in [Account -> Nat]
  <2>1. r.nonce \in Nat
    BY <1>1 DEF FlowType
  <2>2. sequence' = [sequence EXCEPT ![r.who] = r.nonce]
    BY DEF Apply
  <2>3. QED
    BY <2>1, <2>2 DEF RelayInv
<1>16. RelayInv'
  BY <1>3, <1>8, <1>10, <1>12, <1>14, <1>15 DEF RelayInv
<1>17. QED
  BY <1>6, <1>8, <1>9, <1>16

-----------------------------------------------------------------------------
(* A flow starts.                                                          *)

Started(who, client, asked) ==
  [who |-> who, client |-> client, asked |-> asked, step |-> "building",
   server |-> "build", nonce |-> 0, net |-> "none", expired |-> FALSE,
   answer |-> "none"]

LEMMA StartTxMoves ==
  ASSUME RelayInv, NEW who \in Account, NEW client \in Client, NEW asked \in Request,
         StartTx(who, client, asked)
  PROVE  /\ RelayInv' /\ Flows' = 1..(Len(flow) + 1)
         /\ \A g \in Flows : flow'[g] = flow[g]
         /\ OutcomeOf(flow'[Len(flow) + 1]) = Promise!Begun
<1> DEFINE s == Started(who, client, asked)
           n == Len(flow) + 1
<1>1. s \in FlowType /\ s.net = "none" /\ s.step = "building" /\ s.server = "build"
  BY DEF Started, FlowType
<1>2. flow' = Append(flow, s) /\ UNCHANGED <<script, sequence, executed, spent>>
  BY DEF StartTx, Started
<1> HIDE DEF s
<1>3. flow \in Seq(FlowType) /\ Len(flow) \in Nat /\ Flows = 1..Len(flow)
  BY DEF RelayInv, Flows
<1>4. /\ flow' \in Seq(FlowType) /\ Flows' = 1..n /\ n \in Nat
      /\ flow'[n] = s /\ \A g \in Flows : flow'[g] = flow[g]
  BY <1>1, <1>2, <1>3 DEF Flows
<1>5. Consistent(s) /\ OutcomeOf(s) = Promise!Begun
  BY <1>1 DEF Consistent, OutcomeOf, ToldOf, FateOf, Promise!Begun
<1>6. \A g \in Flows' : g \in Flows \/ g = n
  BY <1>3, <1>4
<1>7. \A g \in Flows' : Consistent(flow'[g])
  BY <1>4, <1>5, <1>6 DEF RelayInv
<1>8. \A g \in Nat : TookEffect(g)' <=> TookEffect(g)
  BY <1>2 DEF TookEffect
<1>9. \A g \in Nat : TookEffect(g)' <=> g \in Flows' /\ flow'[g].net = "applied"
  <2>1. \A g \in Nat : TookEffect(g) <=> g \in Flows /\ flow[g].net = "applied"
    BY DEF RelayInv
  <2>2. n \notin Flows /\ Flows \subseteq Flows'
    BY <1>3, <1>4
  <2>3. QED
    BY <1>1, <1>4, <1>6, <1>8, <2>1, <2>2
<1>10. RelayInv'
  BY <1>2, <1>4, <1>7, <1>9 DEF RelayInv
<1>11. QED
  BY <1>4, <1>5, <1>10

-----------------------------------------------------------------------------
(* The refinement.                                                         *)

\* What is promised is read off the records of the flows.
LEMMA PromisedOutcomes == RelayInv => promised = [g \in Flows |-> OutcomeOf(flow[g])]
<1> SUFFICES ASSUME RelayInv PROVE promised = [g \in Flows |-> OutcomeOf(flow[g])]
  OBVIOUS
<1>1. ASSUME NEW f \in Flows PROVE told(f) = ToldOf(flow[f]) /\ fate(f) = FateOf(flow[f])
  <2>1. f \in Nat /\ (TookEffect(f) <=> flow[f].net = "applied")
    BY DEF RelayInv, Flows
  <2>2. QED
    BY <2>1 DEF told, ToldOf, fate, FateOf
<1>2. QED
  BY <1>1 DEF promised, OutcomeOf

LEMMA PromisedNext == (RelayInv => promised = [g \in Flows |-> OutcomeOf(flow[g])])'
BY PromisedOutcomes, PTL

LEMMA OutcomeType ==
  ASSUME NEW r PROVE OutcomeOf(r) \in Promise!Outcome
<1>1. ToldOf(r) \in {"nothing", "confirmed", "refused", "doubt"}
  BY DEF ToldOf
<1>2. FateOf(r) \in {"open", "executed", "void"}
  BY DEF FateOf
<1>3. QED
  BY <1>1, <1>2 DEF OutcomeOf, Promise!Outcome

\* One flow moved, the others did not: the promise proceeds with it.
LEMMA MovedRefines ==
  ASSUME RelayInv, RelayInv', Flows' = Flows, NEW f \in Flows,
         \A g \in Flows \ {f} : flow'[g] = flow[g],
         Moves(flow[f], flow'[f]) \/ flow'[f] = flow[f]
  PROVE  [Promise!PromiseNext]_promised
<1>1. promised = [g \in Flows |-> OutcomeOf(flow[g])]
  BY PromisedOutcomes
<1>2. promised' = [g \in Flows |-> OutcomeOf(flow'[g])]
  <2>1. promised' = [g \in Flows' |-> OutcomeOf(flow'[g])]
    BY PromisedNext
  <2>2. QED
    BY <2>1
<1>3. promised' = [promised EXCEPT ![f] = OutcomeOf(flow'[f])]
  BY <1>1, <1>2
<1>4. CASE flow'[f] = flow[f]
  BY <1>1, <1>2, <1>4
<1>5. CASE Moves(flow[f], flow'[f])
  <2>1. Promise!May(promised[f], OutcomeOf(flow'[f])) /\ OutcomeOf(flow'[f]) \in Promise!Outcome
    BY <1>1, <1>5, OutcomeType DEF Moves
  <2>2. f \in Promise!Runs
    BY <1>1 DEF Promise!Runs
  <2>3. QED
    BY <1>3, <2>1, <2>2 DEF Promise!PromiseNext, Promise!Proceed
<1>6. QED
  BY <1>4, <1>5

LEMMA StartedRefines ==
  ASSUME RelayInv, RelayInv', Flows' = 1..(Len(flow) + 1),
         \A g \in Flows : flow'[g] = flow[g],
         OutcomeOf(flow'[Len(flow) + 1]) = Promise!Begun
  PROVE  Promise!PromiseNext
<1> DEFINE n == Len(flow) + 1
<1>1. Len(flow) \in Nat /\ Flows = 1..Len(flow)
  BY DEF RelayInv, Flows
<1>2. promised = [g \in 1..Len(flow) |-> OutcomeOf(flow[g])]
  BY <1>1, PromisedOutcomes
<1>3. promised' = [g \in 1..n |-> OutcomeOf(flow'[g])]
  <2>1. promised' = [g \in Flows' |-> OutcomeOf(flow'[g])]
    BY PromisedNext
  <2>2. QED
    BY <2>1
<1>4. promised \in Seq(Promise!Outcome) /\ Len(promised) = Len(flow)
  <2>1. \A g \in 1..Len(flow) : OutcomeOf(flow[g]) \in Promise!Outcome
    BY OutcomeType
  <2>2. QED
    BY <1>1, <1>2, <2>1
<1>5. Promise!Begun \in Promise!Outcome
  BY DEF Promise!Begun, Promise!Outcome
<1>6. promised' = Append(promised, Promise!Begun)
  <2> DEFINE a == Append(promised, Promise!Begun)
  <2>1. /\ a = [g \in 1..n |-> a[g]] /\ a[n] = Promise!Begun
        /\ \A g \in 1..Len(flow) : a[g] = promised[g]
    <3>1. a \in Seq(Promise!Outcome) /\ Len(a) = n
      BY <1>4, <1>5, AppendProperties
    <3>2. a = [g \in 1..n |-> a[g]]
      <4> HIDE DEF a, n
      <4> QED
        BY <3>1
    <3>3. a[n] = Promise!Begun /\ \A g \in 1..Len(flow) : a[g] = promised[g]
      BY <1>1, <1>4, <1>5, AppendProperties
    <3>4. QED
      BY <3>2, <3>3
  <2>2. \A g \in 1..n : a[g] = OutcomeOf(flow'[g])
    <3>1. \A g \in 1..n : g \in 1..Len(flow) \/ g = n
      BY <1>1
    <3> HIDE DEF a
    <3>2. QED
      BY <1>1, <1>2, <2>1, <3>1
  <2> HIDE DEF a
  <2>3. promised' = a
    BY <1>3, <2>1, <2>2
  <2>4. QED
    BY <2>3 DEF a
<1>7. QED
  BY <1>6 DEF Promise!PromiseNext, Promise!Begin

LEMMA RelayInitPromise == RelayInit => RelayInv /\ Promise!PromiseInit
<1> SUFFICES ASSUME RelayInit PROVE RelayInv /\ Promise!PromiseInit
  OBVIOUS
<1>1. flow = <<>> /\ executed = <<>> /\ Flows = {}
  BY DEF RelayInit, Flows
<1>2. \A f : ~TookEffect(f)
  BY <1>1 DEF TookEffect
<1>3. RelayInv
  BY <1>1, <1>2 DEF RelayInv, RelayInit
<1>4. promised = <<>>
  BY <1>1 DEF promised
<1>5. QED
  BY <1>3, <1>4 DEF Promise!PromiseInit

LEMMA RelayNextPromise ==
  RelayInv /\ [RelayNext]_relayVars => RelayInv' /\ [Promise!PromiseNext]_promised
<1> SUFFICES ASSUME RelayInv, [RelayNext]_relayVars
             PROVE  RelayInv' /\ [Promise!PromiseNext]_promised
  OBVIOUS
<1>1. CASE Len(flow) < Len(script) /\ StartTx(script[Len(flow) + 1][1], script[Len(flow) + 1][2], script[Len(flow) + 1][3])
  <2> DEFINE n == Len(flow) + 1
  <2>1. script \in Seq(Account \X Client \X Request) /\ n \in 1..Len(script)
    BY <1>1, RelayAssumption DEF RelayInv
  <2>2. script[n] \in Account \X Client \X Request
    BY <2>1
  <2>3. script[n][1] \in Account /\ script[n][2] \in Client /\ script[n][3] \in Request
    BY <2>2
  <2>4. QED
    BY <1>1, <2>3, StartTxMoves, StartedRefines
<1>2. ASSUME NEW f \in Flows, RelayStep(f)
      PROVE  RelayInv' /\ [Promise!PromiseNext]_promised
  <2>1. CASE \E accepted \in BOOLEAN : Apply(f, accepted)
    <3>1. PICK accepted \in BOOLEAN : Apply(f, accepted)
      BY <2>1
    <3>2. /\ RelayInv' /\ Flows' = Flows
          /\ \A g \in Flows : Moves(flow[g], flow'[g]) \/ flow'[g] = flow[g]
      BY <3>1, ApplyMoves
    <3>3. \A g \in Flows \ {f} : flow'[g] = flow[g]
      BY <3>1 DEF Apply, RelayInv, Flows
    <3>4. QED
      BY <3>2, <3>3, MovedRefines
  <2>2. CASE \A accepted \in BOOLEAN : ~Apply(f, accepted)
    <3>1. PICK r : Becomes(f, r) /\ Moves(flow[f], r) /\ (r.net = "applied" <=> flow[f].net = "applied")
      BY <1>2, <2>2, StepMoves DEF Progress
    <3>2. /\ RelayInv' /\ Flows' = Flows
          /\ \A g \in Flows : Moves(flow[g], flow'[g]) \/ flow'[g] = flow[g]
      BY <3>1, OneMoves
    <3>3. \A g \in Flows \ {f} : flow'[g] = flow[g]
      BY <3>1 DEF Becomes, RelayInv, Flows
    <3>4. QED
      BY <3>2, <3>3, MovedRefines
  <2>3. QED
    BY <2>1, <2>2
<1>3. CASE UNCHANGED relayVars
  <2>1. UNCHANGED <<script, flow, sequence, executed>>
    BY <1>3 DEF relayVars
  <2>2. RelayInv' /\ UNCHANGED promised
    BY <2>1 DEF RelayInv, Flows, TookEffect, promised, told, fate
  <2>3. QED
    BY <2>2
<1>4. QED
  BY <1>1, <1>2, <1>3 DEF RelayNext

\* The relay keeps its promise (KeepsItsPromise of the run `relay`): no sequence
\* of lost answers, timeouts, collisions and retries makes it confirm what did
\* not take effect, or refuse what does later (tx.ts 35-49, soroban.ts 288-329).
THEOREM RelayKeepsItsPromise == RelaySpec => KeepsItsPromise
<1>1. RelayInit => RelayInv /\ Promise!PromiseInit
  BY RelayInitPromise
<1>2. RelayInv /\ [RelayNext]_relayVars => RelayInv' /\ [Promise!PromiseNext]_promised
  BY RelayNextPromise
<1>3. QED
  BY <1>1, <1>2, PTL DEF RelaySpec, KeepsItsPromise, Promise!PromiseSpec

\* "Transaction confirmed" is told only of what took effect, for any number of
\* flows (tx.ts 35-49).
THEOREM ConfirmedTookEffect ==
  RelaySpec => [](\A f \in Flows : flow[f].step = "done" => TookEffect(f))
<1>1. RelayInit => RelayInv
  BY RelayInitPromise
<1>2. RelayInv /\ [RelayNext]_relayVars => RelayInv'
  BY RelayNextPromise
<1>3. RelayInv => \A f \in Flows : flow[f].step = "done" => TookEffect(f)
  BY DEF RelayInv, Consistent, Flows
<1>4. QED
  BY <1>1, <1>2, <1>3, PTL DEF RelaySpec

-----------------------------------------------------------------------------
(* The words of the request and the arguments of the call.                 *)

\* Two words say what the amount was.
LEMMA WordsSayTheAmount ==
  ASSUME NEW n \in Int, encodeI128(n) # {}
  PROVE  \A p \in encodeI128(n) : decodeI128(p) = n
<1>1. Word \in Nat \ {0}
  BY WordAssumption
<1>2. n = (n \div Word) * Word + (n % Word)
  BY <1>1
<1>3. encodeI128(n) = {[lo |-> n % Word, hi |-> n \div Word]}
  BY DEF encodeI128
<1>4. QED
  BY <1>2, <1>3 DEF decodeI128

\* What the contract reads of an argument.
Read(client, asked, name) ==
  LET v == CHOOSE v \in Arguments(client, asked, name) : TRUE
  IN  decodeScVal(name, CHOOSE p \in encodeArg(name, v) : TRUE)

LEMMA ArgumentSaysTheField ==
  ASSUME NEW client \in {"panel", "sdk"}, NEW asked, Sensible(asked),
         NEW name \in DOMAIN asked.extra,
         Arguments(client, asked, name) # {},
         \A v \in Arguments(client, asked, name) : encodeArg(name, v) # {}
  PROVE  Read(client, asked, name) = Meaning(name, asked.extra[name])
<1> DEFINE value == asked.extra[name]
           json == JsonOf(client, name, value)
<1>1. Arguments(client, asked, name) = Argument(name, json)
  BY DEF Arguments, Field
<1>2. /\ json.value = value /\ value # Absent
      /\ json.kind # "absent"
      /\ name \in NumberFields => value \in 0..Largest(name)
      /\ name \in FlagFields => json.kind = "boolean" /\ value \in {0, 1}
      /\ name = "amount" => value \in Int
  BY DEF JsonOf, Sensible, NumberFields, FlagFields
<1> HIDE DEF value, json
<1>3. \/ name = "decision" /\ value \in {Approve, Reject}
         /\ Argument(name, json) = {Meaning(name, value)}
      \/ name # "decision" /\ Argument(name, json) = {value}
  <2>1. CASE name \in AddressFields
    <3>1. Argument(name, json) = {value} \cap Address
      BY <1>2, <2>1 DEF Argument, AddressFields, NumberFields, FlagFields
    <3>2. name # "decision"
      BY <2>1 DEF AddressFields
    <3>3. QED
      BY <1>1, <3>1, <3>2
  <2>2. CASE name \in NumberFields
    <3>1. Argument(name, json) = {intQuery(name, json)}
      <4>1. name \notin AddressFields /\ name \notin FlagFields /\ name # "decision"
        BY <2>2 DEF AddressFields, NumberFields, FlagFields
      <4>2. QED
        BY <2>2, <4>1 DEF Argument
    <3>2. Largest(name) \in Nat
      BY RelayAssumption DEF Largest
    <3>3. intQuery(name, json) = value
      BY <1>2, <2>2, <3>2 DEF intQuery
    <3>4. name # "decision"
      BY <2>2 DEF NumberFields
    <3>5. QED
      BY <3>1, <3>3, <3>4
  <2>3. CASE name \in FlagFields
    BY <1>1, <1>2, <2>3 DEF Argument, AddressFields, NumberFields, FlagFields, Truthy
  <2>4. CASE name = "decision"
    <3>1. Argument(name, json) = reviewDecisionArg(json)
      BY <2>4 DEF Argument, AddressFields, NumberFields, FlagFields
    <3>2. value \in {Approve, Reject}
      BY <1>1, <1>2, <3>1 DEF reviewDecisionArg
    <3>3. QED
      BY <1>2, <2>4, <3>1, <3>2 DEF reviewDecisionArg, Meaning
  <2>5. CASE name \notin AddressFields \cup NumberFields \cup FlagFields \cup {"decision"}
    BY <1>2, <2>5 DEF Argument
  <2>6. QED
    BY <2>1, <2>2, <2>3, <2>4, <2>5
<1>4. Argument(name, json) = {Meaning(name, value)}
  BY <1>3 DEF Meaning
<1>5. (CHOOSE v \in Arguments(client, asked, name) : TRUE) = Meaning(name, value)
  BY <1>1, <1>4
<1>6. CASE name = "amount"
  <2>1. Meaning(name, value) = value /\ value \in Int
    BY <1>2, <1>6 DEF Meaning
  <2>2. encodeArg(name, value) = encodeI128(value) /\ encodeI128(value) # {}
    BY <1>1, <1>4, <1>6, <2>1 DEF encodeArg
  <2>3. (CHOOSE p \in encodeI128(value) : TRUE) \in encodeI128(value)
    BY <2>2
  <2>4. Read(client, asked, name) = decodeI128(CHOOSE p \in encodeI128(value) : TRUE)
    BY <1>5, <1>6, <2>1, <2>2 DEF Read, decodeScVal
  <2>5. QED
    BY <2>1, <2>2, <2>3, <2>4, WordsSayTheAmount DEF value
<1>7. CASE name # "amount"
  BY <1>5, <1>7 DEF Read, encodeArg, decodeScVal, value
<1>8. QED
  BY <1>6, <1>7

\* Every action's fields are the parameters of its entry point, each once, in
\* the order in which the contract takes them.
LEMMA FieldsAreParameters ==
  ASSUME NEW action \in DOMAIN actionToInvocation
  PROVE  LET fields == actionToInvocation[action][2]
         IN  /\ Parameters[actionToInvocation[action][1]] = fields
             /\ \E n \in Nat : DOMAIN fields = 1..n
             /\ \A j, k \in DOMAIN fields : fields[j] = fields[k] => j = k
<1>1. CASE action \in DOMAIN BountyActions
  <2>1. actionToInvocation[action] = BountyActions[action]
    BY <1>1 DEF actionToInvocation
  <2>2. CASE action = "create"
    BY <2>1, <2>2 DEF Parameters, BountyActions
  <2>3. CASE action = "createBounty"
    BY <2>1, <2>3 DEF Parameters, BountyActions
  <2>4. CASE action = "reclaim"
    BY <2>1, <2>4 DEF Parameters, BountyActions
  <2>5. CASE action = "claim"
    BY <2>1, <2>5 DEF Parameters, BountyActions
  <2>6. QED
    BY <1>1, <2>2, <2>3, <2>4, <2>5 DEF BountyActions
<1>2. CASE action \in DOMAIN ProposeActions
  <2>1. actionToInvocation[action] = ProposeActions[action]
    BY <1>2 DEF actionToInvocation, BountyActions, ProposeActions
  <2>2. CASE action = "proposeRelease"
    BY <2>1, <2>2 DEF Parameters, ProposeActions
  <2>3. CASE action = "proposeReclaim"
    BY <2>1, <2>3 DEF Parameters, ProposeActions
  <2>4. CASE action = "proposeSetSigners"
    BY <2>1, <2>4 DEF Parameters, ProposeActions
  <2>5. CASE action = "proposeSetReviewers"
    BY <2>1, <2>5 DEF Parameters, ProposeActions
  <2>6. CASE action = "proposeResolveDispute"
    BY <2>1, <2>6 DEF Parameters, ProposeActions
  <2>7. QED
    BY <1>2, <2>2, <2>3, <2>4, <2>5, <2>6 DEF ProposeActions
<1>3. CASE action \in DOMAIN ParticipantActions
  <2>1. actionToInvocation[action] = ParticipantActions[action]
    BY <1>3 DEF actionToInvocation, BountyActions, ProposeActions, ParticipantActions
  <2>2. CASE action = "approve"
    BY <2>1, <2>2 DEF Parameters, ParticipantActions
  <2>3. CASE action = "revoke"
    BY <2>1, <2>3 DEF Parameters, ParticipantActions
  <2>4. CASE action = "cancel"
    BY <2>1, <2>4 DEF Parameters, ParticipantActions
  <2>5. CASE action = "submitReview"
    BY <2>1, <2>5 DEF Parameters, ParticipantActions
  <2>6. CASE action = "openDispute"
    BY <2>1, <2>6 DEF Parameters, ParticipantActions
  <2>7. CASE action = "voteDispute"
    BY <2>1, <2>7 DEF Parameters, ParticipantActions
  <2>8. QED
    BY <1>3, <2>2, <2>3, <2>4, <2>5, <2>6, <2>7 DEF ParticipantActions
<1>4. QED
  BY <1>1, <1>2, <1>3 DEF actionToInvocation

\* The call says every field of the request.
LEMMA CallSaysWhatWasAsked ==
  ASSUME NEW f, flow[f].client \in {"panel", "sdk"}, Sensible(flow[f].asked),
         WellFormed(flow[f].client, flow[f].asked), Encodable(flow[f].client, flow[f].asked)
  PROVE  SaysWhatWasAsked(f)
<1> DEFINE client == flow[f].client
           asked == flow[f].asked
           fields == Fields(asked)
           call == CallOf(f)
<1>1. /\ call.entry = actionToInvocation[asked.action][1]
      /\ DOMAIN call.args = DOMAIN fields
      /\ \A k \in DOMAIN fields : call.args[k] = Read(client, asked, fields[k])
  BY DEF CallOf, Call, Read
<1>2. /\ Parameters[call.entry] = fields
      /\ \A j, k \in DOMAIN fields : fields[j] = fields[k] => j = k
  BY <1>1, FieldsAreParameters DEF Sensible, Fields
<1>3. ASSUME NEW name \in DOMAIN asked.extra
      PROVE  /\ name \in ToSet(Parameters[call.entry])
             /\ Heard(f, name) = Meaning(name, asked.extra[name])
  <2>1. PICK k \in DOMAIN fields : fields[k] = name
    BY DEF Sensible
  <2>2. (CHOOSE j \in DOMAIN call.args : Parameters[call.entry][j] = name) = k
    BY <1>1, <1>2, <2>1
  <2>3. Heard(f, name) = Read(client, asked, name)
    BY <1>1, <2>1, <2>2 DEF Heard
  <2>4. /\ Arguments(client, asked, name) # {}
        /\ \A v \in Arguments(client, asked, name) : encodeArg(name, v) # {}
    BY <2>1 DEF WellFormed, Encodable
  <2>5. Read(client, asked, name) = Meaning(name, asked.extra[name])
    BY <2>4, ArgumentSaysTheField
  <2>6. name \in ToSet(Parameters[call.entry])
    BY <1>2, <2>1 DEF ToSet
  <2>7. QED
    BY <2>3, <2>5, <2>6
<1>4. QED
  BY <1>3 DEF SaysWhatWasAsked

-----------------------------------------------------------------------------
(* Only what could be encoded goes beyond the server's first step.         *)

Beyond(r) == r.net # "none" \/ r.server \in {"simulate", "idle", "send", "poll", "late"}

Understood(r) ==
  /\ r.asked.action \in DOMAIN actionToInvocation
  /\ r.client \in {"panel", "sdk"} => Sensible(r.asked)
  /\ Beyond(r) => WellFormed(r.client, r.asked) /\ Encodable(r.client, r.asked)

RequestInv == RelayInv /\ \A f \in Flows : Understood(flow[f])

\* A step that goes no further with a request.
GoesNoFurther(r, s) ==
  /\ s.client = r.client /\ s.asked = r.asked
  /\ Beyond(s) => Beyond(r)

\* What a client has a way to ask for, the server has an entry point for.
LEMMA OfferedIsKnown ==
  ASSUME NEW client \in Client, NEW action \in Offered[client]
  PROVE  action \in DOMAIN actionToInvocation
<1>1. DOMAIN actionToInvocation
        = DOMAIN BountyActions \cup DOMAIN ProposeActions \cup DOMAIN ParticipantActions
  BY DEF actionToInvocation
<1>2. action \in {"create", "createBounty", "reclaim", "claim", "proposeRelease",
        "proposeReclaim", "proposeSetSigners", "proposeSetReviewers", "proposeResolveDispute",
        "approve", "revoke", "cancel", "submitReview", "openDispute", "voteDispute"}
  BY DEF Offered, Client
<1>3. QED
  BY <1>1, <1>2 DEF BountyActions, ProposeActions, ParticipantActions

LEMMA BecomesUnderstood ==
  ASSUME RequestInv, NEW f \in Flows, NEW r, flow' = [flow EXCEPT ![f] = r],
         Understood(r) \/ GoesNoFurther(flow[f], r)
  PROVE  \A g \in Flows : Understood(flow'[g])
<1>1. flow \in Seq(FlowType)
  BY DEF RequestInv, RelayInv
<1>2. Understood(r)
  BY DEF RequestInv, Understood, GoesNoFurther
<1>3. flow'[f] = r /\ \A g \in Flows \ {f} : flow'[g] = flow[g]
  BY <1>1 DEF Flows
<1>4. QED
  BY <1>2, <1>3 DEF RequestInv

LEMMA AnsweredGoesNoFurther ==
  ASSUME NEW r \in FlowType, NEW code
  PROVE  GoesNoFurther(r, Answered(r, code))
BY DEF FlowType, Answered, GoesNoFurther, Beyond

LEMMA StepUnderstood ==
  ASSUME RequestInv, NEW f \in Flows, RelayStep(f)
  PROVE  \A g \in Flows : Understood(flow'[g])
<1> DEFINE r == flow[f]
<1>1. r \in FlowType /\ Consistent(r)
  BY FlowFacts DEF RequestInv
<1>2. ASSUME NEW code, Reply(f, code) PROVE \A g \in Flows : Understood(flow'[g])
  BY <1>1, <1>2, AnsweredGoesNoFurther, BecomesUnderstood DEF Reply, Becomes
<1>3. ASSUME NEW s, Becomes(f, s), GoesNoFurther(r, s)
      PROVE  \A g \in Flows : Understood(flow'[g])
  BY <1>3, BecomesUnderstood DEF Becomes
<1>4. CASE GetAccount(f)
  <2>1. CASE \E code : Reply(f, code)
    BY <1>2, <2>1
  <2>2. CASE /\ WellFormed(r.client, r.asked) /\ Encodable(r.client, r.asked)
             /\ Becomes(f, [r EXCEPT !.server = "simulate", !.nonce = sequence[r.who] + 1])
    <3> DEFINE s == [r EXCEPT !.server = "simulate", !.nonce = sequence[r.who] + 1]
    <3>1. s.client = r.client /\ s.asked = r.asked
      BY <1>1 DEF FlowType
    <3>2. Understood(s)
      BY <2>2, <3>1 DEF RequestInv, Understood
    <3>3. QED
      BY <2>2, <3>2, BecomesUnderstood DEF Becomes
  <2>3. QED
    BY <1>4, <2>1, <2>2 DEF GetAccount
<1>5. CASE Simulate(f)
  <2> DEFINE s == IF r.step = "error" THEN [r EXCEPT !.server = "over"]
                  ELSE [r EXCEPT !.step = "signing", !.server = "idle"]
  <2>1. Beyond(r)
    BY <1>5 DEF Simulate, Beyond
  <2>2. GoesNoFurther(r, s)
    BY <1>1, <2>1 DEF GoesNoFurther, FlowType
  <2>3. (\E code : Reply(f, code)) \/ Becomes(f, s)
    BY <1>5 DEF Simulate
  <2>4. QED
    BY <2>2, <2>3, <1>2, <1>3
<1>6. CASE Sign(f)
  <2> DEFINE s == [r EXCEPT !.step = "submitting", !.server = "send"]
  <2>1. Beyond(r)
    BY <1>1, <1>6 DEF Sign, Beyond, Consistent
  <2>2. GoesNoFurther(r, s)
    BY <1>1, <2>1 DEF GoesNoFurther, FlowType
  <2>3. (\E code : Reply(f, code)) \/ Becomes(f, s)
    BY <1>6 DEF Sign
  <2>4. QED
    BY <2>2, <2>3, <1>2, <1>3
<1>7. CASE Send(f)
  <2> DEFINE pooled == [r EXCEPT !.net = "pooled"]
             s == [r EXCEPT !.server = "poll", !.net = "pooled"]
             t == [r EXCEPT !.server = "poll"]
  <2>1. Beyond(r)
    BY <1>7 DEF Send, Beyond
  <2>2. GoesNoFurther(r, s) /\ GoesNoFurther(r, t)
    BY <1>1, <2>1 DEF GoesNoFurther, FlowType
  <2>3. pooled \in FlowType /\ GoesNoFurther(r, pooled)
    BY <1>1, <2>1 DEF GoesNoFurther, FlowType
  <2>4. GoesNoFurther(r, Answered(pooled, SendFailure))
    BY <2>3, AnsweredGoesNoFurther DEF GoesNoFurther
  <2>5. \/ \E code : Reply(f, code)
        \/ Becomes(f, s) \/ Becomes(f, t) \/ Becomes(f, Answered(pooled, SendFailure))
    BY <1>7 DEF Send
  <2>6. QED
    BY <2>2, <2>4, <2>5, <1>2, <1>3
<1>8. CASE Poll(f) \/ PollFails(f)
  BY <1>2, <1>8 DEF Poll, PollFails
<1>9. CASE Deadline(f)
  <2>1. GoesNoFurther(r, [r EXCEPT !.server = "late"])
    BY <1>1, <1>9 DEF Deadline, GoesNoFurther, Beyond, FlowType
  <2>2. QED
    BY <1>3, <1>9, <2>1 DEF Deadline
<1>10. CASE LoseAnswer(f)
  <2>1. GoesNoFurther(r, [r EXCEPT !.step = "error", !.answer = "NO_ANSWER"])
    BY <1>1 DEF GoesNoFurther, Beyond, FlowType
  <2>2. QED
    BY <1>3, <1>10, <2>1 DEF LoseAnswer
<1>11. CASE Drop(f)
  <2>1. GoesNoFurther(r, [r EXCEPT !.net = "dropped"])
    BY <1>1, <1>11 DEF Drop, GoesNoFurther, Beyond, FlowType
  <2>2. QED
    BY <1>3, <1>11, <2>1 DEF Drop
<1>12. CASE Expire(f)
  <2>1. GoesNoFurther(r, [r EXCEPT !.expired = TRUE])
    BY <1>1 DEF GoesNoFurther, Beyond, FlowType
  <2>2. QED
    BY <1>3, <1>12, <2>1 DEF Expire
<1>13. CASE \E accepted \in BOOLEAN : Apply(f, accepted)
  <2>1. PICK accepted \in BOOLEAN : Apply(f, accepted)
    BY <1>13
  <2> DEFINE s == [r EXCEPT !.net = IF accepted THEN "applied" ELSE "failed"]
  <2>2. GoesNoFurther(r, s)
    BY <1>1, <2>1 DEF Apply, GoesNoFurther, Beyond, FlowType
  <2>3. flow' = [flow EXCEPT ![f] = s]
    BY <2>1 DEF Apply
  <2>4. QED
    BY <2>2, <2>3, BecomesUnderstood
<1>14. QED
  BY <1>4, <1>5, <1>6, <1>7, <1>8, <1>9, <1>10, <1>11, <1>12, <1>13 DEF RelayStep, Serve

LEMMA StepFlows ==
  ASSUME RelayInv, NEW f \in Flows, RelayStep(f)
  PROVE  Flows' = Flows
<1>1. CASE \E accepted \in BOOLEAN : Apply(f, accepted)
  BY <1>1, ApplyMoves
<1>2. CASE \A accepted \in BOOLEAN : ~Apply(f, accepted)
  BY <1>2, StepMoves, OneMoves DEF Progress
<1>3. QED
  BY <1>1, <1>2

LEMMA RequestStep == RequestInv /\ [RelayNext]_relayVars => RequestInv'
<1> SUFFICES ASSUME RequestInv, [RelayNext]_relayVars
             PROVE  RequestInv'
  OBVIOUS
<1>1. RelayInv'
  BY RelayNextPromise DEF RequestInv
<1>2. CASE /\ Len(flow) < Len(script)
           /\ LET next == script[Len(flow) + 1] IN StartTx(next[1], next[2], next[3])
  <2> DEFINE n == Len(flow) + 1
             next == script[n]
  <2>1. script \in Scripts /\ script \in Seq(Account \X Client \X Request) /\ flow \in Seq(FlowType)
    BY RelayAssumption DEF RequestInv, RelayInv
  <2>2. n \in DOMAIN script
    BY <1>2, <2>1
  <2>3. /\ next \in Account \X Client \X Request
        /\ next[2] \in {"panel", "sdk"} => Sensible(next[3])
    BY <2>1, <2>2, ScriptAssumption
  <2>4. /\ Flows' = 1..n /\ \A g \in Flows : flow'[g] = flow[g]
    BY <1>2, <2>3, StartTxMoves DEF RequestInv
  <2>5. flow'[n] = Started(next[1], next[2], next[3])
    BY <1>2, <2>1, <2>3 DEF StartTx, Started
  <2>6. Understood(flow'[n])
    <3>1. next[2] \in Client /\ next[3].action \in Offered[next[2]]
      BY <1>2, <2>3 DEF StartTx
    <3>2. next[3].action \in DOMAIN actionToInvocation
      BY <3>1, OfferedIsKnown
    <3>3. QED
      BY <2>3, <2>5, <3>2 DEF Started, Understood, Beyond
  <2>7. \A g \in Flows' : g \in Flows \/ g = n
    BY <2>1, <2>4 DEF Flows
  <2>8. QED
    BY <1>1, <2>4, <2>6, <2>7 DEF RequestInv
<1>3. ASSUME NEW f \in Flows, RelayStep(f) PROVE RequestInv'
  <2>1. \A g \in Flows : Understood(flow'[g])
    BY <1>3, StepUnderstood
  <2>2. Flows' = Flows
    BY <1>3, StepFlows DEF RequestInv
  <2>3. QED
    BY <1>1, <2>1, <2>2 DEF RequestInv
<1>4. CASE UNCHANGED relayVars
  BY <1>1, <1>4 DEF RequestInv, relayVars, Flows
<1>5. QED
  BY <1>2, <1>3, <1>4 DEF RelayNext

LEMMA RequestInit == RelayInit => RequestInv
<1>1. RelayInit => Flows = {}
  BY DEF RelayInit, Flows
<1>2. QED
  BY <1>1, RelayInitPromise DEF RequestInv

\* What takes effect is what the panel or the SDK asked for, for any requests, words
\* and interleavings: every named field arrives at the parameter of its name with its
\* value, through positions and encodings (api.ts 675-874, soroban.ts 88-155).
THEOREM ExecutedMeansAsked == RelaySpec => []ExecutedAsAsked
<1>1. RelayInit => RequestInv
  BY RequestInit
<1>2. RequestInv => ExecutedAsAsked
  <2> SUFFICES ASSUME RequestInv, NEW f \in ToSet(executed), flow[f].client \in {"panel", "sdk"}
               PROVE  SaysWhatWasAsked(f)
    BY DEF ExecutedAsAsked
  <2>1. TookEffect(f) /\ f \in Nat
    BY DEF ToSet, TookEffect, RequestInv, RelayInv
  <2>2. f \in Flows /\ flow[f].net = "applied"
    BY <2>1 DEF RequestInv, RelayInv
  <2>3. QED
    BY <2>2, CallSaysWhatWasAsked DEF RequestInv, Understood, Beyond
<1>3. QED
  BY <1>1, <1>2, RequestStep, PTL DEF RelaySpec

\* Only flows take effect, and only what got past the server's first step.
LEMMA ExecutedFlows ==
  ASSUME RequestInv
  PROVE  /\ executed \in Seq(Flows)
         /\ \A f \in ToSet(executed) : f \in Flows /\ Understood(flow[f]) /\ Beyond(flow[f])
<1>1. executed \in Seq(Nat)
  BY DEF RequestInv, RelayInv
<1>2. ASSUME NEW k \in DOMAIN executed
      PROVE  executed[k] \in Flows /\ flow[executed[k]].net = "applied"
  <2>1. executed[k] \in Nat /\ TookEffect(executed[k])
    BY <1>1 DEF TookEffect
  <2>2. QED
    BY <2>1 DEF RequestInv, RelayInv
<1>3. executed \in Seq(Flows)
  <2>1. \A k \in 1..Len(executed) : executed[k] \in Flows
    BY <1>1, <1>2
  <2>2. QED
    BY <1>1, <2>1
<1>4. QED
  BY <1>2, <1>3 DEF ToSet, RequestInv, Beyond

\* A call has an argument for each parameter of its entry point, and no index, id or
\* count of it is negative, whoever asked.
LEMMA CallFits ==
  ASSUME NEW client, NEW asked, asked.action \in DOMAIN actionToInvocation
  PROVE  LET call == Call(client, asked)
         IN  /\ Len(call.args) = Len(Parameters[call.entry])
             /\ \A k \in DOMAIN call.args :
                  Parameters[call.entry][k] \in NumberFields => call.args[k] \in Nat
<1> DEFINE fields == Fields(asked)
           call == Call(client, asked)
<1>1. /\ call.entry = actionToInvocation[asked.action][1]
      /\ call.args = [k \in DOMAIN fields |-> Read(client, asked, fields[k])]
  BY DEF Call, Read
<1>2. Parameters[call.entry] = fields /\ \E n \in Nat : DOMAIN fields = 1..n
  BY <1>1, FieldsAreParameters DEF Fields
<1> HIDE DEF call, fields
<1>3. Len(call.args) = Len(fields) /\ DOMAIN call.args = DOMAIN fields
  BY <1>1, <1>2
<1>4. ASSUME NEW name \in NumberFields  PROVE Read(client, asked, name) \in Nat
  <2> DEFINE json == JsonOf(client, name, Field(asked, name))
  <2>1. Arguments(client, asked, name) = {intQuery(name, json)}
    <3>1. name \notin AddressFields /\ name \notin FlagFields /\ name # "decision"
      BY DEF AddressFields, NumberFields, FlagFields
    <3>2. Argument(name, json) = {intQuery(name, json)}
      <4> HIDE DEF json
      <4> QED
        BY <3>1 DEF Argument
    <3>3. QED
      BY <3>2 DEF Arguments
  <2>2. intQuery(name, json) \in Nat
    BY RelayAssumption DEF intQuery, Largest
  <2>3. name # "amount"
    BY DEF NumberFields
  <2> HIDE DEF json
  <2>4. Read(client, asked, name) = intQuery(name, json)
    BY <2>1, <2>3 DEF Read, encodeArg, decodeScVal
  <2>5. QED
    BY <2>2, <2>4
<1>5. QED
  BY <1>1, <1>2, <1>3, <1>4 DEF call

\* Every call that takes effect has the arguments of its entry point, for any client, a
\* direct request included: as many as there are parameters, and a natural number
\* wherever the contract takes an index, an id or a count (api.ts 71-75, 675-874).
THEOREM RelayTypes == RelaySpec => []RelayTypeOK
<1>1. RequestInv => RelayTypeOK
  <2> SUFFICES ASSUME RequestInv  PROVE RelayTypeOK
    OBVIOUS
  <2>1. ASSUME NEW f \in ToSet(executed)
        PROVE  LET call == CallOf(f) IN
                 /\ Len(call.args) = Len(Parameters[call.entry])
                 /\ \A k \in DOMAIN call.args :
                      Parameters[call.entry][k] \in NumberFields => call.args[k] \in Nat
    <3>1. flow[f].asked.action \in DOMAIN actionToInvocation
      BY <2>1, ExecutedFlows DEF Understood
    <3>2. QED
      BY <3>1, CallFits DEF CallOf
  <2>2. sequence \in [Account -> Nat] /\ flow \in Seq(FlowType) /\ executed \in Seq(Flows)
    BY ExecutedFlows DEF RequestInv, RelayInv
  <2>3. QED
    BY <2>1, <2>2 DEF RelayTypeOK
<1>2. QED
  BY <1>1, RequestInit, RequestStep, PTL DEF RelaySpec

-----------------------------------------------------------------------------
(* The dashboard.  Every answer to a request for milestones that is under  *)
(* way knows what had taken effect when it was read; onDone of a confirmed *)
(* run takes away the requests from before it.                             *)

PromiseKept ==
  /\ outcome \in Seq(Outcome)
  /\ \E S : run \in Seq(S)
  /\ DOMAIN run = Runs
  /\ \A f \in Runs : outcome[f].told = "confirmed" => outcome[f].fate = "executed"

\* A run is over only when its client was told something.
RunsWait == \A f \in Runs : run[f].phase \in {"loading", "loaded", "over"} => outcome[f].told # "nothing"

Confirmed == {f \in Runs : outcome[f].told = "confirmed" /\ run[f].phase = "over"}

\* What is shown, or on its way.
Knows(answer) == answer # None /\ answer.verified => Confirmed \subseteq answer.seen

DashInv ==
  /\ PromiseKept
  /\ RunsWait
  /\ \E S : asking \in Seq(S)
  /\ \A k \in DOMAIN asking : "answer" \in DOMAIN asking[k]
  /\ \A k \in DOMAIN asking : Knows(asking[k].answer)
  /\ Knows(view)

\* A sequence with another element at some place.
LEMMA PutAt ==
  ASSUME NEW S, NEW s \in Seq(S), NEW k \in DOMAIN s, NEW e
  PROVE  /\ \E T : [s EXCEPT ![k] = e] \in Seq(T)
         /\ DOMAIN [s EXCEPT ![k] = e] = DOMAIN s
         /\ [s EXCEPT ![k] = e][k] = e
         /\ \A i \in DOMAIN s \ {k} : [s EXCEPT ![k] = e][i] = s[i]
<1>1. PICK T : S \subseteq T /\ e \in T
  <2>1. S \subseteq S \cup {e} /\ e \in S \cup {e}
    OBVIOUS
  <2>2. QED
    BY <2>1
<1>2. s \in Seq(T)
  BY <1>1
<1>3. [s EXCEPT ![k] = e] \in Seq(T)
  BY <1>1, <1>2
<1>4. QED
  BY <1>3

\* The elements of a sequence without one of them.
LEMMA RemoveAtOthers ==
  ASSUME NEW S, NEW s \in Seq(S), NEW k \in DOMAIN s
  PROVE  /\ RemoveAt(s, k) \in Seq(S)
         /\ \A i \in DOMAIN RemoveAt(s, k) : \E j \in DOMAIN s : RemoveAt(s, k)[i] = s[j]
<1>1. k \in 1..Len(s) /\ Len(s) \in Nat /\ DOMAIN s = 1..Len(s)
  OBVIOUS
<1> DEFINE before == SubSeq(s, 1, k - 1)
           after == SubSeq(s, k + 1, Len(s))
<1>2. /\ before \in Seq(S) /\ Len(before) = k - 1
      /\ \A i \in 1..(k - 1) : before[i] = s[i]
  BY <1>1
<1>3. /\ after \in Seq(S) /\ Len(after) = Len(s) - k
      /\ \A i \in 1..(Len(s) - k) : after[i] = s[k + i]
  BY <1>1
<1>4. RemoveAt(s, k) = before \o after
  BY DEF RemoveAt
<1> HIDE DEF before, after
<1>5. RemoveAt(s, k) \in Seq(S)
  BY <1>2, <1>3, <1>4
<1>6. ASSUME NEW i \in DOMAIN RemoveAt(s, k)
      PROVE  \E j \in DOMAIN s : RemoveAt(s, k)[i] = s[j]
  <2>1. i \in 1..(Len(before) + Len(after))
    BY <1>2, <1>3, <1>4
  <2>2. (before \o after)[i] = IF i <= Len(before) THEN before[i] ELSE after[i - Len(before)]
    BY <2>1, <1>2, <1>3, ConcatProperties
  <2>3. CASE i <= k - 1
    <3>1. (before \o after)[i] = before[i] /\ i \in 1..(k - 1) /\ i \in 1..Len(s)
      BY <2>1, <2>2, <2>3, <1>1, <1>2
    <3>2. QED
      BY <3>1, <1>1, <1>2, <1>4
  <2>4. CASE i > k - 1
    <3>1. i \in Int /\ Len(before) = k - 1 /\ k \in Int /\ Len(s) \in Int /\ i <= Len(s) - 1 /\ 1 <= k
      BY <2>1, <1>1, <1>2, <1>3
    <3>2. (before \o after)[i] = after[i - (k - 1)]
      BY <2>2, <2>4, <3>1
    <3>3. i - (k - 1) \in 1..(Len(s) - k) /\ k + (i - (k - 1)) \in 1..Len(s)
      BY <2>4, <3>1
    <3>4. QED
      BY <3>2, <3>3, <1>1, <1>3, <1>4
  <2>5. QED
    BY <2>1, <2>3, <2>4, <1>1
<1>7. QED
  BY <1>5, <1>6

\* A step that leaves the runs alone leaves them confirmed as they are.
LEMMA SameRuns ==
  ASSUME PromiseKept, RunsWait, UNCHANGED <<outcome, run>>
  PROVE  PromiseKept' /\ RunsWait' /\ Confirmed' = Confirmed
BY DEF PromiseKept, RunsWait, Confirmed, Runs

\* Only Done adds to the runs that are over and confirmed.
LEMMA SameConfirmed ==
  ASSUME PromiseKept, RunsWait,
         \/ \E p \in Panels : Act(p)
         \/ \E f \in Runs : Relay(f) \/ Finish(f)
  PROVE  PromiseKept' /\ RunsWait' /\ Confirmed' = Confirmed
<1>1. outcome \in Seq(Outcome) /\ Runs = 1..Len(outcome) /\ Len(outcome) \in Nat
  BY DEF PromiseKept, Runs
<1>2. ASSUME NEW p \in Panels, Act(p)
      PROVE  PromiseKept' /\ RunsWait' /\ Confirmed' = Confirmed
  <2>1. /\ outcome' = Append(outcome, Begun)
        /\ run' = Append(run, [panel |-> p, phase |-> "running"])
    BY <1>2 DEF Act, Begin
  <2>2. Begun \in Outcome /\ Begun.told = "nothing"
    BY DEF Begun, Outcome
  <2> DEFINE n == Len(outcome) + 1
  <2>3. /\ outcome' \in Seq(Outcome) /\ Runs' = Runs \cup {n} /\ n \notin Runs
        /\ outcome'[n] = Begun /\ \A g \in Runs : outcome'[g] = outcome[g]
    BY <2>1, <2>2, <1>1 DEF Runs
  <2>4. /\ \E T : run' \in Seq(T)
        /\ DOMAIN run' = Runs'
        /\ run'[n].phase = "running" /\ \A g \in Runs : run'[g] = run[g]
    <3>1. PICK S : run \in Seq(S)
      BY DEF PromiseKept
    <3>2. PICK T : S \subseteq T /\ [panel |-> p, phase |-> "running"] \in T
      <4>1. /\ S \subseteq S \cup {[panel |-> p, phase |-> "running"]}
            /\ [panel |-> p, phase |-> "running"] \in S \cup {[panel |-> p, phase |-> "running"]}
        OBVIOUS
      <4>2. QED
        BY <4>1
    <3>3. run \in Seq(T) /\ Len(run) = Len(outcome)
      BY <1>1, <3>1, <3>2 DEF PromiseKept, Runs
    <3>4. run' \in Seq(T)
      BY <2>1, <3>2, <3>3
    <3>5. QED
      BY <2>1, <3>3, <3>4, <1>1 DEF Runs
  <2> HIDE DEF n
  <2>5. PromiseKept' /\ RunsWait'
    BY <2>2, <2>3, <2>4 DEF PromiseKept, RunsWait
  <2>6. Confirmed' = Confirmed
    BY <2>2, <2>3, <2>4 DEF Confirmed
  <2>7. QED
    BY <2>5, <2>6
<1>3. ASSUME NEW f \in Runs, Relay(f)
      PROVE  PromiseKept' /\ RunsWait' /\ Confirmed' = Confirmed
  <2>1. PICK is \in Outcome : May(outcome[f], is) /\ outcome' = [outcome EXCEPT ![f] = is]
    BY <1>3 DEF Relay, Proceed
  <2>2. run' = run
    BY <1>3 DEF Relay
  <2>3. outcome' \in Seq(Outcome) /\ Runs' = Runs
    BY <2>1, <1>1 DEF Runs
  <2>4. \A g \in Runs : outcome'[g] = IF g = f THEN is ELSE outcome[g]
    BY <2>1, <1>1 DEF Runs
  <2>5. PromiseKept'
    BY <2>1, <2>2, <2>3, <2>4 DEF PromiseKept, May
  <2>6. RunsWait'
    BY <2>1, <2>2, <2>3, <2>4 DEF RunsWait, May
  <2>7. Confirmed' = Confirmed
    BY <2>1, <2>2, <2>3, <2>4 DEF RunsWait, May, Confirmed
  <2>8. QED
    BY <2>5, <2>6, <2>7
<1>4. ASSUME NEW f \in Runs, Finish(f)
      PROVE  PromiseKept' /\ RunsWait' /\ Confirmed' = Confirmed
  <2>1. /\ outcome' = outcome /\ outcome[f].told # "nothing"
        /\ run[f].phase = "running" /\ run' = [run EXCEPT ![f].phase = PhaseAfter(f)]
    BY <1>4 DEF Finish
  <2>2. Runs' = Runs
    BY <2>1 DEF Runs
  <2>3. /\ \E T : run' \in Seq(T)
        /\ DOMAIN run' = Runs /\ \A g \in Runs \ {f} : run'[g] = run[g]
    BY <2>1, PutAt DEF PromiseKept
  <2>4. PromiseKept' /\ RunsWait'
    BY <2>1, <2>2, <2>3 DEF PromiseKept, RunsWait
  <2>5. f \notin Confirmed /\ f \notin Confirmed'
    <3>1. run'[f].phase = PhaseAfter(f)
      BY <2>1 DEF PromiseKept
    <3>2. outcome[f].told = "confirmed" => PhaseAfter(f) # "over"
      BY DEF PhaseAfter
    <3>3. QED
      BY <2>1, <3>1, <3>2 DEF Confirmed
  <2>6. QED
    BY <2>1, <2>2, <2>3, <2>4, <2>5 DEF Confirmed
<1>5. QED
  BY <1>2, <1>3, <1>4

LEMMA DashStep == DashInv /\ [DashNext]_dashVars => DashInv'
<1> SUFFICES ASSUME DashInv, [DashNext]_dashVars
             PROVE  DashInv'
  OBVIOUS
<1>1. PICK S : asking \in Seq(S)
  BY DEF DashInv
<1>2. ASSUME PromiseKept', RunsWait', asking' = <<>>, view' = None
      PROVE  DashInv'
  <2>1. asking' \in Seq({})
    BY <1>2
  <2>2. QED
    BY <1>2, <2>1 DEF DashInv, Knows
\* What was known stays known while no further run is confirmed.
<1>3. ASSUME PromiseKept', RunsWait', Confirmed' = Confirmed, NEW T, asking' \in Seq(T),
             \A k \in DOMAIN asking' : "answer" \in DOMAIN asking'[k],
             \A k \in DOMAIN asking' : \/ asking'[k].answer = None
                                       \/ asking'[k].answer \in {asking[j].answer : j \in DOMAIN asking}
                                       \/ asking'[k].answer.seen = Executed,
             view' \in {view, None} \cup {asking[j].answer : j \in DOMAIN asking}
      PROVE  DashInv'
  <2>1. Confirmed \subseteq Executed
    BY DEF DashInv, PromiseKept, Confirmed, Executed
  <2>2. (\A k \in DOMAIN asking : Knows(asking[k].answer))'
    <3>1. ASSUME NEW k \in DOMAIN asking', asking'[k].answer # None, asking'[k].answer.verified
          PROVE  Confirmed \subseteq asking'[k].answer.seen
      BY <1>3, <2>1, <3>1 DEF DashInv, Knows
    <3>2. QED
      BY <1>3, <3>1 DEF Knows
  <2>3. Knows(view)'
    BY <1>3 DEF DashInv, Knows
  <2>4. (\E U : asking \in Seq(U))'
    BY <1>3
  <2>5. QED
    BY <1>3, <2>2, <2>3, <2>4 DEF DashInv
<1>4. ASSUME loadAll, PromiseKept', RunsWait'
      PROVE  DashInv'
  BY <1>2, <1>4 DEF loadAll, Unmounted
<1>5. CASE Open
  BY <1>4, <1>5, SameRuns DEF Open, DashInv
<1>6. CASE Retry
  BY <1>4, <1>6, SameRuns DEF Retry, DashInv
<1>7. ASSUME NEW f \in Runs, Done(f) PROVE DashInv'
  <2>1. /\ run[f].phase \in {"loading", "loaded"} /\ outcome' = outcome
        /\ run' = [run EXCEPT ![f].phase = "over"] /\ loadAll
    BY <1>7 DEF Done, onDone
  <2>2. /\ \E T : run' \in Seq(T)
        /\ DOMAIN run' = Runs' /\ \A g \in Runs \ {f} : run'[g] = run[g]
    BY <2>1, PutAt DEF DashInv, PromiseKept, Runs
  <2>3. PromiseKept' /\ RunsWait'
    BY <2>1, <2>2 DEF DashInv, PromiseKept, RunsWait, Runs
  <2>4. QED
    BY <1>4, <2>1, <2>3
<1>8. ASSUME \/ \E p \in Panels : Act(p)
             \/ \E f \in Runs : Relay(f) \/ Finish(f)
      PROVE  DashInv'
  <2>1. asking' = asking /\ view' = view
    BY <1>8 DEF Act, Relay, Finish, panelVars
  <2>2. PromiseKept' /\ RunsWait' /\ Confirmed' = Confirmed
    BY <1>8, SameConfirmed DEF DashInv
  <2>3. QED
    BY <2>1, <2>2, <1>1, <1>3 DEF DashInv
<1>9. ASSUME UNCHANGED <<outcome, run>>, view' = view, NEW i, asking' \in {asking, Append(asking, Asking(i))}
      PROVE  DashInv'
  <2>1. PromiseKept' /\ RunsWait' /\ Confirmed' = Confirmed
    BY <1>9, SameRuns DEF DashInv
  <2>2. "answer" \in DOMAIN Asking(i) /\ Asking(i).answer = None
    BY DEF Asking
  <2>3. PICK T : S \subseteq T /\ Asking(i) \in T
    <3>1. S \subseteq S \cup {Asking(i)} /\ Asking(i) \in S \cup {Asking(i)}
      OBVIOUS
    <3>2. QED
      BY <3>1
  <2> HIDE DEF Asking
  <2>4. asking \in Seq(T)
    BY <1>1, <2>3
  <2>5. /\ asking' \in Seq(T)
        /\ \A k \in DOMAIN asking' : "answer" \in DOMAIN asking'[k]
        /\ \A k \in DOMAIN asking' : \/ asking'[k].answer = None
                                     \/ k \in DOMAIN asking /\ asking'[k] = asking[k]
    BY <1>9, <2>2, <2>3, <2>4 DEF DashInv
  <2>6. QED
    BY <1>3, <1>9, <2>1, <2>5
<1>10. CASE Loaded
  <2>1. UNCHANGED <<outcome, run>>
    BY <1>10 DEF Loaded
  <2>2. (asking' = <<>> /\ view' = None) \/ (view' = view /\ asking' \in {asking, Append(asking, Asking(First))})
    BY <1>10 DEF Loaded, Unmounted
  <2>3. QED
    BY <2>1, <2>2, <1>2, <1>9, SameRuns DEF DashInv
<1>11. ASSUME NEW i \in Issue, Select(i) PROVE DashInv'
  BY <1>9, <1>11 DEF Select, load
<1>12. CASE Refresh
  BY <1>9, <1>12 DEF Refresh, load
<1>13. ASSUME NEW k \in DOMAIN asking, ReadMilestones(k) PROVE DashInv'
  <2>1. PromiseKept' /\ RunsWait' /\ Confirmed' = Confirmed /\ view' = view
    BY <1>13, SameRuns DEF ReadMilestones, DashInv
  <2>2. PICK verified \in BOOLEAN :
          asking' = [asking EXCEPT ![k].answer =
                       [issue |-> asking[k].issue, verified |-> verified, seen |-> Executed]]
    BY <1>13 DEF ReadMilestones
  <2>3. PICK T : asking' \in Seq(T)
    BY <2>2, <1>1, PutAt
  <2>4. \A j \in DOMAIN asking' : asking'[j].answer = asking[j].answer \/ asking'[j].answer.seen = Executed
    <3> DEFINE answer == [issue |-> asking[k].issue, verified |-> verified, seen |-> Executed]
    <3>1. asking'[k] = [asking[k] EXCEPT !.answer = answer]
      BY <2>2
    <3>2. "answer" \in DOMAIN asking[k]
      BY DEF DashInv
    <3>3. asking'[k].answer.seen = Executed
      BY <3>1, <3>2
    <3>4. \A j \in DOMAIN asking \ {k} : asking'[j] = asking[j]
      BY <2>2
    <3>5. QED
      BY <3>3, <3>4, <2>2
  <2>5. \A j \in DOMAIN asking' : "answer" \in DOMAIN asking'[j]
    BY <2>2 DEF DashInv
  <2>6. QED
    BY <1>3, <2>1, <2>2, <2>3, <2>4, <2>5
<1>14. ASSUME NEW k \in DOMAIN asking, ArriveMilestones(k) PROVE DashInv'
  <2>1. PromiseKept' /\ RunsWait' /\ Confirmed' = Confirmed
    BY <1>14, SameRuns DEF ArriveMilestones, DashInv
  <2>2. view' \in {asking[k].answer, None} /\ asking' = RemoveAt(asking, k)
    BY <1>14 DEF ArriveMilestones
  <2>3. /\ asking' \in Seq(S)
        /\ \A i \in DOMAIN asking' : \E j \in DOMAIN asking : asking'[i] = asking[j]
    BY <2>2, <1>1, RemoveAtOthers
  <2>4. \A i \in DOMAIN asking' : asking'[i].answer \in {asking[j].answer : j \in DOMAIN asking}
    BY <2>3
  <2>5. \A i \in DOMAIN asking' : "answer" \in DOMAIN asking'[i]
    BY <2>3 DEF DashInv
  <2>6. QED
    BY <1>3, <2>1, <2>2, <2>3, <2>4, <2>5
<1>15. CASE UNCHANGED dashVars
  <2>1. UNCHANGED <<outcome, run>> /\ view' = view /\ asking' = asking
    BY <1>15 DEF dashVars, panelVars
  <2>2. QED
    BY <2>1, <1>9
<1>16. QED
  BY <1>5, <1>6, <1>7, <1>8, <1>10, <1>11, <1>12, <1>13, <1>14, <1>15 DEF DashNext

LEMMA DashInitInv == DashInit => DashInv
<1> SUFFICES ASSUME DashInit PROVE DashInv
  OBVIOUS
<1>1. outcome = <<>> /\ run = <<>> /\ asking = <<>> /\ view = None
  BY DEF DashInit, PromiseInit
<1>2. asking \in Seq({}) /\ outcome \in Seq(Outcome) /\ DOMAIN asking = {} /\ Runs = {}
  BY <1>1 DEF Runs
<1>3. QED
  BY <1>1, <1>2 DEF DashInv, PromiseKept, RunsWait, Knows

\* No panel ever shows a verified state from before a confirmed run whose reload has
\* begun, for any number of runs, bounties and overlapping loads, and however their
\* answers are delayed and reordered (App.tsx 55-56, 127-171; MilestonePanel.tsx 39-55).
THEOREM VerifiedViewsAreCurrent == DashSpec => []VerifiedViewsKeepUp
<1>1. DashInv => VerifiedViewsKeepUp
  BY DEF DashInv, Knows, Confirmed, VerifiedViewsKeepUp
<1>2. QED
  BY <1>1, DashInitInv, DashStep, PTL DEF DashSpec

-----------------------------------------------------------------------------
(* Types of the dashboard, and how many loads there can be at a time: one  *)
(* per opening, click and run that is over.                                *)

\* An answer about milestones that knows of some of the runs.
Reading(runs) == [issue: Issue, verified: BOOLEAN, seen: SUBSET runs]

Over == {f \in Runs : run[f].phase = "over"}

\* A request for milestones, answered or not.
AsksWell(r, runs) ==
  /\ r = [issue |-> r.issue, answer |-> r.answer]
  /\ r.issue \in Issue /\ r.answer \in Reading(runs) \cup {None}

\* The app is loading only while a load is under way, and has panels only when it is
\* ready.
AppInv ==
  /\ app \in {"closed", "loading", "ready", "error"}
  /\ app = "loading" => pending > 0
  /\ ~Ready => standing = {} /\ view = None /\ asking = <<>>

CountInv ==
  /\ Len(outcome) <= MaxRuns
  /\ pending \in Nat /\ clicks \in 0..MaxClicks
  /\ pending <= clicks + Cardinality(Over) + (IF app = "closed" THEN 0 ELSE 1)

PanelsInv ==
  /\ \A f \in Runs : run[f] = [panel |-> run[f].panel, phase |-> run[f].phase]
  /\ selected \in Issue \cup {None}
  /\ view \in Reading(Runs) \cup {None}
  /\ \A k \in DOMAIN asking : AsksWell(asking[k], Runs)
  /\ standing \subseteq Runs

LEMMA OverIsFinite ==
  ASSUME PromiseKept
  PROVE  IsFiniteSet(Over) /\ Cardinality(Over) \in 0..Len(outcome)
<1>1. Runs = 1..Len(outcome) /\ Len(outcome) \in Nat
  BY DEF PromiseKept, Runs
<1>2. IsFiniteSet(Runs) /\ Cardinality(Runs) = Len(outcome)
  BY <1>1, FS_Interval
<1>3. Over \subseteq Runs
  BY DEF Over
<1>4. IsFiniteSet(Over) /\ Cardinality(Over) <= Cardinality(Runs)
  BY <1>2, <1>3, FS_Subset
<1>5. Cardinality(Over) \in Nat
  BY <1>4, FS_CardinalityType
<1>6. QED
  BY <1>1, <1>2, <1>4, <1>5

LEMMA OverNext ==
  (PromiseKept => IsFiniteSet(Over) /\ Cardinality(Over) \in 0..Len(outcome))'
BY OverIsFinite, PTL

\* What a step does to the runs.  Only Done is counted.
LEMMA StepOver ==
  ASSUME DashInv, DashInv', PanelsInv, [DashNext]_dashVars
  PROVE  /\ Over \subseteq Over'
         /\ Runs \subseteq Runs'
         /\ \A f \in Runs' : run'[f] = [panel |-> run'[f].panel, phase |-> run'[f].phase]
         /\ \A f \in Runs : Done(f) => Over' = Over \cup {f} /\ f \notin Over
<1>1. /\ PromiseKept /\ PromiseKept'
      /\ outcome \in Seq(Outcome) /\ Runs = 1..Len(outcome) /\ Len(outcome) \in Nat
      /\ DOMAIN run = Runs /\ Runs' = DOMAIN run'
  BY DEF DashInv, PromiseKept, Runs
<1>2. PICK S : run \in Seq(S)
  BY <1>1 DEF PromiseKept
<1>3. ASSUME NEW f \in Runs, NEW phase, run' = [run EXCEPT ![f].phase = phase]
      PROVE  /\ Runs' = Runs
             /\ run'[f] = [panel |-> run[f].panel, phase |-> phase]
             /\ \A g \in Runs \ {f} : run'[g] = run[g]
  <2>1. run[f] = [panel |-> run[f].panel, phase |-> run[f].phase]
    BY DEF PanelsInv
  <2>2. run'[f] = [run[f] EXCEPT !.phase = phase]
    BY <1>1, <1>3
  <2>3. [run[f] EXCEPT !.phase = phase] = [panel |-> run[f].panel, phase |-> phase]
    BY <2>1
  <2>4. QED
    BY <1>1, <1>3, <2>2, <2>3
<1>4. CASE UNCHANGED <<outcome, run>>
  <2>1. ASSUME NEW f \in Runs, Done(f)  PROVE FALSE
    <3>1. run[f].phase # "over" /\ run' = [run EXCEPT ![f].phase = "over"]
      BY <2>1 DEF Done
    <3>2. run'[f] = [panel |-> run[f].panel, phase |-> "over"]
      BY <1>3, <3>1
    <3>3. run'[f].phase = "over"
      BY <3>2
    <3>4. QED
      BY <1>4, <3>1, <3>3
  <2>2. Over' = Over /\ Runs' = Runs
    BY <1>4 DEF Over, Runs
  <2>3. QED
    BY <1>4, <2>1, <2>2 DEF PanelsInv
<1>5. ASSUME NEW p \in Panels, Act(p)
      PROVE  /\ Over \subseteq Over'
             /\ Runs \subseteq Runs'
             /\ \A f \in Runs' : run'[f] = [panel |-> run'[f].panel, phase |-> run'[f].phase]
             /\ \A f \in Runs : ~Done(f)
  <2> DEFINE new == [panel |-> p, phase |-> "running"]
  <2>1. run' = Append(run, new) /\ clicks' = clicks /\ standing' = standing \cup {Len(outcome) + 1}
    BY <1>5 DEF Act
  <2>2. PICK T : S \subseteq T /\ new \in T
    <3>1. S \subseteq S \cup {new} /\ new \in S \cup {new}
      OBVIOUS
    <3>2. QED
      BY <3>1
  <2>3. new = [panel |-> new.panel, phase |-> new.phase]
    OBVIOUS
  <2> HIDE DEF new
  <2>4. run \in Seq(T) /\ Len(run) = Len(outcome)
    BY <1>1, <1>2, <2>2
  <2>5. /\ Runs' = Runs \cup {Len(outcome) + 1}
        /\ run'[Len(outcome) + 1] = new
        /\ \A f \in Runs : run'[f] = run[f]
    BY <1>1, <2>1, <2>2, <2>4
  <2>6. \A f \in Runs : ~Done(f)
    <3>1. ASSUME NEW f \in Runs, Done(f)  PROVE FALSE
      <4>1. outcome' = outcome
        BY <3>1 DEF Done
      <4>2. Runs' = Runs
        BY <4>1 DEF Runs
      <4>3. Len(outcome) + 1 \notin Runs
        BY <1>1
      <4>4. QED
        BY <2>5, <4>2, <4>3
    <3>2. QED
      BY <3>1
  <2>7. QED
    BY <2>3, <2>5, <2>6 DEF Over, PanelsInv
<1>6. ASSUME NEW f \in Runs, Relay(f)
      PROVE  UNCHANGED run /\ Runs' = Runs
  BY <1>1, <1>6 DEF Relay
<1>7. ASSUME NEW f \in Runs, Finish(f)
      PROVE  /\ Over \subseteq Over' /\ Runs' = Runs
             /\ \A g \in Runs' : run'[g] = [panel |-> run'[g].panel, phase |-> run'[g].phase]
             /\ \A g \in Runs : ~Done(g)
  <2>1. run[f].phase = "running" /\ run' = [run EXCEPT ![f].phase = PhaseAfter(f)]
    BY <1>7 DEF Finish
  <2>2. PICK phase : phase = PhaseAfter(f)
    OBVIOUS
  <2>3. run' = [run EXCEPT ![f].phase = phase]
    BY <2>1, <2>2
  <2>4. /\ Runs' = Runs
        /\ run'[f] = [panel |-> run[f].panel, phase |-> phase]
        /\ \A g \in Runs \ {f} : run'[g] = run[g]
    BY <1>3, <2>3
  <2>5. ASSUME NEW g \in Runs, Done(g)  PROVE FALSE
    <3>1. run[g].phase \in {"loading", "loaded"} /\ run' = [run EXCEPT ![g].phase = "over"]
      BY <2>5 DEF Done
    <3>2. run'[g] = [panel |-> run[g].panel, phase |-> "over"]
      BY <1>3, <3>1
    <3>3. g # f
      BY <2>1, <3>1
    <3>4. QED
      BY <2>4, <3>1, <3>2, <3>3
  <2>6. QED
    BY <2>1, <2>4, <2>5 DEF Over, PanelsInv
<1>8. ASSUME NEW f \in Runs, Done(f)
      PROVE  /\ Over' = Over \cup {f} /\ f \notin Over /\ Runs' = Runs
             /\ \A g \in Runs' : run'[g] = [panel |-> run'[g].panel, phase |-> run'[g].phase]
  <2>1. run[f].phase \in {"loading", "loaded"} /\ run' = [run EXCEPT ![f].phase = "over"]
    BY <1>8 DEF Done
  <2>2. /\ Runs' = Runs
        /\ run'[f] = [panel |-> run[f].panel, phase |-> "over"]
        /\ \A g \in Runs \ {f} : run'[g] = run[g]
    BY <1>3, <2>1
  <2>3. QED
    BY <2>1, <2>2 DEF Over, PanelsInv
<1>9. CASE \/ Open \/ Loaded \/ Retry \/ Refresh
           \/ \E i \in Issue : Select(i)
           \/ \E k \in DOMAIN asking : ReadMilestones(k) \/ ArriveMilestones(k)
  BY <1>4, <1>9 DEF Open, Loaded, Retry, Refresh, Select, ReadMilestones, ArriveMilestones
<1>10. CASE \E f \in Runs : Relay(f)
  <2>1. PICK f \in Runs : Relay(f)
    BY <1>10
  <2>2. UNCHANGED run /\ Runs' = Runs
    BY <1>6, <2>1
  <2>3. ASSUME NEW g \in Runs, Done(g)  PROVE FALSE
    <3>1. run[g].phase # "over" /\ run' = [run EXCEPT ![g].phase = "over"]
      BY <2>3 DEF Done
    <3>2. run'[g] = [panel |-> run[g].panel, phase |-> "over"]
      BY <1>3, <3>1
    <3>3. run'[g].phase = "over"
      BY <3>2
    <3>4. QED
      BY <2>2, <3>1, <3>3
  <2>4. QED
    BY <2>2, <2>3 DEF Over, PanelsInv
<1>11. CASE \E p \in Panels : Act(p)
  BY <1>5, <1>11
<1>12. CASE \E f \in Runs : Finish(f)
  BY <1>7, <1>12
<1>13. CASE \E f \in Runs : Done(f)
  <2>1. \A f \in Runs : Done(f) => Over' = Over \cup {f} /\ f \notin Over
    BY <1>8
  <2>2. QED
    BY <1>8, <1>13, <2>1
<1>14. CASE UNCHANGED dashVars
  BY <1>4, <1>14 DEF dashVars
<1>15. QED
  BY <1>9, <1>10, <1>11, <1>12, <1>13, <1>14 DEF DashNext

\* Loading is never without a load that is under way, and a load that ends settles
\* the state.
LEMMA AppStep ==
  ASSUME DashInv, AppInv, CountInv, [DashNext]_dashVars
  PROVE  AppInv'
<1>1. CASE Open \/ Retry \/ \E f \in Runs : Done(f)
  BY <1>1 DEF Open, Retry, Done, onDone, loadAll, Unmounted, AppInv, CountInv, Ready
<1>2. CASE Loaded
  BY <1>2 DEF Loaded, StateAfter, Unmounted, AppInv, Ready
<1>3. CASE Refresh \/ \E i \in Issue : Select(i)
  BY <1>3 DEF Refresh, Select, AppInv, Ready
<1>4. ASSUME NEW k \in DOMAIN asking, ReadMilestones(k) \/ ArriveMilestones(k)
      PROVE  AppInv'
  <2>1. Ready
    BY DEF AppInv
  <2>2. app' = app /\ pending' = pending
    BY <1>4 DEF ReadMilestones, ArriveMilestones
  <2>3. QED
    BY <2>1, <2>2 DEF AppInv, Ready
<1>5. CASE \E p \in Panels : Act(p)
  BY <1>5 DEF Act, MayAct, AppInv, Ready
<1>6. CASE (\E f \in Runs : Relay(f) \/ Finish(f)) \/ UNCHANGED dashVars
  BY <1>6 DEF Relay, Finish, panelVars, dashVars, AppInv, Ready
<1>7. QED
  BY <1>1, <1>2, <1>3, <1>4, <1>5, <1>6 DEF DashNext

\* An opening, a click or a run that is over adds a load; nothing else does.
LEMMA CountStep ==
  ASSUME DashInv, DashInv', AppInv, CountInv, PanelsInv, [DashNext]_dashVars
  PROVE  CountInv'
<1>1. /\ IsFiniteSet(Over) /\ Cardinality(Over) \in Nat
      /\ IsFiniteSet(Over') /\ Cardinality(Over') \in Nat
      /\ Len(outcome) \in Nat
  BY OverIsFinite, OverNext DEF DashInv, PromiseKept
<1>2. Over \subseteq Over' /\ \A f \in Runs : Done(f) => Over' = Over \cup {f} /\ f \notin Over
  BY StepOver
<1>3. Cardinality(Over) <= Cardinality(Over')
  BY <1>1, <1>2, FS_Subset
<1>5. MaxRuns \in Nat /\ MaxClicks \in Nat
  BY DashboardAssumption
<1>4. ASSUME Len(outcome') <= MaxRuns, pending' \in Nat, clicks' \in 0..MaxClicks,
             pending' - pending <= clicks' - clicks, app' = "closed" <=> app = "closed"
      PROVE  CountInv'
  <2>1. PICK opened \in {0, 1} :
          opened = (IF app = "closed" THEN 0 ELSE 1) /\ opened = (IF app' = "closed" THEN 0 ELSE 1)
    BY <1>4
  <2>2. pending \in Nat /\ clicks \in Int /\ clicks' \in Int /\ pending <= clicks + Cardinality(Over) + opened
    BY <1>4, <1>5, <2>1 DEF CountInv
  <2>3. pending' <= clicks' + Cardinality(Over') + opened
    <3>1. pending' \in Nat /\ pending' - pending <= clicks' - clicks
      BY <1>4
    <3>2. PICK c \in Nat, d \in Nat : c = Cardinality(Over) /\ d = Cardinality(Over')
      BY <1>1
    <3>3. pending \in Int /\ clicks \in Int /\ clicks' \in Int /\ c <= d /\ pending <= clicks + c + opened
      BY <1>3, <2>2, <3>2
    <3>4. opened \in Int /\ c \in Int /\ d \in Int
      OBVIOUS
    <3>5. PICK was \in Int, is \in Int, before \in Int, after \in Int :
            was = pending /\ is = pending' /\ before = clicks /\ after = clicks'
      BY <3>1, <3>3
    <3>6. is - was <= after - before /\ was <= before + c + opened
      BY <3>1, <3>3, <3>5
    <3>7. is <= after + d + opened
      BY <3>3, <3>4, <3>6
    <3>8. QED
      BY <3>2, <3>5, <3>7
  <2>4. QED
    BY <1>4, <2>1, <2>3 DEF CountInv
<1>6. CASE Open
  <2>1. app = "closed" /\ app' = "loading" /\ pending' = pending + 1 /\ clicks' = clicks /\ outcome' = outcome
    BY <1>6 DEF Open, loadAll
  <2>2. QED
    BY <1>1, <1>3, <2>1 DEF CountInv
<1>7. CASE Retry
  <2>1. app # "closed" /\ app' = "loading" /\ pending' = pending + 1 /\ outcome' = outcome
    BY <1>7 DEF Retry, loadAll, Ready
  <2>2. clicks < MaxClicks /\ clicks' = clicks + 1
    BY <1>7 DEF Retry, Click
  <2>3. pending' \in Nat /\ clicks' \in 0..MaxClicks /\ pending' - pending <= clicks' - clicks
    BY <1>5, <2>1, <2>2 DEF CountInv
  <2>4. QED
    BY <1>4, <2>1, <2>3 DEF CountInv
<1>8. ASSUME NEW f \in Runs, Done(f)  PROVE CountInv'
  <2>1. /\ app' = "loading" /\ pending' = pending + 1 /\ outcome' = outcome /\ clicks' = clicks
        /\ run[f].phase \in {"loading", "loaded"}
    BY <1>8 DEF Done, onDone, loadAll
  <2>2. Cardinality(Over') = Cardinality(Over) + 1
    BY <1>1, <1>2, <1>8, FS_AddElement
  <2>3. QED
    BY <1>1, <2>1, <2>2 DEF CountInv
<1>9. CASE Loaded
  <2>1. pending > 0 /\ pending' = pending - 1 /\ clicks' = clicks /\ outcome' = outcome
    BY <1>9 DEF Loaded
  <2>2. app' \in {"ready", "error"}
    BY <1>9 DEF Loaded, StateAfter
  <2>3. QED
    BY <1>1, <1>3, <2>1, <2>2 DEF CountInv
<1>10. CASE Refresh \/ \E i \in Issue : Select(i)
  <2>1. /\ app' = app /\ pending' = pending /\ outcome' = outcome
        /\ clicks < MaxClicks /\ clicks' = clicks + 1
    BY <1>10 DEF Refresh, Select, Click
  <2>2. clicks' \in 0..MaxClicks /\ pending' - pending <= clicks' - clicks
    BY <1>5, <2>1 DEF CountInv
  <2>3. QED
    BY <1>4, <2>1, <2>2 DEF CountInv
<1>11. CASE \E p \in Panels : Act(p)
  <2>1. /\ app' = app /\ pending' = pending /\ clicks' = clicks
        /\ Len(outcome) < MaxRuns /\ outcome' = Append(outcome, Begun)
    BY <1>11 DEF Act, Begin
  <2>2. Len(outcome') <= MaxRuns
    <3>1. Begun \in Outcome
      BY DEF Begun, Outcome
    <3>2. Len(outcome') = Len(outcome) + 1
      BY <2>1, <3>1 DEF DashInv, PromiseKept
    <3>3. QED
      BY <1>1, <1>5, <2>1, <3>2
  <2>3. pending' \in Nat /\ clicks' \in 0..MaxClicks /\ pending' - pending <= clicks' - clicks
    BY <1>5, <2>1 DEF CountInv
  <2>4. QED
    BY <1>4, <2>1, <2>2, <2>3
<1>12. CASE \/ \E k \in DOMAIN asking : ReadMilestones(k) \/ ArriveMilestones(k)
            \/ \E f \in Runs : Finish(f) \/ Relay(f)
            \/ UNCHANGED dashVars
  <2>1. app' = app /\ pending' = pending /\ clicks' = clicks
    BY <1>12 DEF ReadMilestones, ArriveMilestones, Finish, Relay, dashVars
  <2>2. Len(outcome') = Len(outcome)
    <3>1. CASE \E f \in Runs : Relay(f)
      BY <3>1 DEF Relay, Proceed, DashInv, PromiseKept
    <3>2. CASE UNCHANGED outcome
      BY <3>2
    <3>3. QED
      BY <1>12, <3>1, <3>2 DEF ReadMilestones, ArriveMilestones, Finish, dashVars
  <2>3. pending' \in Nat /\ clicks' \in 0..MaxClicks /\ pending' - pending <= clicks' - clicks
    BY <1>5, <2>1 DEF CountInv
  <2>4. QED
    BY <1>4, <2>1, <2>2, <2>3 DEF CountInv
<1>13. QED
  BY <1>6, <1>7, <1>8, <1>9, <1>10, <1>11, <1>12 DEF DashNext

\* Whatever is shown or on its way is for a bounty that is listed and says of runs
\* that there are what had taken effect.
LEMMA PanelsStep ==
  ASSUME DashInv, DashInv', AppInv, PanelsInv, [DashNext]_dashVars
  PROVE  PanelsInv'
<1>1. /\ Runs \subseteq Runs'
      /\ \A f \in Runs' : run'[f] = [panel |-> run'[f].panel, phase |-> run'[f].phase]
  BY StepOver
<1>2. Reading(Runs) \subseteq Reading(Runs')
  BY <1>1 DEF Reading
<1>3. PICK S : asking \in Seq(S)
  BY DEF DashInv
\* Requests go on, and there may be a new one.
<1>4. ASSUME NEW i \in Issue, asking' \in {<<>>, asking, Append(asking, Asking(i))}
      PROVE  \A k \in DOMAIN asking' : AsksWell(asking'[k], Runs')
  <2>1. \A k \in DOMAIN asking : AsksWell(asking[k], Runs')
    BY <1>2 DEF PanelsInv, AsksWell
  <2>2. AsksWell(Asking(i), Runs')
    BY DEF AsksWell, Asking
  <2>3. CASE asking' \in {<<>>, asking}
    BY <2>1, <2>3
  <2>4. CASE asking' = Append(asking, Asking(i))
    <3> DEFINE new == Asking(i)
    <3>1. PICK T : S \subseteq T /\ new \in T
      <4>1. S \subseteq S \cup {new} /\ new \in S \cup {new}
        OBVIOUS
      <4>2. QED
        BY <4>1
    <3> HIDE DEF new
    <3>2. asking \in Seq(T)
      BY <1>3, <3>1
    <3>3. \A k \in DOMAIN asking' : asking'[k] = new \/ (k \in DOMAIN asking /\ asking'[k] = asking[k])
      BY <2>4, <3>1, <3>2 DEF new
    <3>4. QED
      BY <2>1, <2>2, <3>3 DEF new
  <2>5. QED
    BY <1>4, <2>3, <2>4
<1>5. CASE Open \/ Retry \/ \E f \in Runs : Done(f)
  <2>1. asking' = <<>> /\ selected' = None /\ view' = None /\ standing' = {}
    BY <1>5 DEF Open, Retry, Done, onDone, loadAll, Unmounted
  <2>2. QED
    BY <1>1, <2>1 DEF PanelsInv
<1>6. CASE Loaded
  <2>1. CASE asking' = <<>> /\ selected' = None /\ view' = None /\ standing' = {}
    BY <1>1, <2>1 DEF PanelsInv
  <2>2. CASE /\ asking' = asking /\ selected' = selected /\ view' = view /\ standing' = standing
    BY <1>1, <1>2, <2>2 DEF PanelsInv, AsksWell
  <2>3. CASE /\ Issue # {} /\ selected' = First /\ asking' = Append(asking, Asking(First))
             /\ view' = view /\ standing' = standing
    <3>1. First \in Issue
      BY <2>3 DEF First
    <3>2. QED
      BY <1>1, <1>2, <1>4, <2>3, <3>1 DEF PanelsInv
  <2>4. QED
    BY <1>6, <2>1, <2>2, <2>3 DEF Loaded, Unmounted
<1>7. ASSUME NEW i \in Issue, asking' = Append(asking, Asking(i)), selected' \in {selected, i},
             view' = view, standing' = standing
      PROVE  PanelsInv'
  BY <1>1, <1>2, <1>4, <1>7 DEF PanelsInv
<1>8. CASE Refresh
  <2>1. selected \in Issue
    BY <1>8 DEF Refresh, PanelsInv
  <2>2. QED
    BY <1>7, <1>8, <2>1 DEF Refresh, load
<1>9. ASSUME NEW i \in Issue, Select(i)  PROVE PanelsInv'
  BY <1>7, <1>9 DEF Select, load
<1>10. ASSUME NEW k \in DOMAIN asking, ReadMilestones(k)  PROVE PanelsInv'
  <2>1. PICK verified \in BOOLEAN :
          asking' = [asking EXCEPT ![k].answer =
                       [issue |-> asking[k].issue, verified |-> verified, seen |-> Executed]]
    BY <1>10 DEF ReadMilestones
  <2> DEFINE answer == [issue |-> asking[k].issue, verified |-> verified, seen |-> Executed]
  <2>2. AsksWell(asking[k], Runs)
    BY DEF PanelsInv
  <2>3. answer \in Reading(Runs)
    BY <2>2 DEF AsksWell, Reading, Executed
  <2> HIDE DEF answer
  <2>4. asking' = [asking EXCEPT ![k] = [issue |-> asking[k].issue, answer |-> answer]]
    <3>1. asking' = [asking EXCEPT ![k] = [asking[k] EXCEPT !.answer = answer]]
      BY <2>1 DEF answer
    <3>2. [asking[k] EXCEPT !.answer = answer] = [issue |-> asking[k].issue, answer |-> answer]
      BY <2>2 DEF AsksWell
    <3>3. QED
      BY <3>1, <3>2
  <2>5. \A j \in DOMAIN asking' :
          \/ asking'[j] = [issue |-> asking[k].issue, answer |-> answer]
          \/ j \in DOMAIN asking /\ asking'[j] = asking[j]
    BY <1>3, <2>4
  <2>6. \A j \in DOMAIN asking' : AsksWell(asking'[j], Runs')
    <3>1. AsksWell([issue |-> asking[k].issue, answer |-> answer], Runs')
      BY <1>2, <2>2, <2>3 DEF AsksWell
    <3>2. \A j \in DOMAIN asking : AsksWell(asking[j], Runs')
      BY <1>2 DEF PanelsInv, AsksWell
    <3>3. QED
      BY <2>5, <3>1, <3>2
  <2>7. selected' = selected /\ view' = view /\ standing' = standing
    BY <1>10 DEF ReadMilestones
  <2>8. QED
    BY <1>1, <1>2, <2>6, <2>7 DEF PanelsInv
<1>11. ASSUME NEW k \in DOMAIN asking, ArriveMilestones(k)  PROVE PanelsInv'
  <2>1. /\ view' \in {asking[k].answer, None} /\ asking' = RemoveAt(asking, k)
        /\ selected' = selected /\ standing' = standing
    BY <1>11 DEF ArriveMilestones
  <2>2. \A i \in DOMAIN asking' : \E j \in DOMAIN asking : asking'[i] = asking[j]
    BY <1>3, <2>1, RemoveAtOthers
  <2>3. \A j \in DOMAIN asking : AsksWell(asking[j], Runs')
    BY <1>2 DEF PanelsInv, AsksWell
  <2>4. \A i \in DOMAIN asking' : AsksWell(asking'[i], Runs')
    BY <2>2, <2>3
  <2>5. view' \in Reading(Runs') \cup {None}
    BY <1>2, <2>1 DEF PanelsInv, AsksWell
  <2>6. QED
    BY <1>1, <2>1, <2>4, <2>5 DEF PanelsInv
<1>12. ASSUME asking' = asking, selected' = selected, view' = view, standing' \subseteq Runs'
       PROVE  PanelsInv'
  BY <1>1, <1>2, <1>12 DEF PanelsInv, AsksWell
<1>13. CASE \E p \in Panels : Act(p)
  <2>1. /\ asking' = asking /\ selected' = selected /\ view' = view
        /\ standing' = standing \cup {Len(outcome) + 1} /\ outcome' = Append(outcome, Begun)
    BY <1>13 DEF Act, Begin
  <2>2. Len(outcome) + 1 \in Runs'
    <3>1. outcome \in Seq(Outcome) /\ Begun \in Outcome
      BY DEF DashInv, PromiseKept, Begun, Outcome
    <3>2. QED
      BY <2>1, <3>1 DEF Runs
  <2>3. QED
    BY <1>1, <1>12, <2>1, <2>2 DEF PanelsInv
<1>14. CASE (\E f \in Runs : Relay(f) \/ Finish(f)) \/ UNCHANGED dashVars
  BY <1>1, <1>12, <1>14 DEF Relay, Finish, panelVars, dashVars, PanelsInv
<1>15. QED
  BY <1>5, <1>6, <1>8, <1>9, <1>10, <1>11, <1>13, <1>14 DEF DashNext

LEMMA AppInvInit == DashInit => AppInv /\ CountInv /\ PanelsInv
<1> SUFFICES ASSUME DashInit PROVE AppInv /\ CountInv /\ PanelsInv
  OBVIOUS
<1>1. /\ outcome = <<>> /\ asking = <<>> /\ view = None /\ selected = None /\ standing = {}
      /\ app = "closed" /\ pending = 0 /\ clicks = 0
  BY DEF DashInit, PromiseInit
<1>2. Runs = {} /\ Len(outcome) = 0
  BY <1>1 DEF Runs
<1>3. Over = {} /\ Cardinality(Over) = 0
  BY <1>2, FS_EmptySet DEF Over
<1>4. AppInv
  BY <1>1 DEF AppInv, Ready
<1>5. CountInv
  BY <1>1, <1>2, <1>3, DashboardAssumption DEF CountInv
<1>6. PanelsInv
  BY <1>1, <1>2 DEF PanelsInv
<1>7. QED
  BY <1>4, <1>5, <1>6

LEMMA TypedDashboard == DashInv /\ AppInv /\ CountInv /\ PanelsInv => DashboardTypeOK
<1> SUFFICES ASSUME DashInv, AppInv, CountInv, PanelsInv PROVE DashboardTypeOK
  OBVIOUS
<1>1. outcome \in Seq(Outcome) /\ Len(run) = Len(outcome)
  BY DEF DashInv, PromiseKept, Runs
<1>2. pending \in 0..(1 + MaxRuns + MaxClicks)
  <2>1. Cardinality(Over) \in Nat /\ Cardinality(Over) <= Len(outcome) /\ Len(outcome) \in Nat
    BY <1>1, OverIsFinite DEF DashInv
  <2>2. PICK opened \in {0, 1} : opened = IF app = "closed" THEN 0 ELSE 1
    OBVIOUS
  <2>3. pending \in Nat /\ pending <= clicks + Cardinality(Over) + opened /\ clicks \in 0..MaxClicks
        /\ Len(outcome) <= MaxRuns
    BY <2>2 DEF CountInv
  <2>4. QED
    BY <2>1, <2>3, DashboardAssumption
<1>3. QED
  BY <1>1, <1>2 DEF DashboardTypeOK, AppInv, CountInv, PanelsInv, Reading

\* The dashboard is never left loading with nothing under way, has panels only while it
\* is ready, and shows or awaits nothing but readings of listed bounties; of loads there
\* are never more than its opening, the clicks and the runs that are over call for
\* (App.tsx 59-96, 127-171; MilestonePanel.tsx 35-57).
THEOREM DashboardTypes == DashSpec => []DashboardTypeOK
<1>1. DashSpec => []DashInv
  BY DashInitInv, DashStep, PTL DEF DashSpec
<1>2. DashInv /\ DashInv' /\ AppInv /\ CountInv /\ PanelsInv /\ [DashNext]_dashVars
        => AppInv' /\ CountInv' /\ PanelsInv'
  BY AppStep, CountStep, PanelsStep
<1>3. QED
  BY <1>1, <1>2, AppInvInit, TypedDashboard, PTL DEF DashSpec
=============================================================================
