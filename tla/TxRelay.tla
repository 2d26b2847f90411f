------------------------------ MODULE TxRelay ------------------------------
(***************************************************************************)
(* The transaction relay: runTx of the dashboard and the SDK's helpers,    *)
(* POST /api/tx/build and /api/tx/submit of src/backend/src/routes/api.ts, *)
(* and the Soroban client of src/backend/src/services/soroban.ts.          *)
(*                                                                         *)
(* A flow is one run of "build, sign, submit".  Its client waits for each  *)
(* answer and may lose it; the server goes on regardless.  The network     *)
(* takes a transaction if it carries the next sequence number of its       *)
(* account and its time bound has not passed.                              *)
(*                                                                         *)
(* A JSON value is its kind and what it says; text that says a number is   *)
(* of kind "string" with that number, booleans are 0 and 1.  Titles and    *)
(* hashes of comments are left out.  services/audit.ts does not parse at   *)
(* this commit (its line breaks are the two characters \n): what its call  *)
(* does to an answer is left open.                                         *)
(***************************************************************************)
EXTENDS Integers, Sequences, FiniteSets, SequencesExt, TLC

CONSTANTS
  Account,        \* accounts of wallets
  Address,        \* what requireAddress accepts, accounts included
  Approve, Reject,\* the two words of a review decision
  Absent,         \* a field that a request does not have
  Scripts,        \* bound: the sequences of requests that are made
  WordBits,       \* bits of the low word of an i128 (64)
  MaxSafeInteger  \* largest integer of JavaScript's safe ones (2^53 - 1)

\* The requests that are made.
Request == UNION {{s[k][3] : k \in DOMAIN s} : s \in Scripts}

Client == {"panel", "lib", "sdk", "direct"}

ASSUME RelayAssumption ==
  /\ Account \subseteq Address
  /\ WordBits \in Nat \ {0}
  /\ MaxSafeInteger \in Nat
  /\ Scripts \subseteq Seq(Account \X Client \X Request)

VARIABLES
  script,     \* the requests that users will make, one of Scripts
  flow,       \* the runs of the relay, in the order in which they start
  sequence,   \* account |-> sequence number of its last transaction
  executed,   \* flows whose transaction took effect, in ledger order
  spent       \* calls that the contract would refuse if made again

relayVars == <<script, flow, sequence, executed, spent>>

Flows == DOMAIN flow

-----------------------------------------------------------------------------
(* What clients send.                                                      *)

NumberFields == {"milestone", "disputeId", "proposalId", "threshold", "quorum"}
FlagFields == {"payContributor"}
AddressFields == {"funder", "token", "contributor", "proposer", "signer", "reviewer", "opener"}

\* The builders of src/src/lib/api.ts turn numbers and booleans into text; the
\* panels, the SDK and a direct call of buildTransaction send them as they are.
JsonOf(client, field, value) ==
  [kind |-> CASE value = Absent -> "absent"
              [] field \in NumberFields /\ client # "lib" -> "number"
              [] field \in FlagFields /\ client # "lib" -> "boolean"
              [] OTHER -> "string",
   value |-> value]

\* The actions that each client has a way to ask for.
Offered ==
  [panel |-> {"createBounty", "claim", "proposeRelease", "submitReview", "openDispute",
              "voteDispute", "proposeResolveDispute", "approve", "revoke", "cancel"},
   lib |-> {"createBounty", "claim", "proposeRelease", "approve", "proposeSetReviewers",
            "submitReview", "openDispute", "voteDispute"},
   sdk |-> {"create", "createBounty", "claim", "proposeRelease", "proposeSetSigners",
            "proposeSetReviewers", "approve", "submitReview", "openDispute", "voteDispute"},
   direct |-> {"create", "createBounty", "reclaim", "claim", "proposeRelease",
               "proposeReclaim", "proposeSetSigners", "proposeSetReviewers",
               "proposeResolveDispute", "approve", "revoke", "cancel", "submitReview",
               "openDispute", "voteDispute"}]

-----------------------------------------------------------------------------
(* What the server makes of it.                                            *)

\* Entry point, or variant of ProposalAction, and the fields of the request in
\* the order in which they are passed.
ProposeActions ==
  [proposeRelease |-> <<"Release", <<"proposer", "issueId", "milestone">>>>,
   proposeReclaim |-> <<"Reclaim", <<"proposer", "issueId">>>>,
   proposeSetSigners |-> <<"SetSigners", <<"proposer", "signers", "threshold">>>>,
   proposeSetReviewers |-> <<"SetReviewers", <<"proposer", "issueId", "reviewers", "quorum">>>>,
   proposeResolveDispute |-> <<"ResolveDispute", <<"proposer", "disputeId", "payContributor">>>>]

ParticipantActions ==
  [approve |-> <<"approve", <<"signer", "proposalId">>>>,
   revoke |-> <<"revoke", <<"signer", "proposalId">>>>,
   cancel |-> <<"cancel", <<"proposer", "proposalId">>>>,
   submitReview |-> <<"submit_review", <<"reviewer", "issueId", "milestone", "decision">>>>,
   openDispute |-> <<"open_dispute", <<"opener", "issueId", "milestone">>>>,
   voteDispute |-> <<"vote_on_dispute", <<"reviewer", "disputeId", "payContributor">>>>]

BountyActions ==
  [create |-> <<"create", <<"funder", "token", "amount", "issueId">>>>,
   createBounty |-> <<"create_bounty", <<"funder", "token", "issueId", "milestones">>>>,
   reclaim |-> <<"reclaim", <<"issueId">>>>,
   claim |-> <<"claim", <<"issueId", "contributor">>>>]

actionToInvocation ==
  [action \in DOMAIN BountyActions \cup DOMAIN ProposeActions \cup DOMAIN ParticipantActions |->
     IF action \in DOMAIN BountyActions THEN BountyActions[action]
     ELSE IF action \in DOMAIN ProposeActions THEN ProposeActions[action]
     ELSE ParticipantActions[action]]

\* What a number is cut to.
Largest(field) ==
  CASE field = "milestone" -> 1000000
    [] field \in {"threshold", "quorum"} -> 1000
    [] OTHER -> MaxSafeInteger

\* Not a number is the fallback 0, and nothing below 0 passes.
intQuery(field, json) ==
  IF json.kind = "absent" \/ json.value \notin Nat THEN 0
  ELSE IF json.value > Largest(field) THEN Largest(field)
  ELSE json.value

reviewDecisionArg_Swapped(json) ==   \* mutant of reviewDecisionArg
  IF json.value \notin {Approve, Reject} THEN {} ELSE {IF json.value = Approve THEN 1 ELSE 0}

reviewDecisionArg(json) ==
  IF json.value \notin {Approve, Reject} THEN {} ELSE {IF json.value = Approve THEN 0 ELSE 1}

\* Boolean(x): any text is true, "false" included.
Truthy(json) ==
  IF json.kind = "absent" THEN 0 ELSE IF json.kind = "string" THEN 1 ELSE json.value

\* What a missing field becomes: BigInt('') is 0, and no reviewers are none.
Missing(field) ==
  IF field = "amount" THEN {0} ELSE IF field = "reviewers" THEN {<<>>} ELSE {}

\* The argument a field becomes; none if the request is refused as malformed.
Argument(field, json) ==
  CASE field \in AddressFields -> {json.value} \cap Address
    [] field \in NumberFields -> {intQuery(field, json)}
    [] field \in FlagFields -> {Truthy(json)}
    [] field = "decision" -> reviewDecisionArg(json)
    [] OTHER -> IF json.kind = "absent" THEN Missing(field) ELSE {json.value}

Word == 2 ^ WordBits

ASSUME WordAssumption == Word \in Nat \ {0}

\* encodeArg of an i128: two words, the upper one signed, or no encoding.
encodeI128(n) ==
  LET hi == n \div Word
  IN  IF hi \in -(Word \div 2)..(Word \div 2 - 1) THEN {[lo |-> n % Word, hi |-> hi]} ELSE {}

\* decodeScVal of an i128, which is also how the contract reads it.
decodeI128(parts) == parts.hi * Word + parts.lo

\* encodeArg of every other type keeps the value.
encodeArg(field, value) == IF field = "amount" THEN encodeI128(value) ELSE {value}
decodeScVal(field, parts) == IF field = "amount" THEN decodeI128(parts) ELSE parts

Fields(asked) == actionToInvocation[asked.action][2]
Field(asked, name) == IF name \in DOMAIN asked.extra THEN asked.extra[name] ELSE Absent
Arguments(client, asked, name) == Argument(name, JsonOf(client, name, Field(asked, name)))

WellFormed(client, asked) ==
  \A k \in DOMAIN Fields(asked) : Arguments(client, asked, Fields(asked)[k]) # {}

Encodable(client, asked) ==
  \A k \in DOMAIN Fields(asked) : \A v \in Arguments(client, asked, Fields(asked)[k]) :
    encodeArg(Fields(asked)[k], v) # {}

\* The call that the contract receives.
Call(client, asked) ==
  [entry |-> actionToInvocation[asked.action][1],
   args |-> [k \in DOMAIN Fields(asked) |->
      LET f == Fields(asked)[k]
          v == CHOOSE v \in Arguments(client, asked, f) : TRUE
      IN  decodeScVal(f, CHOOSE p \in encodeArg(f, v) : TRUE)]]

\* What there are forms and typed parameters for: indices and ids are naturals
\* that need not be cut, flags are flags, and every field belongs to the action.
Sensible(asked) ==
  /\ asked.action \in DOMAIN actionToInvocation
  /\ \A name \in DOMAIN asked.extra :
       /\ \E k \in DOMAIN Fields(asked) : Fields(asked)[k] = name
       /\ name \in NumberFields => asked.extra[name] \in 0..Largest(name)
       /\ name \in FlagFields => asked.extra[name] \in {0, 1}
       /\ name = "amount" => asked.extra[name] \in Int
       /\ asked.extra[name] # Absent

ASSUME ScriptAssumption ==
  /\ Approve # Reject
  /\ \A s \in Scripts : \A k \in DOMAIN s : s[k][2] \in {"panel", "sdk"} => Sensible(s[k][3])

-----------------------------------------------------------------------------
(* The contract, as far as the relay meets it (lib.rs, Escrow.tla).        *)

\* The parameters of the entry points and of the proposals' variants.
Parameters ==
  [create |-> <<"funder", "token", "amount", "issueId">>,
   create_bounty |-> <<"funder", "token", "issueId", "milestones">>,
   reclaim |-> <<"issueId">>,
   claim |-> <<"issueId", "contributor">>,
   Release |-> <<"proposer", "issueId", "milestone">>,
   Reclaim |-> <<"proposer", "issueId">>,
   SetSigners |-> <<"proposer", "signers", "threshold">>,
   SetReviewers |-> <<"proposer", "issueId", "reviewers", "quorum">>,
   ResolveDispute |-> <<"proposer", "disputeId", "payContributor">>,
   approve |-> <<"signer", "proposalId">>,
   revoke |-> <<"signer", "proposalId">>,
   cancel |-> <<"proposer", "proposalId">>,
   submit_review |-> <<"reviewer", "issueId", "milestone", "decision">>,
   open_dispute |-> <<"opener", "issueId", "milestone">>,
   vote_on_dispute |-> <<"reviewer", "disputeId", "payContributor">>]

\* A claim repeated by its contributor succeeds; every propose is a new proposal.
Repeatable == {"claim", "Release", "Reclaim", "SetSigners", "SetReviewers", "ResolveDispute"}

Undoing == [approve |-> "revoke", revoke |-> "approve"]

\* What the contract refuses after a call took effect: the same again, unless
\* it can be repeated; a revoked approval can be given again.
SpentAfter(call) ==
  LET undone == IF call.entry \in DOMAIN Undoing
                THEN {[call EXCEPT !.entry = Undoing[call.entry]]} ELSE {}
  IN  (spent \ undone) \cup (IF call.entry \in Repeatable THEN {} ELSE {call})

-----------------------------------------------------------------------------
(* The flows.                                                              *)

\* Answers after which the user knows that nothing happened or will happen.
Refusals == {"BAD_FIELD", "BUILD_FAILED", "SIMULATION_FAILED", "NOT_SIGNED",
             "TX_REJECTED", "TX_FAILED"}
\* Answers that leave it open.
Doubts == {"SUBMIT_FAILED", "TX_TIMEOUT", "RPC_HTTP", "INTERNAL", "NO_ANSWER"}

\* The record of a flow once the server has answered with an error or success;
\* a client that gave up learns nothing more.
Answered(r, code) ==
  IF r.step = "error" THEN [r EXCEPT !.server = "over"]
  ELSE [r EXCEPT !.server = "over", !.answer = code,
                 !.step = IF code = "SUCCESS" THEN "done" ELSE "error"]

FlowType ==
  [who: Account, client: Client, asked: Request,
   step: {"building", "signing", "submitting", "done", "error"},
   server: {"build", "simulate", "idle", "send", "poll", "late", "over"},
   nonce: Nat, net: {"none", "pooled", "applied", "failed", "dropped"},
   expired: BOOLEAN, answer: {"none", "SUCCESS"} \cup Refusals \cup Doubts]

Becomes(f, r) ==
  /\ flow' = [flow EXCEPT ![f] = r]
  /\ UNCHANGED <<script, sequence, executed, spent>>

Reply(f, code) == Becomes(f, Answered(flow[f], code))

CallOf(f) == Call(flow[f].client, flow[f].asked)
Pooled == {f \in Flows : flow[f].net = "pooled"}

\* runTx: a request is sent to /api/tx/build.
StartTx(who, client, asked) ==
  /\ asked.action \in Offered[client]
  /\ flow' = Append(flow,
       [who |-> who, client |-> client, asked |-> asked, step |-> "building",
        server |-> "build", nonce |-> 0, net |-> "none", expired |-> FALSE,
        answer |-> "none"])
  /\ UNCHANGED <<script, sequence, executed, spent>>

\* actionToInvocation, then buildContractTransaction up to the simulation.
GetAccount(f) ==
  /\ flow[f].server = "build"
  /\ IF ~WellFormed(flow[f].client, flow[f].asked) THEN Reply(f, "BAD_FIELD")
     ELSE \/ /\ Encodable(flow[f].client, flow[f].asked)
             /\ Becomes(f, [flow[f] EXCEPT !.server = "simulate",
                                           !.nonce = sequence[flow[f].who] + 1])
          \/ Reply(f, "BUILD_FAILED")

\* The contract accepts a call for reasons of its own, never one that is spent.
Simulate(f) ==
  /\ flow[f].server = "simulate"
  /\ \/ /\ CallOf(f) \notin spent
        /\ Becomes(f, IF flow[f].step = "error" THEN [flow[f] EXCEPT !.server = "over"]
                      ELSE [flow[f] EXCEPT !.step = "signing", !.server = "idle"])
     \/ Reply(f, "SIMULATION_FAILED")
     \/ Reply(f, "BUILD_FAILED")

\* signTransactionXdr; the wallet may take longer than the time bound.
Sign(f) ==
  /\ flow[f].step = "signing"
  /\ \/ Becomes(f, [flow[f] EXCEPT !.step = "submitting", !.server = "send"])
     \/ Reply(f, "NOT_SIGNED")

\* sendTransaction: pending, turned away for now (a status the code does not
\* look at), rejected, or no answer from the RPC, which may have passed it on.
SendFailure_Rejected == "TX_REJECTED"   \* mutant of SendFailure
SendFailure == "SUBMIT_FAILED"

CanBePooled(f) ==
  /\ ~flow[f].expired
  /\ flow[f].nonce = sequence[flow[f].who] + 1
  /\ \A g \in Pooled : flow[g].who # flow[f].who

Send(f) ==
  /\ flow[f].server = "send"
  /\ \/ /\ CanBePooled(f)
        /\ \/ Becomes(f, [flow[f] EXCEPT !.server = "poll", !.net = "pooled"])
           \/ Becomes(f, Answered([flow[f] EXCEPT !.net = "pooled"], SendFailure))
     \/ Becomes(f, [flow[f] EXCEPT !.server = "poll"])
     \/ Reply(f, "TX_REJECTED")
     \/ Reply(f, SendFailure)

\* The network applies a pooled transaction; a call the contract refuses uses
\* up the sequence number all the same.
Apply(f, accepted) ==
  /\ flow[f].net = "pooled" /\ ~flow[f].expired
  /\ accepted => CallOf(f) \notin spent
  /\ sequence' = [sequence EXCEPT ![flow[f].who] = flow[f].nonce]
  /\ flow' = [flow EXCEPT ![f].net = IF accepted THEN "applied" ELSE "failed"]
  /\ executed' = IF accepted THEN Append(executed, f) ELSE executed
  /\ spent' = IF accepted THEN SpentAfter(CallOf(f)) ELSE spent
  /\ UNCHANGED script

\* or gives it up, at the latest once its time bound has passed.
Drop(f) ==
  /\ flow[f].net = "pooled"
  /\ Becomes(f, [flow[f] EXCEPT !.net = "dropped"])

setTimeout_None == FALSE   \* mutant of setTimeout
setTimeout == TRUE         \* "Bounded time bounds": 180 s from the build

Expire(f) ==
  /\ setTimeout /\ flow[f].nonce > 0 /\ ~flow[f].expired
  /\ Becomes(f, [flow[f] EXCEPT !.expired = TRUE])

\* rawGetTransaction: what a poll makes of the state of the transaction.
PollAnswers_Found(r) ==   \* mutant of PollAnswers
  CASE r.net \in {"applied", "failed"} -> {"SUCCESS", "INTERNAL"}
    [] OTHER -> IF r.server = "late" THEN {"TX_TIMEOUT"} ELSE {}

PollAnswers(r) ==
  CASE r.net = "applied" -> {"SUCCESS", "INTERNAL"}
    [] r.net = "failed" -> {"TX_FAILED"}
    [] OTHER -> IF r.server = "late" THEN {"TX_TIMEOUT"} ELSE {}

Poll(f) ==
  /\ flow[f].server \in {"poll", "late"}
  /\ \E code \in PollAnswers(flow[f]) : Reply(f, code)

PollFails(f) ==
  /\ flow[f].server \in {"poll", "late"}
  /\ Reply(f, "RPC_HTTP")

\* 30 s after the transaction was sent.
Deadline_Never(f) == FALSE   \* mutant of Deadline
Deadline(f) ==
  /\ flow[f].server = "poll"
  /\ Becomes(f, [flow[f] EXCEPT !.server = "late"])

\* The client's connection breaks, or the SDK gives up after 20 s.
LoseAnswer(f) ==
  /\ flow[f].step \in {"building", "submitting"}
  /\ Becomes(f, [flow[f] EXCEPT !.step = "error", !.answer = "NO_ANSWER"])

RelayInit ==
  /\ script \in Scripts
  /\ flow = <<>>
  /\ sequence = [a \in Account |-> 0]
  /\ executed = <<>>
  /\ spent = {}

\* What the server does of its own accord once it has a request.
Serve(f) == GetAccount(f) \/ Simulate(f) \/ Send(f) \/ Poll(f)

RelayStep(f) ==
  \/ Serve(f) \/ PollFails(f) \/ Sign(f) \/ Deadline(f) \/ LoseAnswer(f)
  \/ Drop(f) \/ Expire(f)
  \/ \E accepted \in BOOLEAN : Apply(f, accepted)

RelayNext ==
  \/ /\ Len(flow) < Len(script)
     /\ LET next == script[Len(flow) + 1] IN StartTx(next[1], next[2], next[3])
  \/ \E f \in Flows : RelayStep(f)

RelaySpec == RelayInit /\ [][RelayNext]_relayVars

\* The RPC answers each request, or fails it now and then, timers run, time bounds pass and
\* the network drops what is past its own.  Nobody has to sign.
MaxFlows == Max({Len(s) : s \in Scripts})

RelayFairness ==
  \A f \in 1..MaxFlows :
    /\ WF_relayVars(f \in Flows /\ Serve(f))
    /\ WF_relayVars(f \in Flows /\ Deadline(f))
    /\ WF_relayVars(f \in Flows /\ Expire(f))
    /\ WF_relayVars(f \in Flows /\ flow[f].expired /\ Drop(f))

RelayFairSpec == RelaySpec /\ RelayFairness

-----------------------------------------------------------------------------
(* Properties.                                                             *)

RelayTypeOK ==
  /\ sequence \in [Account -> Nat]
  /\ flow \in Seq(FlowType)
  /\ executed \in Seq(Flows)
  /\ \A f \in ToSet(executed) : LET call == CallOf(f) IN
       /\ Len(call.args) = Len(Parameters[call.entry])
       /\ \A k \in DOMAIN call.args :
            Parameters[call.entry][k] \in NumberFields => call.args[k] \in Nat

TookEffect(f) == \E k \in DOMAIN executed : executed[k] = f

\* What the contract's parameters say in the words of the request.
Meaning(parameter, value) ==
  CASE parameter = "decision" -> IF value = Approve THEN 0 ELSE 1
    [] OTHER -> value

Heard(f, name) ==
  LET call == CallOf(f)
      k == CHOOSE k \in DOMAIN call.args : Parameters[call.entry][k] = name
  IN  call.args[k]

SaysWhatWasAsked(f) ==
  \A name \in DOMAIN flow[f].asked.extra :
    /\ name \in ToSet(Parameters[CallOf(f).entry])
    /\ Heard(f, name) = Meaning(name, flow[f].asked.extra[name])

\* What takes effect, read by the contract's positions and encodings, is what
\* the panel or the SDK asked for (api.ts 675-874, soroban.ts 88-155).
ExecutedAsAsked ==
  \A f \in ToSet(executed) : flow[f].client \in {"panel", "sdk"} => SaysWhatWasAsked(f)

\* A submission ends for its client, whatever becomes of the transaction.
SubmissionsEnd ==
  \A f \in 1..MaxFlows :
    (f \in Flows /\ flow[f].step = "submitting")
      ~> (f \in Flows /\ flow[f].step \in {"done", "error"})

\* Whatever the client was told, the fate of its transaction is decided in the
\* end: it does not stay valid indefinitely (soroban.ts 263-264).
FateIsSettled ==
  \A f \in 1..MaxFlows :
    (f \in Flows /\ flow[f].net = "pooled")
      ~> (f \in Flows /\ flow[f].net \in {"applied", "failed", "dropped"})

\* Submissions and their transactions come to an end.
SubmissionsAreSettled == SubmissionsEnd /\ FateIsSettled

-----------------------------------------------------------------------------
(* What the relay promises.                                                *)

told(f) ==
  CASE flow[f].step = "done" -> "confirmed"
    [] flow[f].step = "error" -> IF flow[f].answer \in Refusals THEN "refused" ELSE "doubt"
    [] OTHER -> "nothing"

\* A transaction that is not in the pool once its submission is over is void.
fate(f) ==
  CASE TookEffect(f) -> "executed"
    [] \/ flow[f].net \in {"failed", "dropped"}
       \/ flow[f].net = "none" /\ flow[f].server = "over" -> "void"
    [] OTHER -> "open"

promised == [f \in Flows |-> [told |-> told(f), fate |-> fate(f)]]

Promise == INSTANCE RelayPromise WITH outcome <- promised

\* "Transaction confirmed" is shown only for a transaction that took effect, and
\* a refusal only of one that never will, so that the user may start again
\* without doing it twice; neither the answer nor the fate changes later.
\* Timeouts, broken connections and failures of the RPC promise nothing
\* (tx.ts 35-49, soroban.ts 288-329, api.ts 899-933).
KeepsItsPromise == Promise!PromiseSpec

-----------------------------------------------------------------------------
(* What the documentation says and the code does not do.                   *)

\* "Every argument is validated and encoded server-side" (docs/API.md 417): so
\* what takes effect is what was asked, with the front end's builders too.
BuildersAreUnderstood ==
  \A f \in ToSet(executed) : flow[f].client = "lib" => SaysWhatWasAsked(f)
=============================================================================
