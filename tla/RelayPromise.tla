---------------------------- MODULE RelayPromise ----------------------------
(***************************************************************************)
(* What the relay of transactions promises to whoever runs one, whatever   *)
(* is lost, late or repeated between the wallet and the network.  TxRelay  *)
(* implements it; Dashboard is built on it.                                *)
(***************************************************************************)
EXTENDS Sequences

VARIABLE outcome   \* per run: what its client was told, what becomes of it

Outcome ==
  [told: {"nothing", "confirmed", "refused", "doubt"}, fate: {"open", "executed", "void"}]

Runs == DOMAIN outcome

Begun == [told |-> "nothing", fate |-> "open"]

\* What is told and decided is final; a confirmation is told only of what took
\* effect, a refusal only of what never will.
May(was, is) ==
  /\ was.fate # "open" => is.fate = was.fate
  /\ was.told # "nothing" => is.told = was.told
  /\ is.told = "confirmed" => is.fate = "executed"
  /\ is.told = "refused" => is.fate = "void"

Begin == outcome' = Append(outcome, Begun)

Proceed(f) ==
  \E is \in Outcome : May(outcome[f], is) /\ outcome' = [outcome EXCEPT ![f] = is]

PromiseInit == outcome = <<>>
PromiseNext == Begin \/ \E f \in Runs : Proceed(f)

PromiseSpec == PromiseInit /\ [][PromiseNext]_outcome
=============================================================================
