----------------------------- MODULE MCIndexer -----------------------------
(* Instances of the indexer for TLC: what ledgers contain.                 *)
EXTENDS Indexer, TLC

CONSTANTS submit, admin, cli   \* what started a pass

Quiet == <<>>
One == <<"event">>
Two == <<"event", "event">>

\* With PageLimit 2, no page is full of failed calls.
Mixed == {Quiet, Two, <<"failed", "event">>, <<"event", "unnamed">>}
Plain == {Quiet, One, Two}
=============================================================================
