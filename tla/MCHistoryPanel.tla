--------------------------- MODULE MCHistoryPanel ---------------------------
(***************************************************************************)
(* Instances of HistoryPanel for TLC: policies that are new, escalate, are *)
(* reworded, only reordered or invalid, and one that a file lists twice.   *)
(***************************************************************************)
EXTENDS HistoryPanel

CONSTANTS seed1, p1, p2, sig1, sig2, calm, urgent

Record(id, category, scope, enforcement, wording) ==
  [id |-> id, category |-> category, scope |-> scope, enforcement |-> enforcement,
   wording |-> wording]

With(signals, r) == [signals |-> signals] @@ r

Mild == Record(p1, "taxation", "national", "warning", calm)
Other == Record(p2, "securities", "global", "none", calm)

First == <<With(<<sig1, sig2>>, Mild), Other>>
Reordered == <<With(<<sig2, sig1>>, Mild), Other>>
Worse == <<With(<<sig1>>, Record(p1, "sanctions", "global", "action", calm)), Other>>
Reworded == <<With(<<sig1>>, Record(p1, "crypto-markets", "regional", "none", urgent))>>
Invalid == <<Record(p1, "taxation", "national", "warning", Malformed), Other>>
Twice == <<Mild, Record(p1, "taxation", "regional", "action", urgent)>>

EveryFile == {First, Reordered, Worse, Reworded, Invalid, Twice, <<Mild>>, <<Other>>}

Open(labels, title) == [labels |-> labels, title |-> title]

Before == (1 :> Open({"medium"}, "fine")) @@ (2 :> Open({"points-500", "large"}, "draft"))
            @@ (3 :> Open({}, "fine"))
Later == (1 :> Open({"points-500"}, "fine")) @@ (3 :> Open({"large"}, "fine"))
           @@ (4 :> Open({}, "fine"))
Terse == 5 :> Open({"medium"}, "short")
Drafts == 6 :> Open({"points-500"}, "draft")

Budget(files, hub, jobs, edits, pushes, acks, clicks, faults) ==
  [files |-> files, github |-> hub, jobs |-> jobs, edits |-> edits, pushes |-> pushes,
   acks |-> acks, clicks |-> clicks, faults |-> faults, indexes |-> FALSE]

EveryBudget ==
  {Budget({First, Worse}, {Before}, 2, 1, 0, 0, 0, 0),
   Budget({First, Reordered, Twice}, {Before}, 1, 1, 0, 0, 0, 0),
   Budget({Worse, Invalid}, {Before}, 1, 1, 0, 0, 0, 1),
   Budget({<<Other>>}, {Before, Later, Terse, Drafts}, 2, 0, 1, 0, 0, 1),
   Budget({<<Mild>>, Reworded}, {Terse}, 1, 1, 0, 1, 2, 0),
   [Budget({First}, {Before, Drafts}, 1, 0, 1, 0, 1, 1) EXCEPT !.indexes = TRUE]}
=============================================================================
