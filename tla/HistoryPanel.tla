---------------------------- MODULE HistoryPanel ----------------------------
(***************************************************************************)
(* The regulation history panel of the dashboard                           *)
(* (src/src/components/RegulationHistoryPanel.tsx) in front of the routes  *)
(* of src/backend/src/routes/api.ts that read the tables of Regulations.   *)
(*                                                                         *)
(* Every click starts a flow that awaits its answers one after the other;  *)
(* nothing cancels a flow or orders two of them.  An answer shows the      *)
(* tables at the time the server reads them and may come late or be lost.  *)
(***************************************************************************)
EXTENDS Ingestion

CONSTANTS None

VARIABLES
  flows,     \* clicks that wait for an answer: flow |-> where it is
  shown      \* state of the panel

panelVars == <<ingestionVars, flows, shown>>

Nothing == [selected |-> None, diff |-> None, alerts |-> <<>>, versions |-> {}]

\* A flow asks for something, and the server's answer lies in "answer" until it
\* arrives.
Asks(what, args) == [asks |-> what, args |-> args, answer |-> None]

Done == Asks("done", None)

Start(flow) == Spend("clicks") /\ flows' = Append(flows, flow)

tablesUnchanged == UNCHANGED <<regulationVars, server, github, issues, issueJob, kills, failures>>

-----------------------------------------------------------------------------
(* Clicks.                                                                 *)

\* On mount, and after an acknowledgement.
Load ==
  /\ Start(Asks("lists", None))
  /\ tablesUnchanged /\ UNCHANGED shown

showHistory(p) ==
  /\ Start(Asks("versions", [policy |-> p]))
  /\ shown' = [shown EXCEPT !.selected = p, !.diff = None]
  /\ tablesUnchanged

\* Mutant of ack: shown before it is done.
ack_Optimistic(i) ==
  /\ i \in DOMAIN shown.alerts /\ ~shown.alerts[i].acknowledged
  /\ Start(Asks("ack", [alert |-> i]))
  /\ shown' = [shown EXCEPT !.alerts[i].acknowledged = TRUE]
  /\ tablesUnchanged

\* The button of an alert that is not shown as acknowledged.
ack(i) ==
  /\ i \in DOMAIN shown.alerts /\ ~shown.alerts[i].acknowledged
  /\ Start(Asks("ack", [alert |-> i]))
  /\ tablesUnchanged /\ UNCHANGED shown

-----------------------------------------------------------------------------
(* Answers.                                                                *)

\* GET /api/regulations/versions and GET /api/alerts: two requests, each of
\* which may fail.
Listed == UNION {{<<p, v>> : v \in DOMAIN history[p]} : p \in Policy}

AnswersLists ==
  {[versions |-> v, alerts |-> a] : v \in {None, Listed}, a \in {None, alerts}}

\* GET /api/regulations/:policyId/versions: newest first.
listVersions(p) == Reverse([v \in 1..Cardinality(DOMAIN history[p]) |-> v])

\* GET /api/regulations/:policyId/diff: 404, here no changes, when a revision is
\* not there.
RegulationDiff(args) ==
  IF {args.from, args.to} \subseteq DOMAIN history[args.policy]
  THEN [args EXCEPT !.changes = diffVersions(args.policy, args.from, args.to)]
  ELSE args

Serve(f) ==
  /\ server = "up"
  /\ flows[f].answer = None
  /\ \/ /\ flows[f].asks = "lists"
        /\ \E answer \in AnswersLists : flows' = [flows EXCEPT ![f].answer = answer]
        /\ UNCHANGED regulationVars
     \/ /\ flows[f].asks = "versions"
        /\ flows' = [flows EXCEPT ![f].answer = listVersions(flows[f].args.policy)]
        /\ UNCHANGED regulationVars
     \/ /\ flows[f].asks = "diff"
        /\ flows' = [flows EXCEPT ![f].answer = RegulationDiff(flows[f].args)]
        /\ UNCHANGED regulationVars
     \/ /\ flows[f].asks = "ack"
        /\ flows' = [flows EXCEPT ![f].answer = "acknowledged"]
        /\ acknowledgeAlert(flows[f].args.alert)
  /\ UNCHANGED <<server, github, issues, issueJob, left, kills, failures, shown>>

\* The panel takes the last two of the list for the latest ones.
PairOf(p, versions) ==
  [policy |-> p, from |-> versions[Len(versions) - 1], to |-> versions[Len(versions)],
   changes |-> None]

Arrive(f) ==
  LET flow == flows[f]
      answer == flow.answer
      Next(step) == flows' = [flows EXCEPT ![f] = step]
  IN  /\ answer # None
      /\ \/ /\ flow.asks = "lists"
            /\ shown' = [shown EXCEPT
                 !.versions = IF answer.versions = None THEN @ ELSE answer.versions,
                 !.alerts = IF answer.alerts = None THEN @ ELSE answer.alerts]
            /\ Next(Done)
         \/ /\ flow.asks = "versions"
            /\ Next(IF Len(answer) >= 2 THEN Asks("diff", PairOf(flow.args.policy, answer))
                    ELSE Done)
            /\ UNCHANGED shown
         \/ /\ flow.asks = "diff"
            /\ shown' = [shown EXCEPT !.diff = IF answer.changes = None THEN None ELSE answer]
            /\ Next(Done)
         \/ /\ flow.asks = "ack"
            /\ Next(Asks("lists", None))
            /\ UNCHANGED shown
      /\ tablesUnchanged /\ UNCHANGED left

\* A request or an answer is lost.
Lose(f) ==
  /\ flows[f].asks # "done"
  /\ flows' = [flows EXCEPT ![f] = Done]
  /\ shown' = IF flows[f].asks \in {"versions", "diff"} THEN [shown EXCEPT !.diff = None]
              ELSE shown
  /\ tablesUnchanged /\ UNCHANGED left

PanelInit == IngestionInit /\ flows = <<>> /\ shown = Nothing

PanelNext ==
  \/ IngestionNext /\ UNCHANGED <<flows, shown>>
  \/ Load
  \/ \E p \in {alerts[i].policy : i \in DOMAIN shown.alerts} \cup {v[1] : v \in shown.versions} :
       showHistory(p)
  \/ \E i \in DOMAIN shown.alerts : ack(i)
  \/ \E f \in DOMAIN flows : Serve(f) \/ Arrive(f) \/ Lose(f)

PanelSpec == PanelInit /\ [][PanelNext]_panelVars

\* Fairness of ingestion only: answers may stay away.
PanelFairSpec ==
  /\ PanelSpec
  /\ WF_panelVars(BootServer /\ UNCHANGED <<flows, shown>>)
  /\ WF_panelVars((Listen \/ StopAtIndexer) /\ UNCHANGED <<flows, shown>>)
  /\ \A j \in Job : WF_panelVars(JobSteps(j) /\ UNCHANGED <<flows, shown>>)

-----------------------------------------------------------------------------
(* Properties.                                                             *)

\* Whatever answers come late, out of order or not at all, the panel shows a
\* difference between two neighbouring revisions as they are stored, and no alert
\* as acknowledged that is not (RegulationHistoryPanel.tsx 31-70).
ShownIsStored ==
  /\ shown.diff # None =>
       /\ {shown.diff.from, shown.diff.to} \subseteq DOMAIN history[shown.diff.policy]
       /\ shown.diff.from - shown.diff.to \in {-1, 1}
       /\ shown.diff.changes = diffVersions(shown.diff.policy, shown.diff.from, shown.diff.to)
  /\ \A i \in DOMAIN shown.alerts :
       /\ i \in DOMAIN alerts
       /\ shown.alerts[i].acknowledged => alerts[i].acknowledged
  /\ \A v \in shown.versions : v[2] \in DOMAIN history[v[1]]

-----------------------------------------------------------------------------
(* What the panel says and does not do.                                    *)

\* "Latest change" (RegulationHistoryPanel.tsx:168), with a column "Before" and a
\* column "After": what comes after is the younger revision.
ChangeIsShownForwards == shown.diff # None => shown.diff.from < shown.diff.to
=============================================================================
