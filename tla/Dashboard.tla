----------------------------- MODULE Dashboard -----------------------------
(***************************************************************************)
(* The dashboard (src/src/App.tsx) with the panels that make transactions, *)
(* BountyForm, MilestonePanel and GovernancePanel, each by runTx, of which *)
(* RelayPromise.tla says what can be told of it.                           *)
(*                                                                         *)
(* The app shows its panels only when it is ready, so that every loadAll   *)
(* takes them away and new ones come after it.  Calls that are under way   *)
(* go on: what they set in a panel that is gone is lost, what they do      *)
(* afterwards is not.                                                      *)
(*                                                                         *)
(* An answer about milestones is known by the runs that had taken effect   *)
(* when the ledger was read; without such a reading it has disputes but no *)
(* milestones.  Texts and links are left out; one account is connected    *)
(* throughout, and its wallet need not ever sign.                          *)
(***************************************************************************)
EXTENDS RelayPromise, Integers, SequencesExt

CONSTANTS
  Issue,      \* the bounties listed
  MaxRuns,    \* bound: transactions
  MaxClicks,  \* bound: selections, refreshes and retries
  None

ASSUME DashboardAssumption == MaxRuns \in Nat /\ MaxClicks \in Nat

VARIABLES
  app,       \* state of App; "closed" when there is no dashboard
  pending,   \* calls of loadAll that are not over
  error,     \* is there an error, and so a button to retry
  listed,    \* are the bounties there
  selected,  \* MilestonePanel: issueId
  view,      \* MilestonePanel: view
  loading,   \* MilestonePanel: loading
  asking,    \* its requests, in the order in which they were made
  run,       \* per run: its panel, and where `run` or `act` is
  standing,  \* runs whose panel is still there
  clicks

panelVars == <<selected, view, loading, asking, standing>>
dashVars == <<outcome, app, pending, error, listed, panelVars, run, clicks>>

Panels == {"form", "milestones", "governance"}
Ready == app = "ready"
Executed == {f \in Runs : outcome[f].fate = "executed"}

\* Panels whose step is neither idle nor done.
Busy == {run[f].panel : f \in {f \in standing : run[f].phase = "running"}}

-----------------------------------------------------------------------------
(* App.                                                                    *)

Unmounted ==
  selected' = None /\ view' = None /\ loading' = FALSE /\ asking' = <<>> /\ standing' = {}

loadAll ==
  /\ pending' = pending + 1 /\ app' = "loading" /\ error' = FALSE
  /\ Unmounted
  /\ UNCHANGED listed

Open ==
  /\ app = "closed"
  /\ loadAll
  /\ UNCHANGED <<outcome, run, clicks>>

\* Mutant of StateAfter: that everything failed is not looked at.
StateAfter_Waits(answered) == IF answered = {} THEN "loading" ELSE "ready"

StateAfter(answered) == IF answered = {} THEN "error" ELSE "ready"

Asking(issue) == [issue |-> issue, answer |-> None]

First == CHOOSE i \in Issue : TRUE

\* All answers of a loadAll are there, or have failed; a success leaves the error
\* of a load that overlapped it.  The milestone panel selects the first bounty,
\* and loads it, as soon as there is one.
Loaded ==
  /\ pending > 0
  /\ pending' = pending - 1
  /\ \E answered \in SUBSET {"bounties", "others"} :
       LET selecting == selected = None /\ Issue # {} /\ (listed \/ "bounties" \in answered)
       IN  /\ app' = StateAfter(answered)
           /\ listed' = (listed \/ "bounties" \in answered)
           /\ error' = (error \/ answered # {"bounties", "others"})
           /\ IF app' # "ready" THEN Unmounted
              ELSE /\ selected' = IF selecting THEN First ELSE selected
                   /\ loading' = (loading \/ selecting)
                   /\ asking' = IF selecting THEN Append(asking, Asking(First)) ELSE asking
                   /\ UNCHANGED <<view, standing>>
  /\ UNCHANGED <<outcome, run, clicks>>

Click == clicks < MaxClicks /\ clicks' = clicks + 1

Retry ==
  /\ app = "error" \/ (Ready /\ error)
  /\ Click
  /\ loadAll
  /\ UNCHANGED <<outcome, run>>

-----------------------------------------------------------------------------
(* MilestonePanel.                                                         *)

load(issue) == loading' = TRUE /\ asking' = Append(asking, Asking(issue))

\* What is shown stays until the answer is there.
Select(i) ==
  /\ Ready /\ listed /\ i # selected
  /\ Click
  /\ selected' = i
  /\ load(i)
  /\ UNCHANGED <<outcome, app, pending, error, listed, view, standing, run>>

Refresh ==
  /\ Ready /\ selected # None /\ ~loading
  /\ Click
  /\ load(selected)
  /\ UNCHANGED <<outcome, app, pending, error, listed, selected, view, standing, run>>

\* The server reads the ledger, or cannot.
ReadMilestones(k) ==
  /\ asking[k].answer = None
  /\ \E verified \in BOOLEAN :
       asking' = [asking EXCEPT ![k].answer =
                    [issue |-> asking[k].issue, verified |-> verified, seen |-> Executed]]
  /\ UNCHANGED <<outcome, app, pending, error, listed, selected, view, loading, standing, run, clicks>>

\* An answer arrives, whatever was asked for since, or the request has failed.
ArriveMilestones(k) ==
  /\ asking[k].answer # None
  /\ view' \in {asking[k].answer, None}
  /\ loading' = FALSE
  /\ asking' = RemoveAt(asking, k)
  /\ UNCHANGED <<outcome, app, pending, error, listed, selected, standing, run, clicks>>

-----------------------------------------------------------------------------
(* Transactions.                                                           *)

\* The buttons are disabled while the panel is busy; those of the milestone panel
\* belong to what it shows.
MayAct(p) == Ready /\ p \notin Busy /\ (p = "milestones" => view # None)

Act(p) ==
  /\ Len(outcome) < MaxRuns
  /\ MayAct(p)
  /\ Begin
  /\ run' = Append(run, [panel |-> p, phase |-> "running"])
  /\ standing' = standing \cup {Len(outcome) + 1}
  /\ UNCHANGED <<app, pending, error, listed, selected, view, loading, asking, clicks>>

\* The relay goes on.
Relay(f) ==
  /\ outcome[f].fate = "open" \/ outcome[f].told = "nothing"
  /\ Proceed(f)
  /\ UNCHANGED <<app, pending, error, listed, panelVars, run, clicks>>

\* An error makes the panel idle; after a success the form goes on to onDone at
\* once, the other two when they have loaded what they show.
PhaseAfter(f) ==
  CASE outcome[f].told # "confirmed" -> "over"
    [] run[f].panel = "form" -> "loaded"
    [] OTHER -> "loading"

Finish(f) ==
  /\ run[f].phase = "running" /\ outcome[f].told # "nothing"
  /\ run' = [run EXCEPT ![f].phase = PhaseAfter(f)]
  /\ loading' = (loading \/ (f \in standing /\ run[f].panel = "milestones" /\ run'[f].phase = "loading"))
  /\ UNCHANGED <<outcome, app, pending, error, listed, selected, view, asking, standing, clicks>>

\* Mutant of onDone: only a panel that is still there has the app load anew.
onDone_Standing(f) == IF f \in standing THEN loadAll ELSE UNCHANGED <<app, pending, error, listed, panelVars>>

\* refresh, also for a panel that is gone.
onDone(f) == loadAll

\* The load that a run awaits never throws; what it set goes with the panel.
Done(f) ==
  /\ run[f].phase \in {"loading", "loaded"}
  /\ run' = [run EXCEPT ![f].phase = "over"]
  /\ onDone(f)
  /\ UNCHANGED <<outcome, clicks>>

DashInit ==
  /\ PromiseInit
  /\ app = "closed" /\ pending = 0 /\ error = FALSE /\ listed = FALSE
  /\ selected = None /\ view = None /\ loading = FALSE /\ asking = <<>>
  /\ run = <<>> /\ standing = {} /\ clicks = 0

DashNext ==
  \/ Open \/ Loaded \/ Retry \/ Refresh
  \/ \E i \in Issue : Select(i)
  \/ \E k \in DOMAIN asking : ReadMilestones(k) \/ ArriveMilestones(k)
  \/ \E p \in Panels : Act(p)
  \/ \E f \in Runs : Relay(f) \/ Finish(f) \/ Done(f)

\* Requests are answered or fail; nobody has to sign.
DashFairness ==
  /\ WF_dashVars(Loaded)
  /\ \A f \in 1..MaxRuns : WF_dashVars(f \in Runs /\ (Finish(f) \/ Done(f)))

DashSpec == DashInit /\ [][DashNext]_dashVars /\ DashFairness

-----------------------------------------------------------------------------
(* Properties.                                                             *)

DashboardTypeOK ==
  /\ outcome \in Seq(Outcome) /\ Len(outcome) <= MaxRuns /\ Len(run) = Len(outcome)
  /\ app \in {"closed", "loading", "ready", "error"}
  /\ app = "loading" => pending > 0
  /\ pending \in 0..(1 + MaxRuns + MaxClicks)
  /\ selected \in Issue \cup {None}
  /\ view = None \/ view \in [issue: Issue, verified: BOOLEAN, seen: SUBSET Runs]
  /\ standing \subseteq Runs
  /\ ~Ready => standing = {} /\ view = None /\ asking = <<>>

\* Loads are not cancelled and their answers come in any order; still, once a
\* confirmed run called onDone no panel shows a verified state from before it,
\* because older answers are for panels that are gone (App.tsx 55-56, 127-171,
\* MilestonePanel.tsx 39-55).
VerifiedViewsKeepUp ==
  \A f \in Runs :
    outcome[f].told = "confirmed" /\ run[f].phase = "over" /\ view # None /\ view.verified
      => f \in view.seen

\* However reloads overlap and panels come and go, a run that was told its
\* outcome ends, and the dashboard comes back with its panels or with an error
\* and a way to retry (App.tsx 59-96, MilestonePanel.tsx 60-75).
DashboardComesBack ==
  \A f \in 1..MaxRuns :
    (f \in Runs /\ outcome[f].told # "nothing")
      ~> (f \in Runs /\ run[f].phase = "over" /\ app \in {"ready", "error"})

-----------------------------------------------------------------------------
(* What the documentation says and the code does not do.                   *)

\* "shows milestones, reviewer tally and the actions a signer/reviewer may take"
\* (src/src/test/v2-panels.test.tsx 66): the buttons beside milestones, which
\* ask for something about the bounty selected, are beside its milestones.
ActionsAreForWhatIsShown ==
  MayAct("milestones") /\ view.verified => view.issue = selected
=============================================================================
