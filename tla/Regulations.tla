---------------------------- MODULE Regulations ----------------------------
(***************************************************************************)
(* Regulation history: classification of the policy dataset, detection of  *)
(* changes, append-only revisions, alerts and the table of current         *)
(* policies (src/backend/src/services/regulations.ts and ingest/policies.ts). *)
(*                                                                         *)
(* Ingestion is synchronous within a process, but every statement of       *)
(* change detection commits on its own and the server and `npm run ingest` *)
(* are two processes on one database: a job is one call of ingestPolicies, *)
(* cut where another process can get in between.  Ingestion.tla starts,    *)
(* ends and kills jobs.                                                    *)
(*                                                                         *)
(* "wording" stands for title, summary and sourceUrl, "category" also for  *)
(* the other fields that no alert is louder for, "signals" for both lists. *)
(***************************************************************************)
EXTENDS Integers, Sequences, FiniteSets, SequencesExt, TLC

CONSTANTS
  Policy,     \* ids of policies
  Wording,    \* texts, Malformed among them
  Malformed,  \* a text that does not pass the validation
  Signal,     \* survival signals
  Dataset,    \* bound: what data/policy-regulations.json may say
  Job         \* calls of ingestPolicies

\* The file holds a JSON array of policies.
ASSUME DatasetAssumption ==
  \A file \in Dataset :
    file \in Seq(Range(file)) /\ \A i \in DOMAIN file : file[i].id \in Policy

VARIABLES
  dataset,    \* the file: a sequence of records
  history,    \* policy |-> version |-> row of regulation_versions
  alerts,     \* rows of regulation_alerts, oldest first
  policies,   \* rows of regulatory_events: policy |-> row
  job         \* job |-> where it is

regulationVars == <<dataset, history, alerts, policies, job>>

-----------------------------------------------------------------------------
(* Classification.                                                         *)

GraveCategory == {"stablecoin-regulation", "anti-money-laundering", "sanctions"}
MarketCategory == {"crypto-markets", "securities", "cross-border-payments"}
CommonCategory == {"taxation", "consumer-protection", "data-protection", "operational-resilience"}

CategoryBase ==
  [c \in GraveCategory \cup MarketCategory \cup CommonCategory |->
     IF c \in GraveCategory THEN 4 ELSE IF c \in MarketCategory THEN 3 ELSE 2]

ScopeBonus == [global |-> 1, regional |-> 0, national |-> 0]
EnforcementBonus == [action |-> 1, warning |-> 0, none |-> -1]

\* validatePolicyRecord: a list of signals is absent or not empty.
IsValid(r) ==
  /\ r.category \in DOMAIN CategoryBase
  /\ r.scope \in DOMAIN ScopeBonus
  /\ r.enforcement \in DOMAIN EnforcementBonus
  /\ r.wording # Malformed
  /\ "signals" \in DOMAIN r => r.signals # <<>> /\ Range(r.signals) \subseteq Signal

Severity(r) ==
  LET raw == CategoryBase[r.category] + ScopeBonus[r.scope] + EnforcementBonus[r.enforcement]
  IN  Min({5, Max({1, raw})})

\* What a revision keeps of a record: neither scope nor enforcement.
toSnapshot(r) ==
  [category |-> r.category, severity |-> Severity(r), wording |-> r.wording,
   signals |-> IF "signals" \in DOMAIN r THEN r.signals ELSE <<>>]

-----------------------------------------------------------------------------
(* Change detection.                                                       *)

\* contentHash and diffSnapshots sort lists: what is left is how often each
\* signal occurs.
Canonical(s) == [s EXCEPT !.signals = ToBag(@)]

diffSnapshots(before, after) ==
  LET a == Canonical(before)
      b == Canonical(after)
  IN  [field \in {f \in DOMAIN a : a[f] # b[f]} |-> [from |-> a[field], to |-> b[field]]]

Raises(diff) == "severity" \in DOMAIN diff /\ diff.severity.to > diff.severity.from

\* Mutant of classifyChange: what got milder is announced as an escalation.
classifyChange_Either(diff) ==
  [type |-> IF "severity" \in DOMAIN diff THEN "severity-escalation" ELSE "regulation-changed",
   severity |-> "warning"]

\* classifyChange of an update; a new policy raises no alert.
classifyChange(diff) ==
  [type |-> IF Raises(diff) THEN "severity-escalation" ELSE "regulation-changed",
   severity |-> CASE Raises(diff) -> IF diff.severity.to - diff.severity.from >= 2
                                     THEN "critical" ELSE "warning"
                  [] ~Raises(diff) /\ "wording" \in DOMAIN diff -> "warning"
                  [] OTHER -> "info"]

NoDiff == [field \in {} |-> {}]

Revision(snapshot, diff, type) ==
  [snapshot |-> snapshot, changedFields |-> diff, changeType |-> type]

latestVersion(p) == IF history[p] = <<>> THEN 0 ELSE Max(DOMAIN history[p])

\* Mutants of insertVersion: the row is replaced; the row goes after the newest.
insertVersion_Upsert(p, version, row) == history' = [history EXCEPT ![p] = (version :> row) @@ @]
insertVersion_Newest(p, version, row) ==
  history' = [history EXCEPT ![p] = @ @@ (latestVersion(p) + 1 :> row)]

\* ON CONFLICT(policy_id, version) DO NOTHING: the row that is there stays.
insertVersion(p, version, row) ==
  history' = [history EXCEPT ![p] =
    [v \in DOMAIN @ \cup {version} |-> IF v \in DOMAIN @ THEN @[v] ELSE row]]

diffVersions(p, from, to) ==
  diffSnapshots(history[p][from].snapshot, history[p][to].snapshot)

-----------------------------------------------------------------------------
(* Steps of a job.                                                         *)

\* alone is no state of the program: no other job wrote since this one began.
Detecting == {"detect", "insert", "alert", "persist"}

Idle == [at |-> "idle", records |-> <<>>, next |-> 1, seen |-> 0, versions |-> NoDiff,
         diff |-> NoDiff, alone |-> FALSE]

Current(j) == job[j].records[job[j].next]
Snapshot(j) == toSnapshot(Current(j))

Goes(j, to) == job' = [job EXCEPT ![j] = to]

\* The same, with a write that the other jobs may come to notice.
GoesWriting(j, to) ==
  job' = [k \in Job |-> IF k = j THEN to ELSE [job[k] EXCEPT !.alone = FALSE]]

\* The next record, or the end of the loop.
Advanced(now, version) ==
  [now EXCEPT !.at = IF now.next = Len(now.records) THEN "persist" ELSE "detect",
              !.next = @ + 1,
              !.versions = [p \in DOMAIN @ \cup {now.records[now.next].id} |->
                              IF p = now.records[now.next].id THEN version ELSE @[p]],
              !.seen = 0, !.diff = NoDiff]

\* ingestPolicies up to the loop; a single invalid record ends it.
loadPolicyDataset(j, failed) ==
  /\ job[j].at = "load"
  /\ Goes(j, IF \A i \in DOMAIN dataset : IsValid(dataset[i])
             THEN [Idle EXCEPT !.at = IF dataset = <<>> THEN "persist" ELSE "detect",
                               !.records = dataset, !.alone = TRUE]
             ELSE failed)
  /\ UNCHANGED <<dataset, history, alerts, policies>>

\* detectRegulationChanges compares a record with the latest revision.
Compare(j) ==
  LET p == Current(j).id
      latest == latestVersion(p)
  IN  /\ job[j].at = "detect"
      /\ Goes(j,
           IF latest = 0
           THEN [job[j] EXCEPT !.at = "insert"]
           ELSE IF Canonical(history[p][latest].snapshot) = Canonical(Snapshot(j))
           THEN Advanced(job[j], latest)
           ELSE [job[j] EXCEPT !.at = "insert", !.seen = latest,
                               !.diff = diffSnapshots(history[p][latest].snapshot, Snapshot(j))])
      /\ UNCHANGED <<dataset, history, alerts, policies>>

\* The revision after the one that was read.
AddRevision(j) ==
  LET version == job[j].seen + 1
      type == IF job[j].seen = 0 THEN "new" ELSE "updated"
  IN  /\ job[j].at = "insert"
      /\ insertVersion(Current(j).id, version, Revision(Snapshot(j), job[j].diff, type))
      /\ GoesWriting(j, IF job[j].seen = 0 THEN Advanced(job[j], version)
                        ELSE [job[j] EXCEPT !.at = "alert"])
      /\ UNCHANGED <<dataset, alerts, policies>>

insertAlert(j) ==
  LET version == job[j].seen + 1
  IN  /\ job[j].at = "alert"
      /\ alerts' = Append(alerts, [policy |-> Current(j).id, version |-> version,
                                    changedFields |-> job[j].diff,
                                    class |-> classifyChange(job[j].diff),
                                    acknowledged |-> FALSE])
      /\ GoesWriting(j, Advanced(job[j], version))
      /\ UNCHANGED <<dataset, history, policies>>

\* The last record of a policy is the one that stays.
LastOf(j, id) == Max({i \in DOMAIN job[j].records : job[j].records[i].id = id})

\* Mutant of RowOf: the version that the row had.
RowOf_Kept(j, id) ==
  [snapshot |-> toSnapshot(job[j].records[LastOf(j, id)]),
   version |-> IF id \in DOMAIN policies THEN policies[id].version ELSE 1]

RowOf(j, id) ==
  [snapshot |-> toSnapshot(job[j].records[LastOf(j, id)]), version |-> job[j].versions[id]]

\* One transaction: every row is overwritten, none is deleted.  The audit record
\* that follows may throw, after everything is stored (see TxRelay.tla).
persistPolicies(j, done, failed) ==
  /\ job[j].at = "persist"
  /\ policies' = [id \in DOMAIN job[j].versions \cup DOMAIN policies |->
                    IF id \in DOMAIN job[j].versions THEN RowOf(j, id) ELSE policies[id]]
  /\ \E after \in {done, failed} : GoesWriting(j, after)
  /\ UNCHANGED <<dataset, history, alerts>>

\* POST /api/alerts/:id/acknowledge
acknowledgeAlert(i) ==
  /\ i \in DOMAIN alerts
  /\ alerts' = [alerts EXCEPT ![i].acknowledged = TRUE]
  /\ UNCHANGED <<dataset, history, policies, job>>

Edit(file) ==
  /\ dataset' = file
  /\ UNCHANGED <<history, alerts, policies, job>>

RegulationsInit ==
  /\ dataset \in Dataset
  /\ history = [p \in Policy |-> <<>>]
  /\ alerts = <<>>
  /\ policies = [p \in {} |-> 0]
  /\ job = [j \in Job |-> Idle]

Detect(j) == Compare(j) \/ AddRevision(j) \/ insertAlert(j)

-----------------------------------------------------------------------------
(* Properties.                                                             *)

\* Whatever names a revision, an alert or a row of a current policy, names one
\* that is stored.
RegulationsTypeOK ==
  /\ dataset \in Dataset
  /\ \A p \in Policy : DOMAIN history[p] \subseteq Nat \ {0}
  /\ \A i \in DOMAIN alerts :
       alerts[i].policy \in Policy /\ alerts[i].version \in DOMAIN history[alerts[i].policy]
  /\ \A p \in DOMAIN policies : p \in Policy /\ policies[p].version \in DOMAIN history[p]
  /\ \A j \in Job : job[j].next \in 1..(Len(job[j].records) + 1)

\* However jobs overlap, fail and die, the revisions of a policy count 1, 2, 3...;
\* the first is new, and each later one says exactly, and not in vain, what is
\* different from the one before it (regulations.ts 302-356).
RevisionsTellTheChange ==
  \A p \in Policy : \A v \in DOMAIN history[p] :
    LET row == history[p][v]
    IN  IF v = 1
        THEN row.changeType = "new" /\ DOMAIN row.changedFields = {}
        ELSE /\ v - 1 \in DOMAIN history[p]
             /\ row.changeType = "updated"
             /\ row.changedFields = diffVersions(p, v - 1, v)
             /\ DOMAIN row.changedFields # {}

\* A revision that was seen once stays as it was, and an alert too, but for its
\* acknowledgement, which is never taken back (docs/DATA.md:67).
NothingIsRewritten ==
  [][/\ \A p \in Policy : \A v \in DOMAIN history[p] :
          v \in DOMAIN history'[p] /\ history'[p][v] = history[p][v]
     /\ \A i \in DOMAIN alerts :
          /\ i \in DOMAIN alerts'
          /\ alerts'[i] \in {alerts[i], [alerts[i] EXCEPT !.acknowledged = TRUE]}]_regulationVars

\* A job during which nobody else wrote leaves the current policies, the latest
\* revisions and its file in agreement, also when it repairs what jobs left
\* behind that were cut off or overlapped (regulations.ts 302-356, policies.ts 199-251).
JobsConverge ==
  [][\A j \in Job : job[j].at # job'[j].at /\ job[j].alone /\ policies' # policies =>
       \A p \in {job[j].records[i].id : i \in DOMAIN job[j].records} :
         LET row == policies'[p] IN
         /\ \E i \in DOMAIN job[j].records :
              job[j].records[i].id = p /\ row.snapshot = toSnapshot(job[j].records[i])
         /\ row.version = latestVersion(p)
         /\ Canonical(row.snapshot) = Canonical(history[p][latestVersion(p)].snapshot)]_regulationVars
=============================================================================
