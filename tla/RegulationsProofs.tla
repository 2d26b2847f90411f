------------------------- MODULE RegulationsProofs -------------------------
(***************************************************************************)
(* Proofs about the regulation history, for any policies, files and number *)
(* of jobs, wherever they are cut and killed (Ingestion.tla), and about    *)
(* the panel that shows it (HistoryPanel.tla).                             *)
(***************************************************************************)
EXTENDS HistoryPanel, FiniteSetTheorems, WellFoundedInduction, TLAPS

\* A history without gaps: the latest version is its length.
LEMMA LatestOfHistory ==
  ASSUME NEW p, NEW n \in Nat, history[p] = [v \in 1..n |-> history[p][v]]
  PROVE  latestVersion(p) = n
<1>1. CASE n = 0
  <2>1. history[p] = <<>>
    BY <1>1
  <2>2. QED
    BY <1>1, <2>1 DEF latestVersion
<1>2. CASE n # 0
  <2>1. DOMAIN history[p] = 1..n /\ n \in 1..n /\ history[p] # <<>>
    BY <1>2
  <2>2. \A m \in 1..n : (\A k \in 1..n : m >= k) => m = n
    BY <1>2
  <2>3. \A k \in 1..n : n >= k
    OBVIOUS
  <2>4. QED
    BY <2>1, <2>2, <2>3 DEF latestVersion, Max
<1>3. QED
  BY <1>1, <1>2

-----------------------------------------------------------------------------
(* The invariant.                                                          *)

IsSnapshot(s) ==
  s = [category |-> s.category, severity |-> s.severity, wording |-> s.wording,
       signals |-> s.signals]

JobField == {"at", "records", "next", "seen", "versions", "diff", "alone"}

IsJob(r) == r = [f \in JobField |-> r[f]]

\* Rows of a history h without gaps, each telling the change.
Tells(h) ==
  \A v \in DOMAIN h :
    /\ IsSnapshot(h[v].snapshot)
    /\ v = 1 => h[v].changeType = "new" /\ DOMAIN h[v].changedFields = {}
    /\ v # 1 =>
         /\ v - 1 \in DOMAIN h
         /\ h[v].changeType = "updated"
         /\ h[v].changedFields = diffSnapshots(h[v - 1].snapshot, h[v].snapshot)
         /\ DOMAIN h[v].changedFields # {}

HistoryOK(h) == \E n \in Nat : h = [v \in 1..n |-> h[v]] /\ Tells(h)

\* What a job is about to insert is the change from the revision it has seen in
\* the histories hs, which may no longer be the latest.
Sound(r, hs) ==
  /\ r.at = "detect" => r.seen = 0 /\ r.diff = NoDiff
  /\ r.at = "insert" /\ r.records[r.next].id \in Policy =>
       LET h == hs[r.records[r.next].id]
       IN  \/ r.seen = 0 /\ r.diff = NoDiff
           \/ /\ r.seen \in DOMAIN h
              /\ r.diff = diffSnapshots(h[r.seen].snapshot, toSnapshot(r.records[r.next]))
              /\ DOMAIN r.diff # {}

RevisionInv ==
  /\ history = [p \in Policy |-> history[p]]
  /\ \A p \in Policy : HistoryOK(history[p])
  /\ job = [j \in Job |-> job[j]]
  /\ \A j \in Job : IsJob(job[j]) /\ Sound(job[j], history)

\* No revision of the histories hs is lost or changed in the histories is.
Kept(hs, is) ==
  \A p \in Policy : \A v \in DOMAIN hs[p] : v \in DOMAIN is[p] /\ is[p][v] = hs[p][v]

-----------------------------------------------------------------------------
(* Snapshots.                                                              *)

LEMMA SnapshotOfRecord == ASSUME NEW r PROVE IsSnapshot(toSnapshot(r))
BY DEF IsSnapshot, toSnapshot

\* Snapshots that differ have a difference to tell.
LEMMA DifferenceIsTold ==
  ASSUME NEW s, NEW t, IsSnapshot(s), IsSnapshot(t), Canonical(s) # Canonical(t)
  PROVE  DOMAIN diffSnapshots(s, t) # {}
<1> DEFINE a == Canonical(s)
           b == Canonical(t)
           F == {"category", "severity", "wording", "signals"}
<1>1. a = [f \in F |-> a[f]]
  BY DEF Canonical, IsSnapshot
<1>2. b = [f \in F |-> b[f]]
  BY DEF Canonical, IsSnapshot
<1>3. DOMAIN a = F
  BY DEF Canonical, IsSnapshot
<1>4. DOMAIN diffSnapshots(s, t) = {f \in DOMAIN a : a[f] # b[f]}
  BY DEF diffSnapshots
<1> HIDE DEF a, b, F
<1>5. PICK f \in F : a[f] # b[f]
  <2>1. a # b
    BY DEF a, b
  <2>2. QED
    BY <1>1, <1>2, <2>1
<1>6. QED
  BY <1>3, <1>4, <1>5

-----------------------------------------------------------------------------
(* Jobs.                                                                   *)

\* A row that was seen stays, so that what a job found out stays true.
LEMMA SoundStays ==
  ASSUME NEW hs, NEW is, Kept(hs, is), NEW r, Sound(r, hs)
  PROVE  Sound(r, is)
BY DEF Sound, Kept

LEMMA AloneStays ==
  ASSUME NEW hs, NEW r, IsJob(r), Sound(r, hs)
  PROVE  IsJob([r EXCEPT !.alone = FALSE]) /\ Sound([r EXCEPT !.alone = FALSE], hs)
<1> DEFINE s == [r EXCEPT !.alone = FALSE]
<1>1. /\ IsJob(s) /\ s.at = r.at /\ s.seen = r.seen /\ s.diff = r.diff
      /\ s.records = r.records /\ s.next = r.next
  BY DEF IsJob, JobField
<1> HIDE DEF s
<1>2. Sound(s, hs)
  BY <1>1 DEF Sound
<1>3. QED
  BY <1>1, <1>2 DEF s

\* One job goes on; others may notice that it wrote.
LEMMA JobGoes ==
  ASSUME RevisionInv, Kept(history, history'), NEW j \in Job, NEW to,
         IsJob(to), Sound(to, history'), Goes(j, to) \/ GoesWriting(j, to)
  PROVE  /\ job' = [k \in Job |-> job'[k]]
         /\ \A k \in Job : IsJob(job'[k]) /\ Sound(job'[k], history')
<1>1. job' = [k \in Job |-> job'[k]]
  BY DEF RevisionInv, Goes, GoesWriting
<1>2. job'[j] = to
  BY DEF RevisionInv, Goes, GoesWriting
<1>3. ASSUME NEW k \in Job \ {j}
      PROVE  IsJob(job'[k]) /\ Sound(job'[k], history')
  <2>1. IsJob(job[k]) /\ Sound(job[k], history')
    BY SoundStays DEF RevisionInv
  <2>2. job'[k] = job[k] \/ job'[k] = [job[k] EXCEPT !.alone = FALSE]
    BY DEF RevisionInv, Goes, GoesWriting
  <2>3. QED
    BY <2>1, <2>2, AloneStays
<1>4. QED
  BY <1>1, <1>2, <1>3

\* A job that goes somewhere else than to a revision says nothing of the history.
LEMMA ElsewhereIsSound ==
  ASSUME NEW r, NEW hs, r.at \notin {"detect", "insert"}
  PROVE  Sound(r, hs)
BY DEF Sound

LEMMA AtIsJob ==
  ASSUME NEW where
  PROVE  IsJob(At(where)) /\ At(where).at = where
BY DEF At, Idle, IsJob, JobField

LEMMA AdvancedIsSound ==
  ASSUME NEW hs, NEW r, IsJob(r), NEW version
  PROVE  IsJob(Advanced(r, version)) /\ Sound(Advanced(r, version), hs)
<1> DEFINE s == Advanced(r, version)
<1>1. IsJob(s) /\ s.at \in {"persist", "detect"} /\ s.seen = 0 /\ s.diff = NoDiff
  BY DEF Advanced, IsJob, JobField
<1> HIDE DEF s
<1>2. Sound(s, hs)
  BY <1>1 DEF Sound
<1>3. QED
  BY <1>1, <1>2 DEF s

\* The history is not written and one job goes on.
LEMMA QuietStep ==
  ASSUME RevisionInv, UNCHANGED history, NEW j \in Job, NEW to,
         IsJob(to), Sound(to, history), Goes(j, to) \/ GoesWriting(j, to)
  PROVE  RevisionInv' /\ Kept(history, history')
<1>1. Kept(history, history')
  BY DEF Kept
<1>2. Sound(to, history')
  OBVIOUS
<1>3. QED
  BY <1>1, <1>2, JobGoes DEF RevisionInv

-----------------------------------------------------------------------------
(* Steps of a job.                                                         *)

LEMMA LoadKeeps ==
  ASSUME RevisionInv, NEW j \in Job, NEW failed, IsJob(failed), failed.at \notin {"detect", "insert"},
         loadPolicyDataset(j, failed)
  PROVE  RevisionInv' /\ Kept(history, history')
<1> DEFINE to == [Idle EXCEPT !.at = IF dataset = <<>> THEN "persist" ELSE "detect",
                              !.records = dataset, !.alone = TRUE]
<1>1. IsJob(to) /\ to.seen = 0 /\ to.diff = NoDiff /\ to.at \in {"persist", "detect"}
  BY DEF Idle, IsJob, JobField
<1>2. (Goes(j, to) \/ Goes(j, failed)) /\ UNCHANGED history
  BY DEF loadPolicyDataset
<1> HIDE DEF to
<1>3. Sound(to, history)
  BY <1>1 DEF Sound
<1>4. QED
  BY <1>1, <1>2, <1>3, ElsewhereIsSound, QuietStep

LEMMA CompareKeeps ==
  ASSUME RevisionInv, NEW j \in Job, Compare(j)
  PROVE  RevisionInv' /\ Kept(history, history')
<1> DEFINE r == job[j]
           p == Current(j).id
           latest == latestVersion(p)
           diff == diffSnapshots(history[p][latest].snapshot, Snapshot(j))
           first == [r EXCEPT !.at = "insert"]
           next == [r EXCEPT !.at = "insert", !.seen = latest, !.diff = diff]
<1>1. IsJob(r) /\ Sound(r, history) /\ r.at = "detect" /\ UNCHANGED history
  BY DEF RevisionInv, Compare
<1>2. r.seen = 0 /\ r.diff = NoDiff /\ p = r.records[r.next].id
  BY <1>1 DEF Sound, Current
<1>3. CASE Goes(j, first)
  <2>1. /\ IsJob(first) /\ first.at = "insert" /\ first.seen = 0 /\ first.diff = NoDiff
    BY <1>1, <1>2 DEF IsJob, JobField
  <2> HIDE DEF first
  <2>2. Sound(first, history)
    BY <2>1 DEF Sound
  <2>3. QED
    BY <1>1, <1>3, <2>1, <2>2, QuietStep
<1>4. CASE Goes(j, Advanced(r, latest))
  BY <1>1, <1>4, AdvancedIsSound, QuietStep
<1>5. CASE /\ latest # 0 /\ Goes(j, next)
           /\ Canonical(history[p][latest].snapshot) # Canonical(Snapshot(j))
  <2>1. /\ IsJob(next) /\ next.at = "insert" /\ next.seen = latest /\ next.diff = diff
        /\ next.records = r.records /\ next.next = r.next
    <3> HIDE DEF latest, diff
    <3> QED
      BY <1>1 DEF IsJob, JobField
  <2>2. ASSUME p \in Policy
        PROVE  /\ latest \in DOMAIN history[p]
               /\ DOMAIN diff # {}
    <3>1. PICK n \in Nat : history[p] = [v \in 1..n |-> history[p][v]] /\ Tells(history[p])
      BY <2>2 DEF RevisionInv, HistoryOK
    <3>2. latest = n
      BY <3>1, LatestOfHistory
    <3>3. latest \in DOMAIN history[p]
      BY <1>5, <3>1, <3>2
    <3>4. IsSnapshot(history[p][latest].snapshot) /\ IsSnapshot(Snapshot(j))
      BY <3>1, <3>3, SnapshotOfRecord DEF Tells, Snapshot
    <3>5. QED
      BY <1>5, <3>3, <3>4, DifferenceIsTold
  <2>3. Sound(next, history)
    <3> HIDE DEF next
    <3> QED
      BY <1>2, <2>1, <2>2 DEF Sound, Snapshot, Current
  <2>4. QED
    BY <1>1, <1>5, <2>1, <2>3, QuietStep
<1>6. QED
  BY <1>3, <1>4, <1>5 DEF Compare

-----------------------------------------------------------------------------
(* A revision is added.                                                    *)

With(h, version, row) == [v \in DOMAIN h \cup {version} |-> IF v \in DOMAIN h THEN h[v] ELSE row]

\* What may be inserted into the history h.
Follows(h, version, row) ==
  /\ IsSnapshot(row.snapshot)
  /\ \/ version = 1 /\ row.changeType = "new" /\ DOMAIN row.changedFields = {}
     \/ /\ version - 1 \in DOMAIN h /\ version # 1
        /\ row.changeType = "updated"
        /\ row.changedFields = diffSnapshots(h[version - 1].snapshot, row.snapshot)
        /\ DOMAIN row.changedFields # {}

\* ON CONFLICT DO NOTHING keeps a history without gaps that tells the change,
\* whether or not another job has written this version in the meantime.
LEMMA HistoryGrows ==
  ASSUME NEW h, HistoryOK(h), NEW version \in Nat, NEW row, Follows(h, version, row)
  PROVE  /\ HistoryOK(With(h, version, row))
         /\ \A v \in DOMAIN h : v \in DOMAIN With(h, version, row) /\ With(h, version, row)[v] = h[v]
<1> DEFINE g == With(h, version, row)
<1>1. PICK n \in Nat : h = [v \in 1..n |-> h[v]] /\ Tells(h)
  BY DEF HistoryOK
<1>2. DOMAIN h = 1..n
  BY <1>1
<1>3. version \in 1..n \/ version = n + 1
  BY <1>2 DEF Follows
<1>4. g = [v \in (1..n) \cup {version} |-> IF v \in 1..n THEN h[v] ELSE row]
  BY <1>2 DEF With
<1> HIDE DEF g
<1>5. CASE version \in 1..n
  <2>1. g = h
    <3>1. (1..n) \cup {version} = 1..n
      BY <1>5
    <3>2. QED
      BY <1>1, <1>4, <3>1
  <2>2. QED
    BY <2>1 DEF g
<1>6. CASE version = n + 1
  <2>1. (1..n) \cup {version} = 1..(n + 1)
    BY <1>6
  <2>2. g = [v \in 1..(n + 1) |-> g[v]]
    BY <1>4, <2>1
  <2>3. g[n + 1] = row /\ \A v \in 1..n : g[v] = h[v]
    BY <1>4, <1>6
  <2>4. DOMAIN g = 1..(n + 1)
    BY <2>2
  <2>5. ASSUME NEW v \in 1..n
        PROVE  /\ IsSnapshot(g[v].snapshot)
               /\ v = 1 => g[v].changeType = "new" /\ DOMAIN g[v].changedFields = {}
               /\ v # 1 => /\ v - 1 \in DOMAIN g
                           /\ g[v].changeType = "updated"
                           /\ g[v].changedFields = diffSnapshots(g[v - 1].snapshot, g[v].snapshot)
                           /\ DOMAIN g[v].changedFields # {}
    <3>1. v # 1 => v - 1 \in 1..n
      OBVIOUS
    <3>2. g[v] = h[v] /\ (v # 1 => g[v - 1] = h[v - 1] /\ v - 1 \in DOMAIN g)
      BY <2>3, <2>4, <3>1
    <3>3. v \in DOMAIN h
      BY <1>1
    <3>4. QED
      BY <1>1, <3>2, <3>3 DEF Tells
  <2>6. /\ IsSnapshot(g[n + 1].snapshot)
        /\ n + 1 = 1 => g[n + 1].changeType = "new" /\ DOMAIN g[n + 1].changedFields = {}
        /\ n + 1 # 1 => /\ (n + 1) - 1 \in DOMAIN g
                        /\ g[n + 1].changeType = "updated"
                        /\ g[n + 1].changedFields = diffSnapshots(g[(n + 1) - 1].snapshot, g[n + 1].snapshot)
                        /\ DOMAIN g[n + 1].changedFields # {}
    <3>1. n + 1 # 1 => (n + 1) - 1 \in 1..n /\ (n + 1) - 1 \in DOMAIN g /\ g[(n + 1) - 1] = h[(n + 1) - 1]
      BY <2>3, <2>4
    <3>2. n + 1 = 1 => version - 1 \notin DOMAIN h
      BY <1>2, <1>6
    <3>3. QED
      BY <1>6, <2>3, <3>1, <3>2 DEF Follows
  <2>7. \A v \in DOMAIN g : v \in 1..n \/ v = n + 1
    BY <2>4
  <2>8. Tells(g)
    BY <2>5, <2>6, <2>7 DEF Tells
  <2>9. HistoryOK(g)
    <3>1. n + 1 \in Nat
      OBVIOUS
    <3>2. QED
      BY <2>2, <2>8, <3>1 DEF HistoryOK
  <2>10. \A v \in DOMAIN h : v \in DOMAIN g /\ g[v] = h[v]
    BY <1>2, <2>3, <2>4
  <2>11. QED
    BY <2>9, <2>10 DEF g
<1>7. QED
  BY <1>3, <1>5, <1>6

LEMMA AddRevisionKeeps ==
  ASSUME RevisionInv, NEW j \in Job, AddRevision(j)
  PROVE  RevisionInv' /\ Kept(history, history')
<1> DEFINE r == job[j]
           p == Current(j).id
           version == r.seen + 1
           row == Revision(Snapshot(j), r.diff, IF r.seen = 0 THEN "new" ELSE "updated")
           to == IF r.seen = 0 THEN Advanced(r, version) ELSE [r EXCEPT !.at = "alert"]
<1>1. IsJob(r) /\ Sound(r, history) /\ r.at = "insert"
  BY DEF RevisionInv, AddRevision
<1>2. history' = [history EXCEPT ![p] = With(@, version, row)] /\ GoesWriting(j, to)
  BY DEF AddRevision, insertVersion, With
<1>3. row.snapshot = Snapshot(j) /\ row.changedFields = r.diff
      /\ row.changeType = IF r.seen = 0 THEN "new" ELSE "updated"
  BY DEF Revision
<1> HIDE DEF row
<1>4. history' = [q \in Policy |-> history'[q]] /\ \A q \in Policy \ {p} : history'[q] = history[q]
  BY <1>2 DEF RevisionInv
<1>5. ASSUME p \in Policy
      PROVE  /\ HistoryOK(history'[p])
             /\ \A v \in DOMAIN history[p] : v \in DOMAIN history'[p] /\ history'[p][v] = history[p][v]
  <2>1. PICK n \in Nat : history[p] = [v \in 1..n |-> history[p][v]]
    BY <1>5 DEF RevisionInv, HistoryOK
  <2>2. \/ r.seen = 0 /\ r.diff = NoDiff
        \/ /\ r.seen \in DOMAIN history[p]
           /\ r.diff = diffSnapshots(history[p][r.seen].snapshot, Snapshot(j))
           /\ DOMAIN r.diff # {}
    BY <1>1, <1>5 DEF Sound, Current, Snapshot
  <2>3. version \in Nat /\ (r.seen # 0 => version - 1 = r.seen /\ version # 1)
    BY <2>1, <2>2
  <2>4. Follows(history[p], version, row)
    <3>1. IsSnapshot(row.snapshot)
      BY <1>3, SnapshotOfRecord DEF Snapshot
    <3>2. CASE r.seen = 0 /\ r.diff = NoDiff
      BY <1>3, <3>1, <3>2 DEF Follows, NoDiff
    <3>3. CASE r.seen # 0
      <4> HIDE DEF version
      <4> QED
        BY <1>3, <2>2, <2>3, <3>1, <3>3 DEF Follows
    <3>4. CASE r.seen = 0 /\ r.seen \in DOMAIN history[p]
      BY <2>1, <3>4
    <3>5. QED
      BY <2>2, <3>2, <3>3, <3>4
  <2>5. HistoryOK(history[p])
    BY <1>5 DEF RevisionInv
  <2>6. history'[p] = With(history[p], version, row)
    BY <1>2, <1>5 DEF RevisionInv
  <2> HIDE DEF version
  <2>7. QED
    BY <2>3, <2>4, <2>5, <2>6, HistoryGrows
<1>6. Kept(history, history')
  BY <1>4, <1>5 DEF Kept
<1>7. \A q \in Policy : HistoryOK(history'[q])
  BY <1>4, <1>5 DEF RevisionInv
<1>8. IsJob(to) /\ Sound(to, history')
  <2>1. CASE r.seen = 0
    BY <1>1, <2>1, AdvancedIsSound
  <2>2. CASE r.seen # 0
    <3>1. IsJob(to) /\ to.at = "alert"
      BY <1>1, <2>2 DEF IsJob, JobField
    <3>2. QED
      BY <3>1, ElsewhereIsSound
  <2>3. QED
    BY <2>1, <2>2
<1>9. QED
  BY <1>2, <1>4, <1>6, <1>7, <1>8, JobGoes DEF RevisionInv

LEMMA InsertAlertKeeps ==
  ASSUME RevisionInv, NEW j \in Job, insertAlert(j)
  PROVE  RevisionInv' /\ Kept(history, history')
<1>1. IsJob(job[j]) /\ UNCHANGED history
      /\ GoesWriting(j, Advanced(job[j], job[j].seen + 1))
  BY DEF RevisionInv, insertAlert
<1>2. QED
  BY <1>1, AdvancedIsSound, QuietStep

\* A job that is about to do something else than policies.
LEMMA AfterIsElsewhere ==
  ASSUME NEW j, NEW outcome
  PROVE  IsJob(After(j, outcome)) /\ After(j, outcome).at \notin {"detect", "insert"}
BY AtIsJob DEF After

LEMMA ElsewhereKeeps ==
  ASSUME RevisionInv, UNCHANGED history, NEW j \in Job, NEW to, IsJob(to),
         to.at \notin {"detect", "insert"}, Goes(j, to) \/ GoesWriting(j, to)
  PROVE  RevisionInv' /\ Kept(history, history')
BY ElsewhereIsSound, QuietStep

LEMMA IngestPoliciesKeeps ==
  ASSUME RevisionInv, NEW j \in Job, IngestPolicies(j)
  PROVE  RevisionInv' /\ Kept(history, history')
<1>1. CASE loadPolicyDataset(j, After(j, "failed"))
  BY <1>1, AfterIsElsewhere, LoadKeeps
<1>2. CASE Detect(j)
  BY <1>2, CompareKeeps, AddRevisionKeeps, InsertAlertKeeps DEF Detect
<1>3. CASE persistPolicies(j, After(j, "stored"), After(j, "failed"))
  <2>1. UNCHANGED history
        /\ \E to \in {After(j, "stored"), After(j, "failed")} : GoesWriting(j, to)
    BY <1>3 DEF persistPolicies
  <2>2. QED
    BY <2>1, AfterIsElsewhere, ElsewhereKeeps
<1>4. QED
  BY <1>1, <1>2, <1>3 DEF IngestPolicies

LEMMA IdleIsJob == IsJob(Idle) /\ Idle.at = "idle"
BY DEF Idle, IsJob, JobField

LEMMA IssueStepKeeps ==
  ASSUME RevisionInv, NEW j \in Job,
         fetchGithubIssues(j) \/ persistGithub(j) \/ persistSeed(j) \/ WriteFails(j) \/ StartJob(j)
  PROVE  RevisionInv' /\ Kept(history, history')
<1>1. UNCHANGED history
  BY DEF fetchGithubIssues, persistGithub, persistSeed, WriteFails, StartJob, regulationsUnchanged
<1>2. \E to \in {At("store"), At("seed"), At("load"), Idle, After(j, "failed")} : Goes(j, to)
  BY DEF fetchGithubIssues, persistGithub, persistSeed, WriteFails, StartJob
<1>3. \A to \in {At("store"), At("seed"), At("load"), Idle, After(j, "failed")} :
        IsJob(to) /\ to.at \notin {"detect", "insert"}
  BY AtIsJob, IdleIsJob, AfterIsElsewhere
<1>4. QED
  BY <1>1, <1>2, <1>3, ElsewhereKeeps

LEMMA BootKeeps ==
  ASSUME RevisionInv, Boot \in Job, BootServer
  PROVE  RevisionInv' /\ Kept(history, history')
<1>1. UNCHANGED history /\ \E to \in {At("load"), At("fetch"), Idle} : Goes(Boot, to)
  BY DEF BootServer, regulationsUnchanged
<1>2. \A to \in {At("load"), At("fetch"), Idle} : IsJob(to) /\ to.at \notin {"detect", "insert"}
  BY AtIsJob, IdleIsJob
<1>3. QED
  BY <1>1, <1>2, ElsewhereKeeps

LEMMA KillKeeps ==
  ASSUME RevisionInv, NEW process \in Process, Kill(process)
  PROVE  RevisionInv' /\ Kept(history, history')
<1>1. UNCHANGED history /\ Kept(history, history')
  BY DEF Kill, regulationsUnchanged, Kept
<1>2. job' = [j \in Job |-> IF ProcessOf(j) = process THEN Idle ELSE job[j]]
  BY DEF Kill
<1>3. \A j \in Job : IsJob(job'[j]) /\ Sound(job'[j], history')
  <2> SUFFICES ASSUME NEW j \in Job PROVE IsJob(job'[j]) /\ Sound(job'[j], history')
    OBVIOUS
  <2>1. job'[j] = Idle \/ job'[j] = job[j]
    BY <1>2
  <2>2. IsJob(job[j]) /\ Sound(job[j], history)
    BY DEF RevisionInv
  <2>3. IsJob(Idle) /\ Sound(Idle, history)
    BY IdleIsJob, ElsewhereIsSound
  <2>4. QED
    BY <1>1, <2>1, <2>2, <2>3
<1>4. QED
  BY <1>1, <1>2, <1>3 DEF RevisionInv

LEMMA UnchangedKeeps ==
  ASSUME RevisionInv, UNCHANGED <<history, job>>
  PROVE  RevisionInv' /\ Kept(history, history')
BY DEF RevisionInv, Kept

LEMMA RevisionInit == IngestionInit => RevisionInv
<1> SUFFICES ASSUME IngestionInit PROVE RevisionInv
  OBVIOUS
<1>1. history = [p \in Policy |-> <<>>] /\ job = [j \in Job |-> Idle]
  BY DEF IngestionInit, RegulationsInit
<1>2. HistoryOK(<<>>)
  <2>1. <<>> = [v \in 1..0 |-> (<<>>)[v]] /\ DOMAIN (<<>>) = {}
    OBVIOUS
  <2>2. Tells(<<>>)
    BY <2>1 DEF Tells
  <2>3. QED
    BY <2>1, <2>2 DEF HistoryOK
<1>3. IsJob(Idle) /\ Sound(Idle, history)
  BY IdleIsJob, ElsewhereIsSound
<1>4. QED
  BY <1>1, <1>2, <1>3 DEF RevisionInv

LEMMA RevisionStep ==
  RevisionInv /\ [IngestionNext]_ingestionVars => RevisionInv' /\ Kept(history, history')
<1> SUFFICES ASSUME RevisionInv, [IngestionNext]_ingestionVars
             PROVE  RevisionInv' /\ Kept(history, history')
  OBVIOUS
<1>1. CASE BootServer
  <2>1. Boot \in Job
    BY IngestionAssumption
  <2>2. QED
    BY <1>1, <2>1, BootKeeps
<1>2. ASSUME NEW j \in Job, StartJob(j) \/ JobSteps(j) \/ WriteFails(j)
      PROVE  RevisionInv' /\ Kept(history, history')
  BY <1>2, IngestPoliciesKeeps, IssueStepKeeps DEF JobSteps
<1>3. ASSUME NEW process \in Process, Kill(process)
      PROVE  RevisionInv' /\ Kept(history, history')
  BY <1>3, KillKeeps
<1>4. CASE Listen \/ StopAtIndexer \/ EditDataset \/ GithubChanges \/ Acknowledge
  <2>1. UNCHANGED <<history, job>>
    BY <1>4 DEF Listen, StopAtIndexer, EditDataset, Edit, GithubChanges, Acknowledge, acknowledgeAlert,
                regulationsUnchanged
  <2>2. QED
    BY <2>1, UnchangedKeeps
<1>5. CASE UNCHANGED ingestionVars
  BY <1>5, UnchangedKeeps DEF ingestionVars, regulationVars
<1>6. QED
  BY <1>1, <1>2, <1>3, <1>4, <1>5 DEF IngestionNext

\* However many jobs of however many processes overlap, fail and are killed, the
\* revisions of each policy count without gaps, and each says exactly what is
\* different from the one before it (regulations.ts 302-356).
THEOREM HistoryTellsTheChange == IngestionSpec => []RevisionsTellTheChange
<1>1. IngestionInit => RevisionInv
  BY RevisionInit
<1>2. RevisionInv /\ [IngestionNext]_ingestionVars => RevisionInv'
  BY RevisionStep
<1>3. RevisionInv => RevisionsTellTheChange
  BY DEF RevisionInv, HistoryOK, Tells, RevisionsTellTheChange, diffVersions
<1>4. QED
  BY <1>1, <1>2, <1>3, PTL DEF IngestionSpec

-----------------------------------------------------------------------------
(* Nothing is rewritten.                                                   *)

AlertsOK == \E S : alerts \in Seq(S)

\* Alerts are added at the end, or acknowledged.
AlertsKept ==
  \A i \in DOMAIN alerts :
    i \in DOMAIN alerts' /\ alerts'[i] \in {alerts[i], [alerts[i] EXCEPT !.acknowledged = TRUE]}

LEMMA AppendKeepsAlerts ==
  ASSUME AlertsOK, NEW x, alerts' = Append(alerts, x)
  PROVE  AlertsOK' /\ AlertsKept
<1>1. PICK S : alerts \in Seq(S)
  BY DEF AlertsOK
<1>2. alerts \in Seq(S \cup {x}) /\ x \in S \cup {x}
  BY <1>1
<1>3. alerts' \in Seq(S \cup {x}) /\ \A i \in DOMAIN alerts : i \in DOMAIN alerts' /\ alerts'[i] = alerts[i]
  BY <1>2
<1>4. QED
  BY <1>3 DEF AlertsOK, AlertsKept

LEMMA AcknowledgeKeepsAlerts ==
  ASSUME AlertsOK, NEW i \in DOMAIN alerts, acknowledgeAlert(i)
  PROVE  AlertsOK' /\ AlertsKept
<1> DEFINE x == [alerts[i] EXCEPT !.acknowledged = TRUE]
<1>1. PICK S : alerts \in Seq(S)
  BY DEF AlertsOK
<1>2. alerts' = [alerts EXCEPT ![i] = x]
  BY DEF acknowledgeAlert
<1> HIDE DEF x
<1>3. alerts \in Seq(S \cup {x}) /\ x \in S \cup {x}
  BY <1>1
<1>4. alerts' \in Seq(S \cup {x})
  BY <1>2, <1>3
<1>5. \A k \in DOMAIN alerts : k \in DOMAIN alerts' /\ alerts'[k] = IF k = i THEN x ELSE alerts[k]
  BY <1>2, <1>3
<1>6. QED
  BY <1>4, <1>5 DEF AlertsOK, AlertsKept, x

LEMMA SameAlerts ==
  ASSUME AlertsOK, UNCHANGED alerts
  PROVE  AlertsOK' /\ AlertsKept
BY DEF AlertsOK, AlertsKept

LEMMA AlertsStep ==
  AlertsOK /\ [IngestionNext]_ingestionVars => AlertsOK' /\ AlertsKept
<1> SUFFICES ASSUME AlertsOK, [IngestionNext]_ingestionVars PROVE AlertsOK' /\ AlertsKept
  OBVIOUS
<1>1. CASE BootServer \/ Listen \/ StopAtIndexer \/ EditDataset \/ GithubChanges \/ UNCHANGED ingestionVars
  <2>1. UNCHANGED alerts
    BY <1>1 DEF BootServer, Listen, StopAtIndexer, EditDataset, Edit, GithubChanges,
                regulationsUnchanged, ingestionVars, regulationVars
  <2>2. QED
    BY <2>1, SameAlerts
<1>2. CASE Acknowledge
  BY <1>2, AcknowledgeKeepsAlerts DEF Acknowledge
<1>3. CASE \E process \in Process : Kill(process)
  BY <1>3, SameAlerts DEF Kill, regulationsUnchanged
<1>4. ASSUME NEW j \in Job, StartJob(j) \/ JobSteps(j) \/ WriteFails(j)
      PROVE  AlertsOK' /\ AlertsKept
  <2>1. CASE insertAlert(j)
    BY <2>1, AppendKeepsAlerts DEF insertAlert
  <2>2. CASE ~insertAlert(j)
    <3>1. UNCHANGED alerts
      BY <1>4, <2>2 DEF StartJob, JobSteps, WriteFails, IngestPolicies, loadPolicyDataset, Detect,
        Compare, AddRevision, persistPolicies, fetchGithubIssues, persistGithub, persistSeed,
        regulationsUnchanged
    <3>2. QED
      BY <3>1, SameAlerts
  <2>3. QED
    BY <2>1, <2>2
<1>5. QED
  BY <1>1, <1>2, <1>3, <1>4 DEF IngestionNext

\* The history is append-only and so are the alerts, but for acknowledgements,
\* for any jobs, faults and files (docs/DATA.md:67).
THEOREM HistoryIsAppendOnly == IngestionSpec => NothingIsRewritten
<1>1. IngestionInit => RevisionInv /\ AlertsOK
  <2>1. IngestionInit => AlertsOK
    <3>1. <<>> \in Seq({})
      OBVIOUS
    <3>2. QED
      BY <3>1 DEF IngestionInit, RegulationsInit, AlertsOK
  <2>2. QED
    BY <2>1, RevisionInit
<1>2. RevisionInv /\ AlertsOK /\ [IngestionNext]_ingestionVars
        => (RevisionInv /\ AlertsOK)' /\ Kept(history, history') /\ AlertsKept
  BY RevisionStep, AlertsStep
<1>3. Kept(history, history') /\ AlertsKept =>
        [/\ \A p \in Policy : \A v \in DOMAIN history[p] :
              v \in DOMAIN history'[p] /\ history'[p][v] = history[p][v]
         /\ \A i \in DOMAIN alerts :
              /\ i \in DOMAIN alerts'
              /\ alerts'[i] \in {alerts[i], [alerts[i] EXCEPT !.acknowledged = TRUE]}]_regulationVars
  BY DEF Kept, AlertsKept
<1>4. QED
  BY <1>1, <1>2, <1>3, PTL DEF IngestionSpec, NothingIsRewritten

-----------------------------------------------------------------------------
(* Every change has its alert.                                             *)

\* Severities are numbers, which is what makes an escalation one.
LEMMA SeverityIsNumber ==
  ASSUME NEW r, IsValid(r)
  PROVE  Severity(r) \in Int
<1> DEFINE raw == CategoryBase[r.category] + ScopeBonus[r.scope] + EnforcementBonus[r.enforcement]
<1>1. CategoryBase[r.category] \in Int
  BY DEF IsValid, CategoryBase
<1>2. ScopeBonus[r.scope] \in Int
  BY DEF IsValid, ScopeBonus
<1>3. EnforcementBonus[r.enforcement] \in Int
  BY DEF IsValid, EnforcementBonus
<1>4. raw \in Int
  BY <1>1, <1>2, <1>3
<1> HIDE DEF raw
<1>5. Max({1, raw}) \in {1, raw}
  <2>1. \E x \in {1, raw} : \A y \in {1, raw} : x >= y
    BY <1>4
  <2>2. QED
    BY <2>1 DEF Max
<1>6. Max({1, raw}) \in Int
  BY <1>4, <1>5
<1> DEFINE floor == Max({1, raw})
<1> HIDE DEF floor
<1>7. Min({5, floor}) \in {5, floor}
  <2>1. floor \in Int
    BY <1>6 DEF floor
  <2>2. \E x \in {5, floor} : \A y \in {5, floor} : x =< y
    BY <2>1
  <2>3. QED
    BY <2>2 DEF Min
<1>8. Min({5, floor}) \in Int
  BY <1>6, <1>7 DEF floor
<1>9. QED
  BY <1>8 DEF Severity, floor, raw

\* What classifyChange makes of the difference of two snapshots.
LEMMA ClassTellsTheRise ==
  ASSUME NEW s, NEW t, IsSnapshot(s), IsSnapshot(t), s.severity \in Int, t.severity \in Int
  PROVE  LET class == classifyChange(diffSnapshots(s, t))
             up == t.severity - s.severity
         IN  /\ class.type = "severity-escalation" <=> up > 0
             /\ class.severity = "critical" <=> up > 1
<1> DEFINE a == Canonical(s)
           b == Canonical(t)
           diff == diffSnapshots(s, t)
<1>1. a.severity = s.severity /\ b.severity = t.severity
  BY DEF Canonical, IsSnapshot
<1>2. "severity" \in DOMAIN a
  BY DEF Canonical, IsSnapshot
<1>3. diff = [f \in {g \in DOMAIN a : a[g] # b[g]} |-> [from |-> a[f], to |-> b[f]]]
  BY DEF diffSnapshots
<1> HIDE DEF a, b, diff
<1>4. /\ "severity" \in DOMAIN diff <=> s.severity # t.severity
      /\ s.severity # t.severity => diff.severity.from = s.severity /\ diff.severity.to = t.severity
  BY <1>1, <1>2, <1>3
<1>5. Raises(diff) <=> t.severity - s.severity > 0
  BY <1>4 DEF Raises
<1>6. classifyChange(diff).type = "severity-escalation" <=> Raises(diff)
  BY DEF classifyChange
<1>7. classifyChange(diff).severity = "critical" <=> t.severity - s.severity > 1
  <2>1. CASE Raises(diff)
    <3>1. classifyChange(diff).severity =
            IF diff.severity.to - diff.severity.from >= 2 THEN "critical" ELSE "warning"
      BY <2>1 DEF classifyChange
    <3>2. s.severity # t.severity
      BY <1>5, <2>1
    <3>3. QED
      BY <1>4, <3>1, <3>2
  <2>2. CASE ~Raises(diff)
    <3>1. classifyChange(diff).severity \in {"warning", "info"}
      BY <2>2 DEF classifyChange
    <3>2. QED
      BY <1>5, <2>2, <3>1
  <2>3. QED
    BY <2>1, <2>2
<1>8. QED
  BY <1>5, <1>6, <1>7 DEF diff

AlertField == {"policy", "version", "changedFields", "class", "acknowledged"}

IsAlert(a) == a = [f \in AlertField |-> a[f]] /\ a.policy \in Policy

\* The alert i is about the revision v of p, and the job r is about to raise it.
AlertOf(i, p, v) ==
  /\ alerts[i].policy = p /\ alerts[i].version = v
  /\ alerts[i].changedFields = history[p][v].changedFields
  /\ alerts[i].class = classifyChange(history[p][v].changedFields)

AlertDue(r, p, v) ==
  /\ r.at = "alert" /\ r.records[r.next].id = p
  /\ r.seen = v - 1 /\ r.diff = history[p][v].changedFields

Raised(p, v) ==
  \/ \E i \in DOMAIN alerts : AlertOf(i, p, v)
  \/ \E j \in Job : AlertDue(job[j], p, v)

\* A job among its records has nothing but valid ones.
AmongRecords(r) ==
  r.at \in {"detect", "insert", "alert"} =>
    /\ r.records \in Seq(Range(r.records))
    /\ r.next \in DOMAIN r.records
    /\ \A i \in DOMAIN r.records : IsValid(r.records[i]) /\ r.records[i].id \in Policy

\* What a change of the tables may not lose, in every job and row.
DetectionOK ==
  /\ \A j \in Job : AmongRecords(job[j])
  /\ \A p \in Policy : \A v \in DOMAIN history[p] : history[p][v].snapshot.severity \in Int

\* What the environment is, and where it leaves the server.
SourcesOK ==
  /\ dataset \in Dataset
  /\ "files" \in DOMAIN left /\ left.files \subseteq Dataset
  /\ kills \in Nat /\ failures \in Nat
  /\ server = "down" => job[Boot].at = "idle"

AllRaised ==
  kills + failures = 0 => \A p \in Policy : \A v \in DOMAIN history[p] \ {1} : Raised(p, v)

AlertsInv ==
  /\ AlertsOK
  /\ \A i \in DOMAIN alerts : IsAlert(alerts[i])
  /\ SourcesOK
  /\ DetectionOK
  /\ AllRaised

\* Two jobs at the same place with the same in hand.
SameTask(r, s) ==
  r.at = s.at /\ r.records = s.records /\ r.next = s.next /\ r.seen = s.seen /\ r.diff = s.diff

\* Only the job j goes on.
OnlyGoes(j, to) == job'[j] = to /\ \A k \in Job \ {j} : SameTask(job'[k], job[k])

LEMMA GoingIsAlone ==
  ASSUME RevisionInv, NEW j \in Job, NEW to, Goes(j, to) \/ GoesWriting(j, to)
  PROVE  OnlyGoes(j, to)
<1>1. job'[j] = to
  BY DEF RevisionInv, Goes, GoesWriting
<1>2. ASSUME NEW k \in Job \ {j} PROVE SameTask(job'[k], job[k])
  <2>1. IsJob(job[k])
    BY DEF RevisionInv
  <2>2. job'[k] = job[k] \/ job'[k] = [job[k] EXCEPT !.alone = FALSE]
    BY DEF RevisionInv, Goes, GoesWriting
  <2>3. QED
    BY <2>1, <2>2 DEF SameTask, IsJob, JobField
<1>3. QED
  BY <1>1, <1>2 DEF OnlyGoes

LEMMA TaskIsAmong ==
  ASSUME NEW r, NEW s, SameTask(r, s), AmongRecords(s)
  PROVE  AmongRecords(r)
BY DEF SameTask, AmongRecords

LEMMA JobsAmong ==
  ASSUME DetectionOK, NEW j \in Job, NEW to, OnlyGoes(j, to), AmongRecords(to)
  PROVE  \A k \in Job : AmongRecords(job'[k])
BY TaskIsAmong DEF DetectionOK, OnlyGoes

\* A witness stays where no row is lost, no alert is lost or changed, and no job
\* goes on that had an alert to raise.
LEMMA RaisedStays ==
  ASSUME Kept(history, history'),
         \A i \in DOMAIN alerts : IsAlert(alerts[i]),
         AlertsKept,
         NEW p \in Policy, NEW v \in DOMAIN history[p], Raised(p, v),
         \A j \in Job : AlertDue(job[j], p, v) =>
           \/ SameTask(job'[j], job[j])
           \/ \E i \in DOMAIN alerts' : AlertOf(i, p, v)'
  PROVE  Raised(p, v)'
<1>1. history'[p][v] = history[p][v]
  BY DEF Kept
<1>2. ASSUME NEW i \in DOMAIN alerts, AlertOf(i, p, v)  PROVE Raised(p, v)'
  <2>1. /\ i \in DOMAIN alerts'
        /\ alerts'[i] = alerts[i] \/ alerts'[i] = [alerts[i] EXCEPT !.acknowledged = TRUE]
    BY DEF AlertsKept
  <2>2. IsAlert(alerts[i])
    OBVIOUS
  <2>3. /\ alerts'[i].policy = alerts[i].policy /\ alerts'[i].version = alerts[i].version
        /\ alerts'[i].changedFields = alerts[i].changedFields
        /\ alerts'[i].class = alerts[i].class
    BY <2>1, <2>2 DEF IsAlert, AlertField
  <2>4. AlertOf(i, p, v)'
    BY <1>1, <1>2, <2>3 DEF AlertOf
  <2>5. QED
    BY <2>1, <2>4 DEF Raised
<1>3. ASSUME NEW j \in Job, AlertDue(job[j], p, v)  PROVE Raised(p, v)'
  <2>1. CASE SameTask(job'[j], job[j])
    <3>1. AlertDue(job[j], p, v)'
      BY <1>1, <1>3, <2>1 DEF AlertDue, SameTask
    <3>2. QED
      BY <3>1 DEF Raised
  <2>2. CASE \E i \in DOMAIN alerts' : AlertOf(i, p, v)'
    BY <2>2 DEF Raised
  <2>3. QED
    BY <1>3, <2>1, <2>2
<1>4. QED
  BY <1>2, <1>3 DEF Raised

\* Steps of a job that has no alert to raise, and neither rows nor alerts to write.
LEMMA QuietKeepsAlerts ==
  ASSUME RevisionInv, AlertsInv, UNCHANGED <<history, alerts>>,
         NEW j \in Job, NEW to, Goes(j, to) \/ GoesWriting(j, to),
         job[j].at # "alert", AmongRecords(to), SourcesOK',
         kills' + failures' = 0 => kills + failures = 0
  PROVE  AlertsInv'
<1>1. OnlyGoes(j, to)
  BY GoingIsAlone
<1>2. DetectionOK'
  <2>1. \A k \in Job : AmongRecords(job'[k])
    BY <1>1, JobsAmong DEF AlertsInv
  <2>2. QED
    BY <2>1 DEF DetectionOK, AlertsInv
<1>3. Kept(history, history') /\ AlertsKept
  BY DEF Kept, AlertsKept
<1>4. AllRaised'
  <2> SUFFICES ASSUME kills' + failures' = 0, NEW p \in Policy, NEW v \in DOMAIN history'[p] \ {1}
               PROVE  Raised(p, v)'
    BY DEF AllRaised
  <2>1. v \in DOMAIN history[p] /\ Raised(p, v)
    BY DEF AlertsInv, AllRaised
  <2>2. \A k \in Job : AlertDue(job[k], p, v) => SameTask(job'[k], job[k])
    BY <1>1 DEF AlertDue, OnlyGoes
  <2>3. \A i \in DOMAIN alerts : IsAlert(alerts[i])
    BY DEF AlertsInv
  <2>4. QED
    BY <1>3, <2>1, <2>2, <2>3, RaisedStays
<1>5. QED
  BY <1>2, <1>4 DEF AlertsInv, AlertsOK

-----------------------------------------------------------------------------
(* Alerts: the steps of a job.                                             *)

LEMMA ElsewhereIsAmong ==
  /\ AmongRecords(Idle)
  /\ \A where \in {"idle", "load", "fetch", "store", "seed"} : AmongRecords(At(where))
  /\ \A j, outcome : AmongRecords(After(j, outcome))
BY DEF AmongRecords, At, After, Idle

LEMMA AdvancedIsAmong ==
  ASSUME NEW r, IsJob(r), AmongRecords(r), r.at \in {"detect", "insert", "alert"}, NEW version
  PROVE  AmongRecords(Advanced(r, version))
<1> DEFINE s == Advanced(r, version)
<1>1. /\ s.records = r.records /\ s.next = r.next + 1
      /\ s.at = IF r.next = Len(r.records) THEN "persist" ELSE "detect"
  BY DEF Advanced, IsJob, JobField
<1> HIDE DEF s
<1>2. r.records \in Seq(Range(r.records)) /\ r.next \in 1..Len(r.records)
  BY DEF AmongRecords
<1>3. s.at # "persist" => s.next \in DOMAIN s.records
  BY <1>1, <1>2
<1>4. AmongRecords(s)
  BY <1>1, <1>3 DEF AmongRecords
<1>5. QED
  BY <1>4 DEF s

LEMMA SpendingKeepsFiles ==
  ASSUME SourcesOK, NEW what, what # "files", Spend(what)
  PROVE  "files" \in DOMAIN left' /\ left'.files = left.files
BY DEF SourcesOK, Spend

LEMMA BootStaysIdle ==
  ASSUME RevisionInv, SourcesOK, Boot \in Job, NEW j \in Job, NEW to, OnlyGoes(j, to),
         job[j].at # "idle" \/ j # Boot, UNCHANGED server
  PROVE  server' = "down" => job'[Boot].at = "idle"
BY DEF SourcesOK, OnlyGoes, SameTask

\* A job at work on its policies leaves the sources alone.
LEMMA PolicyStepKeepsSources ==
  ASSUME RevisionInv, SourcesOK, Boot \in Job, NEW j \in Job, NEW to, OnlyGoes(j, to),
         job[j].at # "idle", UNCHANGED <<dataset, server, left, kills, failures>>
  PROVE  SourcesOK'
<1>1. server' = "down" => job'[Boot].at = "idle"
  BY BootStaysIdle
<1>2. QED
  BY <1>1 DEF SourcesOK

LEMMA LoadKeepsAlerts ==
  ASSUME RevisionInv, AlertsInv, Boot \in Job, NEW j \in Job, NEW failed, AmongRecords(failed),
         loadPolicyDataset(j, failed), UNCHANGED <<server, left, kills, failures>>
  PROVE  AlertsInv'
<1> DEFINE to == [Idle EXCEPT !.at = IF dataset = <<>> THEN "persist" ELSE "detect",
                              !.records = dataset, !.alone = TRUE]
<1>1. /\ job[j].at = "load" /\ UNCHANGED <<dataset, history, alerts>>
      /\ (Goes(j, to) /\ \A i \in DOMAIN dataset : IsValid(dataset[i])) \/ Goes(j, failed)
  BY DEF loadPolicyDataset
<1>2. (\A i \in DOMAIN dataset : IsValid(dataset[i])) => AmongRecords(to)
  <2>1. to.records = dataset /\ to.next = 1 /\ to.at = IF dataset = <<>> THEN "persist" ELSE "detect"
    BY DEF Idle
  <2> HIDE DEF to
  <2>2. dataset \in Seq(Range(dataset)) /\ \A i \in DOMAIN dataset : dataset[i].id \in Policy
    BY DatasetAssumption DEF AlertsInv, SourcesOK
  <2>3. dataset # <<>> => 1 \in DOMAIN dataset
    BY <2>2
  <2>4. QED
    BY <2>1, <2>2, <2>3 DEF AmongRecords
<1> HIDE DEF to
<1>3. PICK where : Goes(j, where) /\ AmongRecords(where)
  BY <1>1, <1>2
<1>4. OnlyGoes(j, where)
  BY <1>3, GoingIsAlone
<1>5. SourcesOK'
  BY <1>1, <1>4, PolicyStepKeepsSources DEF AlertsInv
<1>6. QED
  BY <1>1, <1>3, <1>5, QuietKeepsAlerts

LEMMA CompareKeepsAlerts ==
  ASSUME RevisionInv, AlertsInv, Boot \in Job, NEW j \in Job, Compare(j),
         UNCHANGED <<server, left, kills, failures>>
  PROVE  AlertsInv'
<1> DEFINE r == job[j]
           latest == latestVersion(Current(j).id)
           diff == diffSnapshots(history[Current(j).id][latest].snapshot, Snapshot(j))
           first == [r EXCEPT !.at = "insert"]
           next == [r EXCEPT !.at = "insert", !.seen = latest, !.diff = diff]
<1>1. /\ r.at = "detect" /\ IsJob(r) /\ AmongRecords(r) /\ UNCHANGED <<dataset, history, alerts>>
      /\ Goes(j, first) \/ Goes(j, next) \/ Goes(j, Advanced(r, latest))
  BY DEF Compare, RevisionInv, AlertsInv, DetectionOK
<1> HIDE DEF latest, diff
<1>2. AmongRecords(first)
  <2>1. first.records = r.records /\ first.next = r.next
    BY <1>1 DEF IsJob, JobField
  <2> HIDE DEF first
  <2>2. QED
    BY <1>1, <2>1 DEF AmongRecords
<1>3. AmongRecords(next)
  <2>1. next.records = r.records /\ next.next = r.next
    BY <1>1 DEF IsJob, JobField
  <2> HIDE DEF next
  <2>2. QED
    BY <1>1, <2>1 DEF AmongRecords
<1>4. AmongRecords(Advanced(r, latest))
  BY <1>1, AdvancedIsAmong
<1> HIDE DEF first, next
<1>5. PICK to : Goes(j, to) /\ AmongRecords(to)
  BY <1>1, <1>2, <1>3, <1>4
<1>6. OnlyGoes(j, to)
  BY <1>5, GoingIsAlone
<1>7. SourcesOK'
  BY <1>1, <1>6, PolicyStepKeepsSources DEF AlertsInv
<1>8. QED
  BY <1>1, <1>5, <1>7, QuietKeepsAlerts

LEMMA PersistKeepsAlerts ==
  ASSUME RevisionInv, AlertsInv, Boot \in Job, NEW j \in Job, NEW done, NEW failed,
         AmongRecords(done), AmongRecords(failed), persistPolicies(j, done, failed),
         UNCHANGED <<server, left, kills, failures>>
  PROVE  AlertsInv'
<1>1. /\ job[j].at = "persist" /\ UNCHANGED <<dataset, history, alerts>>
  BY DEF persistPolicies
<1>2. PICK to \in {done, failed} : GoesWriting(j, to)
  BY DEF persistPolicies
<1>3. OnlyGoes(j, to) /\ AmongRecords(to)
  BY <1>2, GoingIsAlone
<1>4. SourcesOK'
  BY <1>1, <1>3, PolicyStepKeepsSources DEF AlertsInv
<1>5. QED
  BY <1>1, <1>2, <1>3, <1>4, QuietKeepsAlerts

\* A revision comes with the job that raises its alert, unless it was there.
LEMMA AddRevisionKeepsAlerts ==
  ASSUME RevisionInv, AlertsInv, Boot \in Job, NEW j \in Job, AddRevision(j),
         UNCHANGED <<server, left, kills, failures>>
  PROVE  AlertsInv'
<1> DEFINE r == job[j]
           id == Current(j).id
           version == r.seen + 1
           row == Revision(Snapshot(j), r.diff, IF r.seen = 0 THEN "new" ELSE "updated")
           raise == [r EXCEPT !.at = "alert"]
           to == IF r.seen = 0 THEN Advanced(r, version) ELSE raise
<1>1. /\ r.at = "insert" /\ IsJob(r) /\ AmongRecords(r) /\ Sound(r, history)
      /\ UNCHANGED <<dataset, alerts>> /\ id = r.records[r.next].id
  BY DEF AddRevision, RevisionInv, AlertsInv, DetectionOK, Current
<1>2. /\ GoesWriting(j, to)
      /\ history' = [history EXCEPT ![id] = With(@, version, row)]
  BY DEF AddRevision, insertVersion, With
<1>3. /\ raise.at = "alert" /\ raise.records = r.records /\ raise.next = r.next
      /\ raise.seen = r.seen /\ raise.diff = r.diff
  BY <1>1 DEF IsJob, JobField
<1>4. AmongRecords(to)
  <2>1. AmongRecords(raise)
    <3> HIDE DEF raise
    <3> QED
      BY <1>1, <1>3 DEF AmongRecords
  <2>2. AmongRecords(Advanced(r, version))
    BY <1>1, AdvancedIsAmong
  <2>3. QED
    BY <2>1, <2>2
<1>5. OnlyGoes(j, to)
  BY <1>2, GoingIsAlone
<1>6. SourcesOK'
  BY <1>1, <1>5, PolicyStepKeepsSources DEF AlertsInv
<1>7. Snapshot(j).severity \in Int
  <2>1. IsValid(Current(j))
    BY <1>1 DEF AmongRecords, Current
  <2>2. QED
    BY <2>1, SeverityIsNumber DEF Snapshot, toSnapshot
<1>8. row.snapshot = Snapshot(j) /\ row.changedFields = r.diff
  BY DEF Revision
<1> HIDE DEF row, raise
<1>9. \A p \in Policy : \A v \in DOMAIN history'[p] :
        \/ v \in DOMAIN history[p] /\ history'[p][v] = history[p][v]
        \/ p = id /\ v = version /\ v \notin DOMAIN history[p] /\ history'[p][v] = row
  BY <1>2 DEF With, RevisionInv
<1>10. DetectionOK'
  <2>1. \A k \in Job : AmongRecords(job'[k])
    BY <1>4, <1>5, JobsAmong DEF AlertsInv
  <2>2. \A p \in Policy : \A v \in DOMAIN history'[p] : history'[p][v].snapshot.severity \in Int
    BY <1>7, <1>8, <1>9 DEF AlertsInv, DetectionOK
  <2>3. QED
    BY <2>1, <2>2 DEF DetectionOK
<1>11. Kept(history, history')
  BY RevisionStep, AddRevisionKeeps
<1>12. AlertsKept
  BY <1>1 DEF AlertsKept
<1>13. AllRaised'
  <2> SUFFICES ASSUME kills' + failures' = 0, NEW p \in Policy, NEW v \in DOMAIN history'[p] \ {1}
               PROVE  Raised(p, v)'
    BY DEF AllRaised
  <2>1. CASE v \in DOMAIN history[p]
    <3>1. Raised(p, v)
      BY <2>1 DEF AlertsInv, AllRaised
    <3>2. \A k \in Job : AlertDue(job[k], p, v) => SameTask(job'[k], job[k])
      BY <1>1, <1>5 DEF AlertDue, OnlyGoes
    <3>3. \A i \in DOMAIN alerts : IsAlert(alerts[i])
      BY DEF AlertsInv
    <3>4. QED
      BY <1>11, <1>12, <2>1, <3>1, <3>2, <3>3, RaisedStays
  <2>2. CASE p = id /\ v = version /\ history'[p][v] = row
    <3>1. r.seen # 0 /\ r.seen \in Int
      <4>1. r.seen = 0 \/ r.seen \in DOMAIN history[p]
        BY <1>1, <2>2 DEF Sound
      <4>2. DOMAIN history[p] \subseteq Int
        BY DEF RevisionInv, HistoryOK
      <4>3. QED
        BY <2>2, <4>1, <4>2
    <3>2. job'[j] = raise
      BY <1>5, <3>1 DEF OnlyGoes
    <3>3. v - 1 = r.seen
      BY <2>2, <3>1
    <3>4. AlertDue(job[j], p, v)'
      BY <1>1, <1>3, <1>8, <2>2, <3>2, <3>3 DEF AlertDue
    <3>5. QED
      BY <3>4 DEF Raised
  <2>3. QED
    BY <1>9, <2>1, <2>2
<1>14. QED
  BY <1>1, <1>6, <1>10, <1>13 DEF AlertsInv, AlertsOK

\* The job that had the alert to raise has raised it.
LEMMA InsertAlertKeepsAlerts ==
  ASSUME RevisionInv, AlertsInv, Boot \in Job, NEW j \in Job, insertAlert(j),
         UNCHANGED <<server, left, kills, failures>>
  PROVE  AlertsInv'
<1> DEFINE r == job[j]
           a == [policy |-> Current(j).id, version |-> r.seen + 1, changedFields |-> r.diff,
                 class |-> classifyChange(r.diff), acknowledged |-> FALSE]
           to == Advanced(r, r.seen + 1)
<1>1. /\ r.at = "alert" /\ IsJob(r) /\ AmongRecords(r) /\ UNCHANGED <<dataset, history>>
      /\ alerts' = Append(alerts, a) /\ GoesWriting(j, to)
  BY DEF insertAlert, RevisionInv, AlertsInv, DetectionOK
<1>2. AmongRecords(to)
  BY <1>1, AdvancedIsAmong
<1>3. OnlyGoes(j, to)
  BY <1>1, GoingIsAlone
<1>4. SourcesOK'
  BY <1>1, <1>3, PolicyStepKeepsSources DEF AlertsInv
<1>5. DetectionOK'
  <2>1. \A k \in Job : AmongRecords(job'[k])
    BY <1>2, <1>3, JobsAmong DEF AlertsInv
  <2>2. QED
    BY <1>1, <2>1 DEF DetectionOK, AlertsInv
<1>6. AlertsOK' /\ AlertsKept
  BY <1>1, AppendKeepsAlerts DEF AlertsInv
<1>7. IsAlert(a) /\ a.policy = r.records[r.next].id /\ a.version = r.seen + 1
      /\ a.changedFields = r.diff /\ a.class = classifyChange(r.diff)
  <2>1. r.records[r.next].id \in Policy
    BY <1>1 DEF AmongRecords
  <2>2. QED
    BY <2>1 DEF IsAlert, AlertField, Current
<1> HIDE DEF a, to
<1>8. PICK n \in DOMAIN alerts' : alerts'[n] = a
  <2>1. PICK S : alerts \in Seq(S)
    BY DEF AlertsInv, AlertsOK
  <2>2. alerts \in Seq(S \cup {a}) /\ a \in S \cup {a}
    BY <2>1
  <2>3. Len(alerts) + 1 \in DOMAIN alerts' /\ alerts'[Len(alerts) + 1] = a
    BY <1>1, <2>2
  <2>4. QED
    BY <2>3
<1>9. \A i \in DOMAIN alerts' : IsAlert(alerts'[i])
  <2>1. PICK S : alerts \in Seq(S)
    BY DEF AlertsInv, AlertsOK
  <2>2. alerts \in Seq(S \cup {a}) /\ a \in S \cup {a}
    BY <2>1
  <2>3. \A i \in DOMAIN alerts' : alerts'[i] = a \/ (i \in DOMAIN alerts /\ alerts'[i] = alerts[i])
    BY <1>1, <2>2
  <2>4. QED
    BY <1>7, <2>3 DEF AlertsInv
<1>10. AllRaised'
  <2> SUFFICES ASSUME kills' + failures' = 0, NEW p \in Policy, NEW v \in DOMAIN history'[p] \ {1}
               PROVE  Raised(p, v)'
    BY DEF AllRaised
  <2>1. v \in DOMAIN history[p] /\ Raised(p, v) /\ v \in Int
    BY <1>1 DEF AlertsInv, AllRaised, RevisionInv, HistoryOK
  <2>2. ASSUME NEW k \in Job, AlertDue(job[k], p, v)
        PROVE  SameTask(job'[k], job[k]) \/ \E i \in DOMAIN alerts' : AlertOf(i, p, v)'
    <3>1. CASE k # j
      BY <1>3, <3>1 DEF OnlyGoes
    <3>2. CASE k = j
      <4>1. r.records[r.next].id = p /\ r.seen = v - 1 /\ r.diff = history[p][v].changedFields
        BY <2>2, <3>2 DEF AlertDue
      <4>2. r.seen + 1 = v
        BY <2>1, <4>1
      <4>3. history'[p][v] = history[p][v]
        BY <1>1
      <4>4. a.policy = p /\ a.version = v /\ a.changedFields = history'[p][v].changedFields
        BY <1>7, <4>1, <4>2, <4>3
      <4>5. a.class = classifyChange(history'[p][v].changedFields)
        BY <1>7, <4>1, <4>3
      <4>6. AlertOf(n, p, v)'
        BY <1>8, <4>4, <4>5 DEF AlertOf
      <4>7. QED
        BY <4>6
    <3>3. QED
      BY <3>1, <3>2
  <2>3. Kept(history, history') /\ \A i \in DOMAIN alerts : IsAlert(alerts[i])
    BY <1>1 DEF Kept, AlertsInv
  <2>4. QED
    BY <1>6, <2>1, <2>2, <2>3, RaisedStays
<1>11. QED
  BY <1>4, <1>5, <1>6, <1>9, <1>10 DEF AlertsInv

LEMMA PoliciesKeepAlerts ==
  ASSUME RevisionInv, AlertsInv, Boot \in Job, NEW j \in Job, IngestPolicies(j)
  PROVE  AlertsInv'
<1>1. UNCHANGED <<server, left, kills, failures>>
  BY DEF IngestPolicies, faultsUnchanged
<1>2. \A outcome : AmongRecords(After(j, outcome))
  BY ElsewhereIsAmong
<1>3. CASE loadPolicyDataset(j, After(j, "failed"))
  BY <1>1, <1>2, <1>3, LoadKeepsAlerts
<1>4. CASE Detect(j)
  BY <1>1, <1>4, CompareKeepsAlerts, AddRevisionKeepsAlerts, InsertAlertKeepsAlerts DEF Detect
<1>5. CASE persistPolicies(j, After(j, "stored"), After(j, "failed"))
  BY <1>1, <1>2, <1>5, PersistKeepsAlerts
<1>6. QED
  BY <1>3, <1>4, <1>5 DEF IngestPolicies

-----------------------------------------------------------------------------
(* Alerts: everything else.                                                *)

LEMMA IssuesKeepAlerts ==
  ASSUME RevisionInv, AlertsInv, Boot \in Job, NEW j \in Job,
         fetchGithubIssues(j) \/ persistGithub(j) \/ persistSeed(j) \/ StartJob(j)
  PROVE  AlertsInv'
<1>1. UNCHANGED <<dataset, history, alerts, server, kills, failures>>
  BY DEF fetchGithubIssues, persistGithub, persistSeed, StartJob, regulationsUnchanged,
         faultsUnchanged
<1>2. job[j].at \in {"fetch", "store", "seed"} \/ (job[j].at = "idle" /\ j # Boot)
  BY DEF fetchGithubIssues, persistGithub, persistSeed, StartJob
<1>3. PICK to \in {At("store"), At("seed"), At("load"), Idle} : Goes(j, to)
  BY DEF fetchGithubIssues, persistGithub, persistSeed, StartJob
<1>4. AmongRecords(to) /\ OnlyGoes(j, to)
  BY <1>3, ElsewhereIsAmong, GoingIsAlone
<1>5. "files" \in DOMAIN left' /\ left'.files = left.files
  <2>1. UNCHANGED left \/ Spend("jobs")
    BY DEF fetchGithubIssues, persistGithub, persistSeed, StartJob
  <2>2. QED
    BY <2>1, SpendingKeepsFiles DEF AlertsInv, SourcesOK
<1>6. SourcesOK'
  <2>1. server' = "down" => job'[Boot].at = "idle"
    BY <1>1, <1>2, <1>4, BootStaysIdle DEF AlertsInv
  <2>2. QED
    BY <1>1, <1>5, <2>1 DEF AlertsInv, SourcesOK
<1>7. QED
  BY <1>1, <1>2, <1>3, <1>4, <1>6, QuietKeepsAlerts

LEMMA BootKeepsAlerts ==
  ASSUME RevisionInv, AlertsInv, Boot \in Job, BootServer
  PROVE  AlertsInv'
<1>1. /\ UNCHANGED <<dataset, history, alerts, left, kills, failures>>
      /\ server = "down" /\ server' = "starting"
  BY DEF BootServer, regulationsUnchanged, faultsUnchanged
<1>2. PICK to \in {At("load"), At("fetch"), Idle} : Goes(Boot, to)
  BY DEF BootServer
<1>3. AmongRecords(to) /\ job[Boot].at = "idle"
  BY <1>1, ElsewhereIsAmong DEF AlertsInv, SourcesOK
<1>4. SourcesOK'
  BY <1>1 DEF AlertsInv, SourcesOK
<1>5. QED
  BY <1>1, <1>2, <1>3, <1>4, QuietKeepsAlerts

\* After a fault nothing is claimed of alerts any more.
LEMMA FaultKeepsAlerts ==
  ASSUME AlertsInv, UNCHANGED <<history, alerts>>, SourcesOK', kills' + failures' # 0,
         \A j \in Job : AmongRecords(job'[j])
  PROVE  AlertsInv'
<1>1. DetectionOK'
  BY DEF DetectionOK, AlertsInv
<1>2. AllRaised'
  BY DEF AllRaised
<1>3. QED
  BY <1>1, <1>2 DEF AlertsInv, AlertsOK

LEMMA WriteFailsKeepsAlerts ==
  ASSUME RevisionInv, AlertsInv, Boot \in Job, NEW j \in Job, WriteFails(j)
  PROVE  AlertsInv'
<1>1. /\ UNCHANGED <<dataset, history, alerts, server, left, kills>>
      /\ failures' = failures + 1 /\ job[j].at # "idle"
  BY DEF WriteFails, regulationsUnchanged, Detecting
<1>2. PICK to \in {At("seed"), Idle, After(j, "failed")} : Goes(j, to)
  BY DEF WriteFails
<1>3. AmongRecords(to) /\ OnlyGoes(j, to)
  BY <1>2, ElsewhereIsAmong, GoingIsAlone
<1>4. SourcesOK' /\ kills' + failures' # 0
  <2>1. server' = "down" => job'[Boot].at = "idle"
    BY <1>1, <1>3, BootStaysIdle DEF AlertsInv
  <2>2. QED
    BY <1>1, <2>1 DEF AlertsInv, SourcesOK
<1>5. \A k \in Job : AmongRecords(job'[k])
  BY <1>3, JobsAmong DEF AlertsInv
<1>6. QED
  BY <1>1, <1>4, <1>5, FaultKeepsAlerts

LEMMA KillKeepsAlerts ==
  ASSUME RevisionInv, AlertsInv, Boot \in Job, NEW process \in Process, Kill(process)
  PROVE  AlertsInv'
<1>1. /\ UNCHANGED <<dataset, history, alerts, left, failures>> /\ kills' = kills + 1
      /\ job' = [j \in Job |-> IF ProcessOf(j) = process THEN Idle ELSE job[j]]
      /\ (process = "server" /\ server' = "down") \/ UNCHANGED server
  BY DEF Kill, regulationsUnchanged
<1>2. \A j \in Job : AmongRecords(job'[j])
  BY <1>1, ElsewhereIsAmong DEF AlertsInv, DetectionOK
<1>3. server' = "down" => job'[Boot].at = "idle"
  <2>1. ProcessOf(Boot) = "server"
    BY DEF ProcessOf, Boot, Cli
  <2>2. job'[Boot] = IF process = "server" THEN Idle ELSE job[Boot]
    BY <1>1, <2>1
  <2>3. QED
    BY <1>1, <2>2, IdleIsJob DEF AlertsInv, SourcesOK
<1>4. SourcesOK' /\ kills' + failures' # 0
  BY <1>1, <1>3 DEF AlertsInv, SourcesOK
<1>5. QED
  BY <1>1, <1>2, <1>4, FaultKeepsAlerts

\* Neither jobs nor histories; alerts at most acknowledged.
LEMMA JoblessKeepsAlerts ==
  ASSUME AlertsInv, UNCHANGED <<history, job, kills, failures>>, SourcesOK',
         AlertsOK', AlertsKept, \A i \in DOMAIN alerts' : IsAlert(alerts'[i])
  PROVE  AlertsInv'
<1>1. DetectionOK'
  BY DEF DetectionOK, AlertsInv
<1>2. Kept(history, history')
  BY DEF Kept
<1>3. AllRaised'
  <2> SUFFICES ASSUME kills' + failures' = 0, NEW p \in Policy, NEW v \in DOMAIN history'[p] \ {1}
               PROVE  Raised(p, v)'
    BY DEF AllRaised
  <2>1. v \in DOMAIN history[p] /\ Raised(p, v)
    BY DEF AlertsInv, AllRaised
  <2>2. \A k \in Job : SameTask(job'[k], job[k])
    BY DEF SameTask
  <2>3. \A i \in DOMAIN alerts : IsAlert(alerts[i])
    BY DEF AlertsInv
  <2>4. QED
    BY <1>2, <2>1, <2>2, <2>3, RaisedStays
<1>4. QED
  BY <1>1, <1>3 DEF AlertsInv

LEMMA AcknowledgedIsAlert ==
  ASSUME \A k \in DOMAIN alerts : IsAlert(alerts[k]), AlertsOK, NEW i \in DOMAIN alerts,
         acknowledgeAlert(i)
  PROVE  \A k \in DOMAIN alerts' : IsAlert(alerts'[k])
<1> DEFINE x == [alerts[i] EXCEPT !.acknowledged = TRUE]
<1>1. alerts' = [alerts EXCEPT ![i] = x]
  BY DEF acknowledgeAlert
<1>2. IsAlert(x)
  BY DEF IsAlert, AlertField
<1> HIDE DEF x
<1>3. \A k \in DOMAIN alerts' : k \in DOMAIN alerts /\ alerts'[k] = IF k = i THEN x ELSE alerts[k]
  BY <1>1 DEF AlertsOK
<1>4. QED
  BY <1>2, <1>3

LEMMA AlertsInvStep ==
  RevisionInv /\ AlertsInv /\ [IngestionNext]_ingestionVars => AlertsInv'
<1> SUFFICES ASSUME RevisionInv, AlertsInv, [IngestionNext]_ingestionVars PROVE AlertsInv'
  OBVIOUS
<1>1. Boot \in Job
  BY IngestionAssumption
<1>2. CASE BootServer
  BY <1>1, <1>2, BootKeepsAlerts
<1>3. ASSUME NEW j \in Job, StartJob(j) \/ JobSteps(j) \/ WriteFails(j)  PROVE AlertsInv'
  BY <1>1, <1>3, PoliciesKeepAlerts, IssuesKeepAlerts, WriteFailsKeepsAlerts DEF JobSteps
<1>4. ASSUME NEW process \in Process, Kill(process)  PROVE AlertsInv'
  BY <1>1, <1>4, KillKeepsAlerts
<1>5. ASSUME UNCHANGED <<history, alerts, job, kills, failures>>, SourcesOK'  PROVE AlertsInv'
  BY <1>5, JoblessKeepsAlerts, SameAlerts DEF AlertsInv
<1>6. CASE Listen \/ StopAtIndexer
  <2>1. /\ UNCHANGED <<dataset, history, alerts, job, left, kills, failures>>
        /\ job[Boot].at = "idle"
    BY <1>6 DEF Listen, StopAtIndexer, EndsBoot, regulationsUnchanged, faultsUnchanged
  <2>2. QED
    BY <1>5, <2>1 DEF AlertsInv, SourcesOK
<1>7. CASE EditDataset
  <2>1. UNCHANGED <<history, alerts, job, server, kills, failures>> /\ Spend("edits")
        /\ dataset' \in left.files
    BY <1>7 DEF EditDataset, Edit, faultsUnchanged
  <2>2. QED
    BY <1>5, <2>1, SpendingKeepsFiles DEF AlertsInv, SourcesOK
<1>8. CASE GithubChanges
  <2>1. UNCHANGED <<dataset, history, alerts, job, server, kills, failures>> /\ Spend("pushes")
    BY <1>8 DEF GithubChanges, regulationsUnchanged, faultsUnchanged
  <2>2. QED
    BY <1>5, <2>1, SpendingKeepsFiles DEF AlertsInv, SourcesOK
<1>9. CASE Acknowledge
  <2>1. UNCHANGED <<dataset, history, job, server, kills, failures>> /\ Spend("acks")
    BY <1>9 DEF Acknowledge, acknowledgeAlert, faultsUnchanged
  <2>2. SourcesOK'
    BY <2>1, SpendingKeepsFiles DEF AlertsInv, SourcesOK
  <2>3. PICK i \in DOMAIN alerts : acknowledgeAlert(i)
    BY <1>9 DEF Acknowledge
  <2>4. AlertsOK' /\ AlertsKept /\ \A k \in DOMAIN alerts' : IsAlert(alerts'[k])
    BY <2>3, AcknowledgeKeepsAlerts, AcknowledgedIsAlert DEF AlertsInv
  <2>5. QED
    BY <2>1, <2>2, <2>4, JoblessKeepsAlerts
<1>10. CASE UNCHANGED ingestionVars
  BY <1>5, <1>10 DEF ingestionVars, regulationVars, AlertsInv, SourcesOK
<1>11. QED
  BY <1>2, <1>3, <1>4, <1>6, <1>7, <1>8, <1>9, <1>10 DEF IngestionNext

LEMMA AlertsInvInit == IngestionInit => AlertsInv
<1> SUFFICES ASSUME IngestionInit PROVE AlertsInv
  OBVIOUS
<1>1. /\ history = [p \in Policy |-> <<>>] /\ job = [j \in Job |-> Idle] /\ alerts = <<>>
      /\ dataset \in Dataset /\ left \in Budgets /\ kills = 0 /\ failures = 0
  BY DEF IngestionInit, RegulationsInit
<1>2. AlertsOK /\ \A i \in DOMAIN alerts : IsAlert(alerts[i])
  <2>1. <<>> \in Seq({}) /\ DOMAIN <<>> = {}
    OBVIOUS
  <2>2. QED
    BY <1>1, <2>1 DEF AlertsOK
<1>3. SourcesOK
  BY <1>1, IdleIsJob, IngestionAssumption DEF SourcesOK
<1>4. \A p \in Policy : DOMAIN history[p] = {}
  BY <1>1
<1>5. DetectionOK
  BY <1>1, <1>4, ElsewhereIsAmong DEF DetectionOK
<1>6. AllRaised
  BY <1>4 DEF AllRaised
<1>7. QED
  BY <1>2, <1>3, <1>5, <1>6 DEF AlertsInv

\* Both invariants together say of every later revision what its alert has to say.
LEMMA RaisedIsAlerted ==
  ASSUME RevisionInv, AlertsInv
  PROVE  EveryRevisionIsAlerted
<1> SUFFICES ASSUME kills + failures = 0, NEW p \in Policy, NEW v \in DOMAIN history[p] \ {1}
             PROVE  LET diff == history[p][v].changedFields
                        up == history[p][v].snapshot.severity - history[p][v - 1].snapshot.severity
                    IN  \/ \E i \in DOMAIN alerts :
                             /\ alerts[i].policy = p /\ alerts[i].version = v
                             /\ alerts[i].changedFields = diff
                             /\ alerts[i].class.type = "severity-escalation" <=> up > 0
                             /\ alerts[i].class.severity = "critical" <=> up > 1
                        \/ \E j \in Job : job[j].at = "alert" /\ Current(j).id = p
                                          /\ job[j].seen = v - 1 /\ job[j].diff = diff
  BY DEF EveryRevisionIsAlerted
<1> DEFINE s == history[p][v - 1].snapshot
           t == history[p][v].snapshot
           class == classifyChange(history[p][v].changedFields)
           up == t.severity - s.severity
<1>1. /\ v - 1 \in DOMAIN history[p] /\ IsSnapshot(s) /\ IsSnapshot(t)
      /\ history[p][v].changedFields = diffSnapshots(s, t)
  BY DEF RevisionInv, HistoryOK, Tells
<1>2. s.severity \in Int /\ t.severity \in Int
  BY <1>1 DEF AlertsInv, DetectionOK
<1>3. (class.type = "severity-escalation" <=> up > 0) /\ (class.severity = "critical" <=> up > 1)
  <2> HIDE DEF s, t
  <2>1. QED
    BY <1>1, <1>2, ClassTellsTheRise
<1>4. Raised(p, v)
  BY DEF AlertsInv, AllRaised
<1>5. CASE \E i \in DOMAIN alerts : AlertOf(i, p, v)
  BY <1>3, <1>5 DEF AlertOf
<1>6. CASE \E j \in Job : AlertDue(job[j], p, v)
  BY <1>6 DEF AlertDue, Current
<1>7. QED
  BY <1>4, <1>5, <1>6 DEF Raised

\* Every change of a policy raises its alert, with what changed and as loud as it
\* has to be, however jobs overlap, as long as none is killed and no write fails
\* (regulations.ts 123-138, 325-343).
THEOREM EveryChangeIsAlerted == IngestionSpec => []EveryRevisionIsAlerted
<1>1. IngestionInit => RevisionInv /\ AlertsInv
  BY RevisionInit, AlertsInvInit
<1>2. RevisionInv /\ AlertsInv /\ [IngestionNext]_ingestionVars => (RevisionInv /\ AlertsInv)'
  BY RevisionStep, AlertsInvStep
<1>3. RevisionInv /\ AlertsInv => EveryRevisionIsAlerted
  BY RaisedIsAlerted
<1>4. QED
  BY <1>1, <1>2, <1>3, PTL DEF IngestionSpec

-----------------------------------------------------------------------------
(* A job that nobody disturbs.                                             *)

Latest(h) == IF h = <<>> THEN 0 ELSE Max(DOMAIN h)

LEMMA LatestIs ==
  ASSUME NEW h, NEW n \in Nat, h = [v \in 1..n |-> h[v]]
  PROVE  Latest(h) = n /\ DOMAIN h = 1..n
<1>1. DOMAIN h = 1..n
  OBVIOUS
<1>2. CASE n = 0
  <2>1. h = <<>>
    BY <1>2
  <2>2. QED
    BY <1>1, <1>2, <2>1 DEF Latest
<1>3. CASE n # 0
  <2>1. n \in 1..n /\ h # <<>>
    BY <1>1, <1>3
  <2>2. \A m \in 1..n : (\A k \in 1..n : m >= k) => m = n
    BY <1>3
  <2>3. \A k \in 1..n : n >= k
    OBVIOUS
  <2>4. QED
    BY <1>1, <2>1, <2>2, <2>3 DEF Latest, Max
<1>4. QED
  BY <1>2, <1>3

\* A set of naturals with a bound has its greatest element.
LEMMA GreatestIs ==
  ASSUME NEW n \in Nat, NEW S \in SUBSET (1..n), S # {}
  PROVE  Max(S) \in S /\ \A i \in S : Max(S) >= i
<1> DEFINE U == {n - i : i \in S}
<1>1. U \subseteq Nat /\ U # {}
  <2>1. \A i \in S : n - i \in Nat
    OBVIOUS
  <2>2. PICK i \in S : TRUE
    OBVIOUS
  <2>3. n - i \in U
    OBVIOUS
  <2>4. QED
    BY <2>1, <2>3
<1>2. PICK y \in U : \A z \in U : ~(<<z, y>> \in OpToRel(<, Nat))
  <2> HIDE DEF U
  <2>1. QED
    BY <1>1, WFMin, NatLessThanWellFounded
<1>3. PICK m \in S : y = n - m
  OBVIOUS
<1>4. ASSUME NEW i \in S PROVE m >= i
  <2>1. n - i \in U /\ n - i \in Nat /\ y \in Nat
    BY <1>1
  <2>2. ~(n - i < y)
    BY <1>2, <2>1 DEF OpToRel
  <2>3. QED
    BY <1>3, <2>2
<1>5. QED
  BY <1>4 DEF Max

\* Where a job is among its records, and which policies it has been through.
Walks(r) ==
  /\ r.records \in Seq(Range(r.records))
  /\ \A i \in DOMAIN r.records : r.records[i].id \in Policy
  /\ r.next \in 1..(Len(r.records) + 1)
  /\ (r.at = "persist") <=> (r.next = Len(r.records) + 1)
  /\ DOMAIN r.versions = {r.records[i].id : i \in 1..(r.next - 1)}

\* The record k has been the last word on its policy so far.
LastSoFar(r, k) == \A m \in (k + 1)..(r.next - 1) : r.records[m].id # r.records[k].id

SaysTheSame(row, record) == Canonical(row.snapshot) = Canonical(toSnapshot(record))

\* The job noted the latest revision in the histories hs, which says what the record says.
Agrees(r, hs, k) ==
  LET p == r.records[k].id
  IN  /\ r.versions[p] = Latest(hs[p])
      /\ SaysTheSame(hs[p][Latest(hs[p])], r.records[k])

\* It is so for all policies that it has been through, those in but excepted.
Settled(r, hs, but) ==
  \A k \in 1..(r.next - 1) :
    LastSoFar(r, k) /\ r.records[k].id \notin but => Agrees(r, hs, k)

\* As long as nobody else wrote, a revision that is seen is the latest, and a revision
\* that has just been added says what its record says.
AloneOK(r, hs) ==
  r.alone /\ r.at \in Detecting =>
    LET p == r.records[r.next].id
    IN  /\ Walks(r)
        /\ r.at # "alert" => Settled(r, hs, {})
        /\ r.at = "insert" => r.seen = Latest(hs[p])
        /\ r.at = "alert" =>
             /\ Settled(r, hs, {p})
             /\ r.seen + 1 = Latest(hs[p])
             /\ SaysTheSame(hs[p][r.seen + 1], r.records[r.next])

AloneInv == \A j \in Job : AloneOK(job[j], history)

\* The record that is next is through: its policy is settled as it says, the others
\* as before.
LEMMA AdvancedIsSettled ==
  ASSUME NEW hs, NEW is, NEW r, IsJob(r), Walks(r), r.at # "persist", NEW version,
         Settled(r, hs, {r.records[r.next].id}),
         version = Latest(is[r.records[r.next].id]),
         SaysTheSame(is[r.records[r.next].id][version], r.records[r.next]),
         \A q \in Policy \ {r.records[r.next].id} : is[q] = hs[q]
  PROVE  AloneOK(Advanced(r, version), is)
<1> DEFINE s == Advanced(r, version)
           p == r.records[r.next].id
           n == Len(r.records)
<1>1. s.records = r.records /\ s.next = r.next + 1
  BY DEF Advanced, IsJob, JobField
<1>2. s.at = IF r.next = n THEN "persist" ELSE "detect"
  BY DEF Advanced, IsJob, JobField
<1>3. s.versions =
        [q \in DOMAIN r.versions \cup {p} |-> IF q = p THEN version ELSE r.versions[q]]
  BY DEF Advanced, IsJob, JobField
<1> HIDE DEF s
<1>4. n \in Nat /\ DOMAIN r.records = 1..n
  BY DEF Walks
<1>5. r.next \in 1..(n + 1) /\ r.next # n + 1
  BY DEF Walks
<1> HIDE DEF n
<1>6. n \in Nat /\ r.next \in Nat /\ 1 =< r.next /\ r.next =< n /\ s.next = r.next + 1
  BY <1>1, <1>4, <1>5
<1>7. r.next \in 1..n
  BY <1>6
<1>8. p \in Policy /\ \A i \in 1..n : r.records[i].id \in Policy
  BY <1>4, <1>7 DEF Walks
<1>9. Walks(s)
  <2>1. s.next \in 1..(n + 1) /\ s.next - 1 = r.next /\ (r.next = n <=> s.next = n + 1)
    BY <1>6
  <2>2. (s.at = "persist") <=> (s.next = n + 1)
    BY <1>2, <2>1
  <2>3. DOMAIN s.versions = {s.records[i].id : i \in 1..(s.next - 1)}
    <3>1. DOMAIN s.versions = {r.records[i].id : i \in 1..(r.next - 1)} \cup {p}
      BY <1>3 DEF Walks
    <3>2. 1..r.next = (1..(r.next - 1)) \cup {r.next}
      BY <1>6
    <3>3. {r.records[i].id : i \in 1..r.next} = {r.records[i].id : i \in 1..(r.next - 1)} \cup {p}
      BY <3>2
    <3>4. s.next - 1 = r.next /\ s.records = r.records
      BY <1>1, <2>1
    <3>5. {s.records[i].id : i \in 1..(s.next - 1)} = {r.records[i].id : i \in 1..r.next}
      BY <3>4
    <3>6. QED
      BY <3>1, <3>3, <3>5
  <2>4. s.records \in Seq(Range(s.records)) /\ Len(s.records) = n
        /\ \A i \in DOMAIN s.records : s.records[i].id \in Policy
    BY <1>1 DEF Walks, n
  <2>5. QED
    BY <2>1, <2>2, <2>3, <2>4 DEF Walks
<1>10. Settled(s, is, {})
  <2>1. SUFFICES ASSUME NEW k \in 1..(s.next - 1), LastSoFar(s, k) PROVE Agrees(s, is, k)
    BY DEF Settled
  <2>2. k \in 1..r.next
    BY <1>6
  <2>3. CASE k = r.next
    <3>1. s.versions[p] = version
      BY <1>3
    <3>2. QED
      BY <1>1, <2>3, <3>1 DEF Agrees
  <2>4. CASE k # r.next
    <3>1. k \in 1..(r.next - 1) /\ r.next \in (k + 1)..(s.next - 1) /\ k \in 1..n
      BY <1>6, <2>2, <2>4
    <3>2. r.records[k].id # p
      BY <1>1, <2>1, <3>1 DEF LastSoFar
    <3>3. LastSoFar(r, k)
      <4>1. \A m \in (k + 1)..(r.next - 1) : m \in (k + 1)..(s.next - 1)
        BY <1>6, <3>1
      <4>2. QED
        BY <1>1, <2>1, <4>1 DEF LastSoFar
    <3>4. Agrees(r, hs, k)
      BY <3>1, <3>2, <3>3 DEF Settled
    <3>5. r.records[k].id \in Policy \ {p}
      BY <1>8, <3>1, <3>2
    <3>6. r.records[k].id \in DOMAIN r.versions
      BY <3>1 DEF Walks
    <3>7. s.versions[r.records[k].id] = r.versions[r.records[k].id]
      BY <1>3, <3>2, <3>6
    <3>8. QED
      BY <1>1, <3>4, <3>5, <3>7 DEF Agrees
  <2>5. QED
    BY <2>3, <2>4
<1>11. AloneOK(s, is)
  BY <1>2, <1>9, <1>10 DEF AloneOK
<1>12. QED
  BY <1>11 DEF s

LEMMA SettledMore ==
  ASSUME NEW r, NEW hs, NEW but, Settled(r, hs, {})
  PROVE  Settled(r, hs, but)
BY DEF Settled

\* A job that goes on in a history that stays.
LEMMA ReadingKeepsAlone ==
  ASSUME RevisionInv, AloneInv, UNCHANGED history, NEW j \in Job, NEW to,
         Goes(j, to) \/ GoesWriting(j, to), AloneOK(to, history)
  PROVE  AloneInv'
<1>1. ASSUME NEW k \in Job PROVE AloneOK(job'[k], history)
  <2>1. CASE k = j
    BY <2>1 DEF RevisionInv, Goes, GoesWriting
  <2>2. CASE k # j
    <3>1. job'[k] = job[k] \/ job'[k] = [job[k] EXCEPT !.alone = FALSE]
      BY <2>2 DEF RevisionInv, Goes, GoesWriting
    <3>2. IsJob(job[k]) /\ AloneOK(job[k], history)
      BY DEF RevisionInv, AloneInv
    <3>3. [job[k] EXCEPT !.alone = FALSE].alone = FALSE
      BY <3>2 DEF IsJob, JobField
    <3>4. QED
      BY <3>1, <3>2, <3>3 DEF AloneOK
  <2>3. QED
    BY <2>1, <2>2
<1>2. QED
  BY <1>1 DEF AloneInv

\* A job that writes: the others are no longer alone.
LEMMA WritingKeepsAlone ==
  ASSUME RevisionInv, NEW j \in Job, NEW to, GoesWriting(j, to), AloneOK(to, history')
  PROVE  AloneInv'
<1>1. ASSUME NEW k \in Job PROVE AloneOK(job'[k], history')
  <2>1. CASE k = j
    BY <2>1 DEF GoesWriting
  <2>2. CASE k # j
    <3>1. job'[k] = [job[k] EXCEPT !.alone = FALSE] /\ IsJob(job[k])
      BY <2>2 DEF RevisionInv, GoesWriting
    <3>2. job'[k].alone = FALSE
      BY <3>1 DEF IsJob, JobField
    <3>3. QED
      BY <3>2 DEF AloneOK
  <2>3. QED
    BY <2>1, <2>2
<1>2. QED
  BY <1>1 DEF AloneInv

LEMMA NotAloneIsOK == \A r, hs : ~r.alone => AloneOK(r, hs)
BY DEF AloneOK

\* A job that stays at its record has been through the same.
LEMMA AtTheSameRecord ==
  ASSUME NEW r, NEW s, s.records = r.records, s.next = r.next, s.versions = r.versions,
         r.at # "persist", s.at # "persist", Walks(r)
  PROVE  Walks(s) /\ \A hs, but : Settled(r, hs, but) => Settled(s, hs, but)
<1>1. Walks(s)
  BY DEF Walks
<1>2. ASSUME NEW hs, NEW but, Settled(r, hs, but) PROVE Settled(s, hs, but)
  BY <1>2 DEF Settled, LastSoFar, Agrees
<1>3. QED
  BY <1>1, <1>2

LEMMA LoadKeepsAlone ==
  ASSUME RevisionInv, SourcesOK, AloneInv, NEW j \in Job, NEW failed, ~failed.alone,
         loadPolicyDataset(j, failed)
  PROVE  AloneInv'
<1> DEFINE to == [Idle EXCEPT !.at = IF dataset = <<>> THEN "persist" ELSE "detect",
                              !.records = dataset, !.alone = TRUE]
<1>1. /\ to.at = IF dataset = <<>> THEN "persist" ELSE "detect"
      /\ to.records = dataset /\ to.next = 1 /\ DOMAIN to.versions = {}
  BY DEF Idle, NoDiff
<1>2. UNCHANGED history /\ (Goes(j, to) \/ Goes(j, failed))
  BY DEF loadPolicyDataset
<1> HIDE DEF to
<1>3. dataset \in Seq(Range(dataset)) /\ \A i \in DOMAIN dataset : dataset[i].id \in Policy
  BY DatasetAssumption DEF SourcesOK
<1>4. Len(dataset) \in Nat /\ (dataset = <<>> <=> Len(dataset) = 0)
  BY <1>3
<1>5. Walks(to)
  <2>1. (to.at = "persist") <=> (to.next = Len(to.records) + 1)
    BY <1>1, <1>4
  <2>2. to.next \in 1..(Len(to.records) + 1) /\ 1..(to.next - 1) = {}
    BY <1>1, <1>4
  <2>3. QED
    BY <1>1, <1>3, <2>1, <2>2 DEF Walks
<1>6. Settled(to, history, {})
  BY <1>1 DEF Settled
<1>7. AloneOK(to, history)
  BY <1>1, <1>5, <1>6 DEF AloneOK
<1>8. QED
  BY <1>2, <1>7, NotAloneIsOK, ReadingKeepsAlone

LEMMA CompareKeepsAlone ==
  ASSUME RevisionInv, AloneInv, NEW j \in Job, Compare(j)
  PROVE  AloneInv'
<1> DEFINE r == job[j]
           p == r.records[r.next].id
           latest == Latest(history[p])
           diff == diffSnapshots(history[p][latest].snapshot, Snapshot(j))
           first == [r EXCEPT !.at = "insert"]
           next == [r EXCEPT !.at = "insert", !.seen = latest, !.diff = diff]
<1>1. /\ IsJob(r) /\ Sound(r, history) /\ AloneOK(r, history)
      /\ r.at = "detect" /\ UNCHANGED history
  BY DEF RevisionInv, AloneInv, Compare
<1>2. \/ latest = 0 /\ Goes(j, first)
      \/ /\ SaysTheSame(history[p][latest], r.records[r.next])
         /\ Goes(j, Advanced(r, latest))
      \/ Goes(j, next)
  BY DEF Compare, Current, Snapshot, latestVersion, Latest, SaysTheSame
<1>3. /\ first.at = "insert" /\ first.seen = r.seen /\ first.alone = r.alone
      /\ first.records = r.records /\ first.next = r.next /\ first.versions = r.versions
      /\ next.at = "insert" /\ next.seen = latest /\ next.alone = r.alone
      /\ next.records = r.records /\ next.next = r.next /\ next.versions = r.versions
      /\ Advanced(r, latest).alone = r.alone
  <2> HIDE DEF latest, diff
  <2> QED
    BY <1>1 DEF IsJob, JobField, Advanced
<1> HIDE DEF first, next, latest, diff
<1>4. CASE ~r.alone
  <2>1. AloneOK(first, history) /\ AloneOK(next, history) /\ AloneOK(Advanced(r, latest), history)
    BY <1>3, <1>4, NotAloneIsOK
  <2>2. QED
    BY <1>1, <1>2, <2>1, ReadingKeepsAlone
<1>5. CASE r.alone
  <2>1. Walks(r) /\ Settled(r, history, {}) /\ r.seen = 0
    BY <1>1, <1>5 DEF AloneOK, Detecting, Sound
  <2>2. /\ Walks(first) /\ Settled(first, history, {})
        /\ Walks(next) /\ Settled(next, history, {})
    BY <1>1, <1>3, <2>1, AtTheSameRecord
  <2>3. latest = 0 => AloneOK(first, history)
    BY <1>3, <2>1, <2>2 DEF AloneOK, latest
  <2>4. AloneOK(next, history)
    BY <1>3, <2>2 DEF AloneOK, latest
  <2>5. SaysTheSame(history[p][latest], r.records[r.next]) => AloneOK(Advanced(r, latest), history)
    <3>1. Settled(r, history, {p})
      BY <2>1, SettledMore
    <3>2. latest = Latest(history[p])
      BY DEF latest
    <3>3. QED
      BY <1>1, <2>1, <3>1, <3>2, AdvancedIsSettled
  <2>6. QED
    BY <1>1, <1>2, <2>3, <2>4, <2>5, ReadingKeepsAlone
<1>6. QED
  BY <1>4, <1>5

LEMMA AddRevisionKeepsAlone ==
  ASSUME RevisionInv, AloneInv, NEW j \in Job, AddRevision(j)
  PROVE  AloneInv'
<1> DEFINE r == job[j]
           p == r.records[r.next].id
           version == r.seen + 1
           row == Revision(Snapshot(j), r.diff, IF r.seen = 0 THEN "new" ELSE "updated")
           raise == [r EXCEPT !.at = "alert"]
           to == IF r.seen = 0 THEN Advanced(r, version) ELSE raise
<1>1. IsJob(r) /\ AloneOK(r, history) /\ r.at = "insert"
  BY DEF RevisionInv, AloneInv, AddRevision
<1>2. history' = [history EXCEPT ![p] = With(@, version, row)] /\ GoesWriting(j, to)
  BY DEF AddRevision, insertVersion, With, Current
<1>3. row.snapshot = toSnapshot(r.records[r.next])
  BY DEF Revision, Snapshot, Current
<1>4. /\ raise.at = "alert" /\ raise.seen = r.seen /\ raise.alone = r.alone
      /\ raise.records = r.records /\ raise.next = r.next /\ raise.versions = r.versions
      /\ Advanced(r, version).alone = r.alone
  BY <1>1 DEF IsJob, JobField, Advanced
<1> HIDE DEF row, raise
<1>5. CASE ~r.alone
  <2>1. AloneOK(to, history')
    BY <1>4, <1>5, NotAloneIsOK
  <2>2. QED
    BY <1>2, <2>1, WritingKeepsAlone
<1>6. CASE r.alone
  <2>1. Walks(r) /\ Settled(r, history, {}) /\ r.seen = Latest(history[p])
    BY <1>1, <1>6 DEF AloneOK, Detecting
  <2>2. p \in Policy /\ \A i \in 1..(r.next - 1) : r.records[i].id \in Policy
    BY <1>1, <2>1 DEF Walks
  <2>3. PICK n \in Nat : history[p] = [v \in 1..n |-> history[p][v]]
    BY <2>2 DEF RevisionInv, HistoryOK
  <2>4. r.seen = n /\ DOMAIN history[p] = 1..n
    BY <2>1, <2>3, LatestIs
  <2>5. history'[p] = With(history[p], n + 1, row)
    BY <1>2, <2>2, <2>4 DEF RevisionInv
  <2>6. \A q \in Policy \ {p} : history'[q] = history[q]
    BY <1>2 DEF RevisionInv
  <2>7. history'[p][n + 1] = row /\ history'[p] = [v \in 1..(n + 1) |-> history'[p][v]]
    <3>1. (1..n) \cup {n + 1} = 1..(n + 1) /\ n + 1 \notin 1..n
      OBVIOUS
    <3>2. history'[p] = [v \in 1..(n + 1) |-> IF v \in 1..n THEN history[p][v] ELSE row]
      BY <2>4, <2>5, <3>1 DEF With
    <3>3. QED
      BY <3>1, <3>2
  <2>8. Latest(history'[p]) = n + 1 /\ version = n + 1
    <3>1. n + 1 \in Nat /\ version = n + 1
      BY <2>4
    <3>2. Latest(history'[p]) = n + 1
      BY <2>7, <3>1, LatestIs
    <3>3. QED
      BY <3>1, <3>2
  <2>9. SaysTheSame(history'[p][version], r.records[r.next])
    BY <1>3, <2>7, <2>8 DEF SaysTheSame
  <2>10. Settled(r, history, {p})
    BY <2>1, SettledMore
  <2>11. AloneOK(Advanced(r, version), history')
    <3>1. version = Latest(history'[p]) /\ r.at # "persist"
      BY <1>1, <2>8
    <3>2. IsJob(r) /\ Walks(r)
      BY <1>1, <2>1
    <3> HIDE DEF version, to, r
    <3>3. QED
      BY <2>6, <2>9, <2>10, <3>1, <3>2, AdvancedIsSettled
  <2>12. AloneOK(raise, history')
    <3>1. Settled(r, history', {p})
      BY <2>2, <2>6, <2>10 DEF Settled, Agrees
    <3>2. Walks(raise) /\ Settled(raise, history', {p})
      BY <1>1, <1>4, <2>1, <3>1, AtTheSameRecord
    <3>3. QED
      BY <1>4, <2>8, <2>9, <3>2 DEF AloneOK
  <2>13. QED
    BY <1>2, <2>11, <2>12, WritingKeepsAlone
<1>7. QED
  BY <1>5, <1>6

LEMMA InsertAlertKeepsAlone ==
  ASSUME RevisionInv, AloneInv, NEW j \in Job, insertAlert(j)
  PROVE  AloneInv'
<1> DEFINE r == job[j]
           p == r.records[r.next].id
           version == r.seen + 1
<1>1. /\ IsJob(r) /\ AloneOK(r, history) /\ r.at = "alert" /\ UNCHANGED history
      /\ GoesWriting(j, Advanced(r, version))
  BY DEF RevisionInv, AloneInv, insertAlert
<1>2. AloneOK(Advanced(r, version), history)
  <2>1. CASE ~r.alone
    <3>1. Advanced(r, version).alone = r.alone
      BY <1>1 DEF IsJob, JobField, Advanced
    <3>2. QED
      BY <2>1, <3>1, NotAloneIsOK
  <2>2. CASE r.alone
    <3>1. /\ Walks(r) /\ Settled(r, history, {p}) /\ version = Latest(history[p])
          /\ SaysTheSame(history[p][version], r.records[r.next])
      BY <1>1, <2>2 DEF AloneOK, Detecting
    <3>2. QED
      BY <1>1, <3>1, AdvancedIsSettled
  <2>3. QED
    BY <2>1, <2>2
<1>3. QED
  BY <1>1, <1>2, ReadingKeepsAlone

\* Where nobody is at work on policies, nobody is alone.
LEMMA ElsewhereIsNotAlone ==
  ~Idle.alone /\ (\A where : ~At(where).alone) /\ \A j, outcome : ~After(j, outcome).alone
BY DEF Idle, At, After

LEMMA ElsewhereKeepsAlone ==
  ASSUME RevisionInv, AloneInv, UNCHANGED history, NEW j \in Job, NEW to, ~to.alone,
         Goes(j, to) \/ GoesWriting(j, to)
  PROVE  AloneInv'
BY NotAloneIsOK, ReadingKeepsAlone

LEMMA KillKeepsAlone ==
  ASSUME RevisionInv, AloneInv, NEW process \in Process, Kill(process)
  PROVE  AloneInv'
<1>1. /\ UNCHANGED history
      /\ job' = [j \in Job |-> IF ProcessOf(j) = process THEN Idle ELSE job[j]]
  BY DEF Kill, regulationsUnchanged
<1>2. \A j \in Job : job'[j] = Idle \/ job'[j] = job[j]
  BY <1>1
<1>3. AloneOK(Idle, history)
  BY ElsewhereIsNotAlone, NotAloneIsOK
<1>4. QED
  BY <1>1, <1>2, <1>3 DEF AloneInv

LEMMA AloneStep ==
  RevisionInv /\ SourcesOK /\ AloneInv /\ [IngestionNext]_ingestionVars => AloneInv'
<1> SUFFICES ASSUME RevisionInv, SourcesOK, AloneInv, [IngestionNext]_ingestionVars
             PROVE  AloneInv'
  OBVIOUS
<1>1. CASE BootServer
  <2>1. Boot \in Job
    BY IngestionAssumption
  <2>2. UNCHANGED history /\ \E to \in {At("load"), At("fetch"), Idle} : Goes(Boot, to)
    BY <1>1 DEF BootServer, regulationsUnchanged
  <2>3. QED
    BY <2>1, <2>2, ElsewhereIsNotAlone, ElsewhereKeepsAlone
<1>2. ASSUME NEW j \in Job, IngestPolicies(j) PROVE AloneInv'
  <2>1. CASE loadPolicyDataset(j, After(j, "failed"))
    BY <2>1, ElsewhereIsNotAlone, LoadKeepsAlone
  <2>2. CASE Detect(j)
    BY <2>2, CompareKeepsAlone, AddRevisionKeepsAlone, InsertAlertKeepsAlone DEF Detect
  <2>3. CASE persistPolicies(j, After(j, "stored"), After(j, "failed"))
    <3>1. UNCHANGED history
          /\ \E to \in {After(j, "stored"), After(j, "failed")} : GoesWriting(j, to)
      BY <2>3 DEF persistPolicies
    <3>2. QED
      BY <3>1, ElsewhereIsNotAlone, ElsewhereKeepsAlone
  <2>4. QED
    BY <1>2, <2>1, <2>2, <2>3 DEF IngestPolicies
<1>3. ASSUME NEW j \in Job,
             fetchGithubIssues(j) \/ persistGithub(j) \/ persistSeed(j) \/ WriteFails(j) \/ StartJob(j)
      PROVE  AloneInv'
  <2>1. UNCHANGED history
    BY <1>3 DEF fetchGithubIssues, persistGithub, persistSeed, WriteFails, StartJob, regulationsUnchanged
  <2>2. \E to \in {At("store"), At("seed"), At("load"), Idle, After(j, "failed")} : Goes(j, to)
    BY <1>3 DEF fetchGithubIssues, persistGithub, persistSeed, WriteFails, StartJob
  <2>3. QED
    BY <2>1, <2>2, ElsewhereIsNotAlone, ElsewhereKeepsAlone
<1>4. ASSUME NEW process \in Process, Kill(process) PROVE AloneInv'
  BY <1>4, KillKeepsAlone
<1>5. ASSUME UNCHANGED <<history, job>> PROVE AloneInv'
  BY <1>5 DEF AloneInv
<1>6. CASE Listen \/ StopAtIndexer \/ EditDataset \/ GithubChanges \/ Acknowledge
  <2>1. UNCHANGED <<history, job>>
    BY <1>6 DEF Listen, StopAtIndexer, EditDataset, Edit, GithubChanges, Acknowledge, acknowledgeAlert,
                regulationsUnchanged
  <2>2. QED
    BY <1>5, <2>1
<1>7. CASE UNCHANGED ingestionVars
  BY <1>5, <1>7 DEF ingestionVars, regulationVars
<1>8. QED
  BY <1>1, <1>2, <1>3, <1>4, <1>6, <1>7 DEF IngestionNext, JobSteps

LEMMA AloneInit == IngestionInit => AloneInv
<1> SUFFICES ASSUME IngestionInit PROVE AloneInv
  OBVIOUS
<1>1. job = [j \in Job |-> Idle]
  BY DEF IngestionInit, RegulationsInit
<1>2. QED
  BY <1>1, ElsewhereIsNotAlone, NotAloneIsOK DEF AloneInv

\* What the action property says of the job j.
Converges(j) ==
  \A p \in {job[j].records[i].id : i \in DOMAIN job[j].records} :
    LET row == policies'[p] IN
    /\ \E i \in DOMAIN job[j].records :
         job[j].records[i].id = p /\ row.snapshot = toSnapshot(job[j].records[i])
    /\ row.version = latestVersion(p)
    /\ Canonical(row.snapshot) = Canonical(history[p][latestVersion(p)].snapshot)

\* What an undisturbed job stores is what its file says last of each policy, under
\* the revision that says so.
LEMMA StoringConverges ==
  ASSUME AloneInv, NEW j \in Job, job[j].alone, NEW done, NEW failed,
         persistPolicies(j, done, failed)
  PROVE  Converges(j)
<1> DEFINE r == job[j]
           n == Len(r.records)
<1>1. r.at = "persist"
  BY DEF persistPolicies
<1>2. /\ Walks(r) /\ Settled(r, history, {})
  BY <1>1 DEF AloneInv, AloneOK, Detecting
<1>3. n \in Nat /\ DOMAIN r.records = 1..n /\ r.next = n + 1
  BY <1>1, <1>2 DEF Walks
<1> SUFFICES ASSUME NEW p \in {r.records[i].id : i \in 1..n}
             PROVE  LET row == policies'[p] IN
                    /\ \E i \in 1..n :
                         r.records[i].id = p /\ row.snapshot = toSnapshot(r.records[i])
                    /\ row.version = latestVersion(p)
                    /\ Canonical(row.snapshot) = Canonical(history[p][latestVersion(p)].snapshot)
  BY <1>3 DEF Converges
<1> DEFINE S == {i \in 1..n : r.records[i].id = p}
           k == LastOf(j, p)
<1>4. k = Max(S)
  BY <1>3 DEF LastOf
<1>5. k \in S /\ \A i \in S : k >= i
  <2>1. S \in SUBSET (1..n) /\ S # {}
    OBVIOUS
  <2> HIDE DEF S, k
  <2>2. QED
    BY <1>3, <1>4, <2>1, GreatestIs
<1> HIDE DEF k
<1>6. k \in 1..n /\ r.records[k].id = p
  BY <1>5
<1>7. LastSoFar(r, k)
  <2> SUFFICES ASSUME NEW m \in (k + 1)..(r.next - 1), r.records[m].id = p PROVE FALSE
    BY <1>6 DEF LastSoFar
  <2>1. m \in 1..n /\ ~(k >= m)
    BY <1>3, <1>6
  <2>2. QED
    BY <1>5, <2>1
<1>8. k \in 1..(r.next - 1)
  BY <1>3, <1>6
<1>9. Agrees(r, history, k)
  BY <1>2, <1>7, <1>8 DEF Settled
<1>10. /\ r.versions[p] = latestVersion(p)
       /\ SaysTheSame(history[p][latestVersion(p)], r.records[k])
  BY <1>6, <1>9 DEF Agrees, Latest, latestVersion
<1>11. p \in DOMAIN r.versions
  BY <1>2, <1>6, <1>8 DEF Walks
<1>12. policies'[p] = [snapshot |-> toSnapshot(r.records[k]), version |-> r.versions[p]]
  BY <1>11 DEF persistPolicies, RowOf, k
<1>13. QED
  BY <1>6, <1>10, <1>12 DEF SaysTheSame

LEMMA ConvergingStep ==
  ASSUME RevisionInv, AloneInv, [IngestionNext]_ingestionVars, NEW j \in Job,
         job[j].at # job'[j].at, job[j].alone, policies' # policies
  PROVE  Converges(j)
<1>1. PICK k \in Job : persistPolicies(k, After(k, "stored"), After(k, "failed"))
  BY DEF IngestionNext, BootServer, Listen, StopAtIndexer, StartJob, JobSteps, IngestPolicies,
         WriteFails, Kill, EditDataset, Edit, GithubChanges, Acknowledge, acknowledgeAlert, fetchGithubIssues,
         persistGithub, persistSeed, loadPolicyDataset, Detect, Compare, AddRevision, insertAlert,
         regulationsUnchanged, ingestionVars, regulationVars
<1>2. \E to : GoesWriting(k, to)
  BY <1>1 DEF persistPolicies
<1>3. k = j
  BY <1>2, GoingIsAlone DEF OnlyGoes, SameTask
<1>4. QED
  BY <1>1, <1>3, StoringConverges

\* A job during which nobody else wrote, among however many jobs, leaves the current
\* policies, the latest revisions and its file in agreement, whatever earlier jobs
\* left behind (regulations.ts 302-356, policies.ts 199-251).
THEOREM UndisturbedJobsConverge == IngestionSpec => JobsConverge
<1> DEFINE Inv == RevisionInv /\ AlertsInv /\ AloneInv
<1>1. IngestionInit => Inv
  BY RevisionInit, AlertsInvInit, AloneInit
<1>2. Inv /\ [IngestionNext]_ingestionVars => Inv'
  BY RevisionStep, AlertsInvStep, AloneStep DEF AlertsInv
<1>3. Inv /\ [IngestionNext]_ingestionVars =>
        [\A j \in Job : job[j].at # job'[j].at /\ job[j].alone /\ policies' # policies =>
           Converges(j)]_regulationVars
  BY ConvergingStep
<1> HIDE DEF Inv
<1>4. QED
  BY <1>1, <1>2, <1>3, PTL DEF IngestionSpec, JobsConverge, Converges

-----------------------------------------------------------------------------
(* The panel (HistoryPanel.tla) shows what is stored.                      *)

\* Differences, alerts and revisions that somebody may be told of now, and which
\* stay true whatever is written later.
TrueDiff(d) ==
  d # None =>
    /\ d.policy \in Policy
    /\ {d.from, d.to} \subseteq DOMAIN history[d.policy]
    /\ d.from - d.to \in {-1, 1}
    /\ d.changes = diffVersions(d.policy, d.from, d.to)

TrueAlerts(shownAlerts) ==
  \A i \in DOMAIN shownAlerts :
    /\ i \in DOMAIN alerts
    /\ shownAlerts[i].policy \in Policy
    /\ shownAlerts[i].acknowledged => alerts[i].acknowledged

TrueVersions(versions) == \A v \in versions : v[1] \in Policy /\ v[2] \in DOMAIN history[v[1]]

\* A list of revisions ends with two neighbours.
Neighbours(list) == Len(list) >= 2 => list[Len(list) - 1] - list[Len(list)] \in {-1, 1}

\* What a flow asks for, and what the answer on its way tells.
FlowOK(flow) ==
  /\ flow = [f \in {"asks", "args", "answer"} |-> flow[f]]
  /\ flow.asks = "lists" /\ flow.answer # None =>
       /\ flow.answer.versions # None => TrueVersions(flow.answer.versions)
       /\ flow.answer.alerts # None => TrueAlerts(flow.answer.alerts)
  /\ flow.asks = "versions" =>
       /\ flow.args.policy \in Policy
       /\ flow.answer # None => Neighbours(flow.answer)
  /\ flow.asks = "diff" =>
       /\ \E p \in Policy : \E m, n :
            /\ m - n \in {-1, 1}
            /\ flow.args = [policy |-> p, from |-> m, to |-> n, changes |-> None]
       /\ flow.answer # None /\ flow.answer.changes # None => TrueDiff(flow.answer)

ShownOK ==
  /\ shown = [f \in {"selected", "diff", "alerts", "versions"} |-> shown[f]]
  /\ TrueDiff(shown.diff)
  /\ TrueAlerts(shown.alerts)
  /\ TrueVersions(shown.versions)

PanelInv ==
  /\ RevisionInv
  /\ AlertsInv
  /\ \E S : flows \in Seq(S)
  /\ \A f \in DOMAIN flows : FlowOK(flows[f])
  /\ ShownOK

\* What was true of the tables stays true.
LEMMA TruthStays ==
  ASSUME AlertsInv, Kept(history, history'), AlertsKept
  PROVE  /\ \A d : TrueDiff(d) => TrueDiff(d)'
         /\ \A a : TrueAlerts(a) => TrueAlerts(a)'
         /\ \A v : TrueVersions(v) => TrueVersions(v)'
<1>1. ASSUME NEW d, TrueDiff(d)  PROVE TrueDiff(d)'
  <2>1. CASE d = None
    BY <2>1 DEF TrueDiff
  <2>2. CASE d # None
    <3>1. \A v \in {d.from, d.to} :
            v \in DOMAIN history'[d.policy] /\ history'[d.policy][v] = history[d.policy][v]
      BY <1>1, <2>2 DEF TrueDiff, Kept
    <3>2. diffVersions(d.policy, d.from, d.to)' = diffVersions(d.policy, d.from, d.to)
      BY <3>1 DEF diffVersions
    <3>3. QED
      BY <1>1, <2>2, <3>1, <3>2 DEF TrueDiff
  <2>3. QED
    BY <2>1, <2>2
<1>2. ASSUME NEW a, TrueAlerts(a)  PROVE TrueAlerts(a)'
  <2>1. ASSUME NEW i \in DOMAIN a
        PROVE  i \in DOMAIN alerts' /\ (a[i].acknowledged => alerts'[i].acknowledged)
    <3>1. i \in DOMAIN alerts /\ IsAlert(alerts[i]) /\ (a[i].acknowledged => alerts[i].acknowledged)
      BY <1>2 DEF TrueAlerts, AlertsInv
    <3>2. /\ i \in DOMAIN alerts'
          /\ alerts'[i] = alerts[i] \/ alerts'[i] = [alerts[i] EXCEPT !.acknowledged = TRUE]
      BY <3>1 DEF AlertsKept
    <3>3. "acknowledged" \in DOMAIN alerts[i]
      BY <3>1 DEF IsAlert, AlertField
    <3>4. QED
      BY <3>1, <3>2, <3>3
  <2>2. QED
    BY <1>2, <2>1 DEF TrueAlerts
<1>3. ASSUME NEW v, TrueVersions(v)  PROVE TrueVersions(v)'
  BY <1>3 DEF TrueVersions, Kept
<1>4. QED
  BY <1>1, <1>2, <1>3

LEMMA FlowStays ==
  ASSUME AlertsInv, Kept(history, history'), AlertsKept, NEW flow, FlowOK(flow)
  PROVE  FlowOK(flow)'
BY TruthStays DEF FlowOK

LEMMA ShownStays ==
  ASSUME AlertsInv, Kept(history, history'), AlertsKept, ShownOK, UNCHANGED shown
  PROVE  ShownOK'
BY TruthStays DEF ShownOK

-----------------------------------------------------------------------------
(* The panel: its steps.                                                   *)

\* A click adds a flow, an answer changes one.
LEMMA FlowsGoOn ==
  ASSUME PanelInv, Kept(history, history'), AlertsKept, NEW x, FlowOK(x)',
         \/ flows' = Append(flows, x)
         \/ \E f \in DOMAIN flows : flows' = [flows EXCEPT ![f] = x]
  PROVE  (\E S : flows' \in Seq(S)) /\ \A f \in DOMAIN flows' : FlowOK(flows[f])'
<1>1. PICK S : flows \in Seq(S)
  BY DEF PanelInv
<1>2. flows \in Seq(S \cup {x}) /\ x \in S \cup {x}
  BY <1>1
<1>3. /\ flows' \in Seq(S \cup {x})
      /\ \A f \in DOMAIN flows' : flows'[f] = x \/ (f \in DOMAIN flows /\ flows'[f] = flows[f])
  <2>1. CASE flows' = Append(flows, x)
    BY <1>2, <2>1
  <2>2. CASE \E f \in DOMAIN flows : flows' = [flows EXCEPT ![f] = x]
    BY <1>2, <2>2
  <2>3. QED
    BY <2>1, <2>2
<1>4. ASSUME NEW f \in DOMAIN flows, flows'[f] = flows[f]  PROVE FlowOK(flows[f])'
  <2>1. FlowOK(flows[f])
    BY DEF PanelInv
  <2>2. \A flow : FlowOK(flow) => FlowOK(flow)'
    BY FlowStays DEF PanelInv
  <2>3. QED
    BY <1>4, <2>1, <2>2
<1>5. QED
  BY <1>3, <1>4

LEMMA AskedIsOK ==
  ASSUME NEW what, NEW args,
         what = "versions" => args.policy \in Policy,
         what = "diff" => \E p \in Policy : \E m, n :
            m - n \in {-1, 1} /\ args = [policy |-> p, from |-> m, to |-> n, changes |-> None]
  PROVE  FlowOK(Asks(what, args)) /\ FlowOK(Asks(what, args))'
<1> DEFINE x == Asks(what, args)
<1>1. /\ x = [f \in {"asks", "args", "answer"} |-> x[f]]
      /\ x.asks = what /\ x.args = args /\ x.answer = None
  BY DEF Asks
<1> HIDE DEF x
<1>2. FlowOK(x) /\ FlowOK(x)'
  BY <1>1 DEF FlowOK
<1>3. QED
  BY <1>2 DEF x

\* Steps of the panel that leave the tables alone.
LEMMA TablesKept ==
  ASSUME PanelInv, UNCHANGED <<regulationVars, server, kills, failures>>,
         UNCHANGED left \/ Spend("clicks")
  PROVE  RevisionInv' /\ AlertsInv' /\ Kept(history, history') /\ AlertsKept
<1>1. UNCHANGED <<dataset, history, alerts, job>>
  BY DEF regulationVars
<1>2. SourcesOK'
  BY <1>1, SpendingKeepsFiles DEF PanelInv, AlertsInv, SourcesOK
<1>3. AlertsOK' /\ AlertsKept /\ \A i \in DOMAIN alerts' : IsAlert(alerts'[i])
  BY <1>1, SameAlerts DEF PanelInv, AlertsInv
<1>4. QED
  BY <1>1, <1>2, <1>3, UnchangedKeeps, JoblessKeepsAlerts DEF PanelInv

LEMMA LoadKeepsPanel ==
  ASSUME PanelInv, Load
  PROVE  PanelInv' /\ Kept(history, history') /\ AlertsKept
<1>1. RevisionInv' /\ AlertsInv' /\ Kept(history, history') /\ AlertsKept
  BY TablesKept DEF Load, tablesUnchanged, Start
<1>2. flows' = Append(flows, Asks("lists", None)) /\ UNCHANGED shown
  BY DEF Load, Start
<1>3. (\E S : flows' \in Seq(S)) /\ \A f \in DOMAIN flows' : FlowOK(flows[f])'
  BY <1>1, <1>2, AskedIsOK, FlowsGoOn
<1>4. ShownOK'
  BY <1>1, <1>2, ShownStays DEF PanelInv
<1>5. QED
  BY <1>1, <1>3, <1>4 DEF PanelInv

LEMMA ShowHistoryKeepsPanel ==
  ASSUME PanelInv, NEW p \in Policy, showHistory(p)
  PROVE  PanelInv' /\ Kept(history, history') /\ AlertsKept
<1>1. RevisionInv' /\ AlertsInv' /\ Kept(history, history') /\ AlertsKept
  BY TablesKept DEF showHistory, tablesUnchanged, Start
<1>2. flows' = Append(flows, Asks("versions", [policy |-> p]))
  BY DEF showHistory, Start
<1>3. (\E S : flows' \in Seq(S)) /\ \A f \in DOMAIN flows' : FlowOK(flows[f])'
  <2>1. FlowOK(Asks("versions", [policy |-> p]))'
    BY AskedIsOK
  <2>2. QED
    BY <1>1, <1>2, <2>1, FlowsGoOn
<1>4. ShownOK'
  <2>1. shown' = [shown EXCEPT !.selected = p, !.diff = None]
    BY DEF showHistory
  <2>2. /\ shown' = [f \in {"selected", "diff", "alerts", "versions"} |-> shown'[f]]
        /\ shown'.diff = None /\ shown'.alerts = shown.alerts /\ shown'.versions = shown.versions
    BY <2>1 DEF PanelInv, ShownOK
  <2>3. TrueAlerts(shown.alerts)' /\ TrueVersions(shown.versions)'
    <3>1. TrueAlerts(shown.alerts) /\ TrueVersions(shown.versions)
      BY DEF PanelInv, ShownOK
    <3>2. (\A a : TrueAlerts(a) => TrueAlerts(a)') /\ (\A v : TrueVersions(v) => TrueVersions(v)')
      BY <1>1, TruthStays DEF PanelInv
    <3>3. QED
      BY <2>2, <3>1, <3>2
  <2>4. QED
    BY <2>2, <2>3 DEF ShownOK, TrueDiff
<1>5. QED
  BY <1>1, <1>3, <1>4 DEF PanelInv

LEMMA AckKeepsPanel ==
  ASSUME PanelInv, NEW i, ack(i)
  PROVE  PanelInv' /\ Kept(history, history') /\ AlertsKept
<1>1. RevisionInv' /\ AlertsInv' /\ Kept(history, history') /\ AlertsKept
  BY TablesKept DEF ack, tablesUnchanged, Start
<1>2. flows' = Append(flows, Asks("ack", [alert |-> i])) /\ UNCHANGED shown
  BY DEF ack, Start
<1>3. (\E S : flows' \in Seq(S)) /\ \A f \in DOMAIN flows' : FlowOK(flows[f])'
  <2>1. FlowOK(Asks("ack", [alert |-> i]))'
    BY AskedIsOK
  <2>2. QED
    BY <1>1, <1>2, <2>1, FlowsGoOn
<1>4. ShownOK'
  BY <1>1, <1>2, ShownStays DEF PanelInv
<1>5. QED
  BY <1>1, <1>3, <1>4 DEF PanelInv

-----------------------------------------------------------------------------
(* The panel: answers.                                                     *)

LEMMA NeighboursAreListed ==
  ASSUME RevisionInv, NEW p \in Policy
  PROVE  Neighbours(listVersions(p))
<1>1. PICK n \in Nat : history[p] = [v \in 1..n |-> history[p][v]]
  BY DEF RevisionInv, HistoryOK
<1>2. Cardinality(DOMAIN history[p]) = n
  <2>1. DOMAIN history[p] = 1..n
    BY <1>1
  <2>2. Cardinality(1..n) = n
    BY FS_Interval
  <2>3. QED
    BY <2>1, <2>2
<1> DEFINE up == [v \in 1..n |-> v]
<1>3. up \in Seq(Nat) /\ Len(up) = n /\ \A v \in 1..n : up[v] = v
  OBVIOUS
<1>4. listVersions(p) = Reverse(up)
  BY <1>2 DEF listVersions
<1> HIDE DEF up
<1> DEFINE down == [i \in 1..n |-> up[(n - i) + 1]]
<1>5. Reverse(up) = down
  BY <1>3 DEF Reverse
<1>6. down \in Seq(Nat) /\ Len(down) = n /\ \A i \in 1..n : down[i] = (n - i) + 1
  BY <1>3
<1> HIDE DEF down
<1>7. Neighbours(down)
  BY <1>6 DEF Neighbours
<1>8. QED
  BY <1>4, <1>5, <1>7

LEMMA ListedIsTrue ==
  ASSUME PanelInv
  PROVE  TrueVersions(Listed) /\ TrueAlerts(alerts)
<1>1. TrueVersions(Listed)
  BY DEF TrueVersions, Listed
<1>2. TrueAlerts(alerts)
  BY DEF TrueAlerts, PanelInv, AlertsInv, IsAlert
<1>3. QED
  BY <1>1, <1>2

\* The flow f has its answer.
Answered(f, answer) == flows' = [flows EXCEPT ![f] = [flows[f] EXCEPT !.answer = answer]]

LEMMA ServeKeepsPanel ==
  ASSUME PanelInv, NEW f \in DOMAIN flows, Serve(f)
  PROVE  PanelInv' /\ Kept(history, history') /\ AlertsKept
<1> DEFINE flow == flows[f]
<1>1. FlowOK(flow) /\ UNCHANGED <<shown, server, left, kills, failures>>
  BY DEF PanelInv, Serve
<1>2. PICK answer :
        /\ Answered(f, answer)
        /\ \/ /\ flow.asks = "lists" /\ UNCHANGED regulationVars
              /\ answer \in AnswersLists
           \/ /\ flow.asks = "versions" /\ UNCHANGED regulationVars
              /\ answer = listVersions(flow.args.policy)
           \/ /\ flow.asks = "diff" /\ UNCHANGED regulationVars
              /\ answer = RegulationDiff(flow.args)
           \/ /\ flow.asks = "ack" /\ acknowledgeAlert(flow.args.alert)
  BY DEF Serve, Answered
<1>3. RevisionInv' /\ AlertsInv' /\ Kept(history, history') /\ AlertsKept
  <2>1. CASE UNCHANGED regulationVars
    BY <1>1, <2>1, TablesKept
  <2>2. CASE acknowledgeAlert(flow.args.alert)
    <3>1. UNCHANGED <<dataset, history, job>> /\ flow.args.alert \in DOMAIN alerts
      BY <2>2 DEF acknowledgeAlert
    <3>2. AlertsOK' /\ AlertsKept /\ \A k \in DOMAIN alerts' : IsAlert(alerts'[k])
      BY <2>2, <3>1, AcknowledgeKeepsAlerts, AcknowledgedIsAlert DEF PanelInv, AlertsInv
    <3>3. SourcesOK'
      BY <1>1, <3>1 DEF PanelInv, AlertsInv, SourcesOK
    <3>4. QED
      BY <1>1, <3>1, <3>2, <3>3, UnchangedKeeps, JoblessKeepsAlerts DEF PanelInv
  <2>3. QED
    BY <1>2, <2>1, <2>2
<1>0. PICK x : x = [flow EXCEPT !.answer = answer]
  OBVIOUS
<1>4. /\ x = [g \in {"asks", "args", "answer"} |-> x[g]]
      /\ x.asks = flow.asks /\ x.args = flow.args /\ x.answer = answer
  BY <1>0, <1>1 DEF FlowOK
<1>5. flow.asks = "lists" =>
        /\ answer.versions # None => TrueVersions(answer.versions)
        /\ answer.alerts # None => TrueAlerts(answer.alerts)
  BY <1>2, ListedIsTrue DEF AnswersLists
<1>6. flow.asks = "versions" => Neighbours(answer)
  BY <1>1, <1>2, NeighboursAreListed DEF FlowOK, PanelInv
<1>7. flow.asks = "diff" /\ answer # None /\ answer.changes # None => TrueDiff(answer)
  <2> SUFFICES ASSUME flow.asks = "diff", answer.changes # None PROVE TrueDiff(answer)
    OBVIOUS
  <2>0. PICK p \in Policy : \E m, n :
          m - n \in {-1, 1} /\ flow.args = [policy |-> p, from |-> m, to |-> n, changes |-> None]
    BY <1>1 DEF FlowOK
  <2>1. PICK m, n :
          m - n \in {-1, 1} /\ flow.args = [policy |-> p, from |-> m, to |-> n, changes |-> None]
    BY <2>0
  <2>2. answer = RegulationDiff(flow.args)
    BY <1>2
  <2>3. /\ {m, n} \subseteq DOMAIN history[p]
        /\ answer = [policy |-> p, from |-> m, to |-> n, changes |-> diffVersions(p, m, n)]
    BY <2>1, <2>2 DEF RegulationDiff
  <2>4. QED
    BY <2>1, <2>3 DEF TrueDiff
<1>8. FlowOK(x)
  BY <1>1, <1>4, <1>5, <1>6, <1>7 DEF FlowOK
<1>9. FlowOK(x)'
  BY <1>3, <1>8, FlowStays DEF PanelInv
<1>10. flows' = [flows EXCEPT ![f] = x]
  BY <1>0, <1>2 DEF Answered
<1>11. (\E S : flows' \in Seq(S)) /\ \A g \in DOMAIN flows' : FlowOK(flows[g])'
  BY <1>3, <1>9, <1>10, FlowsGoOn
<1>12. ShownOK'
  BY <1>1, <1>3, ShownStays DEF PanelInv
<1>13. QED
  BY <1>3, <1>11, <1>12 DEF PanelInv

LEMMA ArriveKeepsPanel ==
  ASSUME PanelInv, NEW f \in DOMAIN flows, Arrive(f)
  PROVE  PanelInv' /\ Kept(history, history') /\ AlertsKept
<1> DEFINE flow == flows[f]
           answer == flow.answer
<1>1. FlowOK(flow) /\ answer # None
  BY DEF PanelInv, Arrive
<1>2. RevisionInv' /\ AlertsInv' /\ Kept(history, history') /\ AlertsKept
  BY TablesKept DEF Arrive, tablesUnchanged
<1>3. UNCHANGED <<history, alerts>>
  BY DEF Arrive, tablesUnchanged, regulationVars
<1>4. ASSUME NEW x, FlowOK(x), flows' = [flows EXCEPT ![f] = x]
      PROVE  (\E S : flows' \in Seq(S)) /\ \A g \in DOMAIN flows' : FlowOK(flows[g])'
  <2>1. FlowOK(x)'
    BY <1>2, <1>4, FlowStays DEF PanelInv
  <2>2. QED
    BY <1>2, <1>4, <2>1, FlowsGoOn
<1>5. ASSUME ShownOK', NEW x, FlowOK(x), flows' = [flows EXCEPT ![f] = x]  PROVE PanelInv'
  BY <1>2, <1>4, <1>5 DEF PanelInv
<1>6. FlowOK(Done) /\ FlowOK(Asks("lists", None))
  BY AskedIsOK DEF Done
<1>7. CASE /\ flow.asks = "lists"
           /\ shown' = [shown EXCEPT
                !.versions = IF answer.versions = None THEN @ ELSE answer.versions,
                !.alerts = IF answer.alerts = None THEN @ ELSE answer.alerts]
           /\ flows' = [flows EXCEPT ![f] = Done]
  <2> DEFINE vs == IF answer.versions = None THEN shown.versions ELSE answer.versions
             as == IF answer.alerts = None THEN shown.alerts ELSE answer.alerts
  <2>1. TrueVersions(vs) /\ TrueAlerts(as)
    BY <1>1, <1>7 DEF FlowOK, PanelInv, ShownOK
  <2> HIDE DEF vs, as
  <2>2. shown' = [shown EXCEPT !.versions = vs, !.alerts = as]
    BY <1>7 DEF vs, as
  <2>3. /\ shown' = [g \in {"selected", "diff", "alerts", "versions"} |-> shown'[g]]
        /\ shown'.diff = shown.diff /\ shown'.alerts = as /\ shown'.versions = vs
    BY <2>2 DEF PanelInv, ShownOK
  <2>4. TrueDiff(shown.diff)
    BY DEF PanelInv, ShownOK
  <2>5. /\ \A d : TrueDiff(d) => TrueDiff(d)'
        /\ \A a : TrueAlerts(a) => TrueAlerts(a)'
        /\ \A v : TrueVersions(v) => TrueVersions(v)'
    BY <1>2, TruthStays DEF PanelInv
  <2>6. ShownOK'
    BY <2>1, <2>3, <2>4, <2>5 DEF ShownOK
  <2>7. QED
    BY <1>2, <1>5, <1>6, <1>7, <2>6
<1>8. CASE /\ flow.asks = "versions" /\ UNCHANGED shown
           /\ flows' = [flows EXCEPT ![f] =
                IF Len(answer) >= 2 THEN Asks("diff", PairOf(flow.args.policy, answer)) ELSE Done]
  <2>1. Len(answer) >= 2 => FlowOK(Asks("diff", PairOf(flow.args.policy, answer)))
    <3>1. ASSUME Len(answer) >= 2
          PROVE  \E p \in Policy : \E m, n :
                   /\ m - n \in {-1, 1}
                   /\ PairOf(flow.args.policy, answer)
                        = [policy |-> p, from |-> m, to |-> n, changes |-> None]
      BY <1>1, <1>8, <3>1 DEF FlowOK, Neighbours, PairOf
    <3>2. QED
      BY <3>1, AskedIsOK
  <2>2. ShownOK'
    BY <1>2, <1>8, ShownStays DEF PanelInv
  <2>3. QED
    BY <1>2, <1>5, <1>6, <1>8, <2>1, <2>2
<1>9. CASE /\ flow.asks = "diff"
           /\ shown' = [shown EXCEPT !.diff = IF answer.changes = None THEN None ELSE answer]
           /\ flows' = [flows EXCEPT ![f] = Done]
  <2> DEFINE d == IF answer.changes = None THEN None ELSE answer
  <2>1. TrueDiff(d)
    BY <1>1, <1>9 DEF FlowOK, TrueDiff
  <2>2. shown' = [shown EXCEPT !.diff = d]
    BY <1>9
  <2> HIDE DEF d
  <2>3. /\ shown' = [g \in {"selected", "diff", "alerts", "versions"} |-> shown'[g]]
        /\ shown'.diff = d /\ shown'.alerts = shown.alerts /\ shown'.versions = shown.versions
    BY <2>2 DEF PanelInv, ShownOK
  <2>4. TrueAlerts(shown.alerts) /\ TrueVersions(shown.versions)
    BY DEF PanelInv, ShownOK
  <2>5. /\ \A e : TrueDiff(e) => TrueDiff(e)'
        /\ \A a : TrueAlerts(a) => TrueAlerts(a)'
        /\ \A v : TrueVersions(v) => TrueVersions(v)'
    BY <1>2, TruthStays DEF PanelInv
  <2>6. ShownOK'
    BY <2>1, <2>3, <2>4, <2>5 DEF ShownOK
  <2>7. QED
    BY <1>2, <1>5, <1>6, <1>9, <2>6
<1>10. CASE flow.asks = "ack" /\ UNCHANGED shown /\ flows' = [flows EXCEPT ![f] = Asks("lists", None)]
  <2>1. ShownOK'
    BY <1>2, <1>10, ShownStays DEF PanelInv
  <2>2. QED
    BY <1>2, <1>5, <1>6, <1>10, <2>1
<1>11. QED
  BY <1>7, <1>8, <1>9, <1>10 DEF Arrive

LEMMA LoseKeepsPanel ==
  ASSUME PanelInv, NEW f \in DOMAIN flows, Lose(f)
  PROVE  PanelInv' /\ Kept(history, history') /\ AlertsKept
<1>1. RevisionInv' /\ AlertsInv' /\ Kept(history, history') /\ AlertsKept
  BY TablesKept DEF Lose, tablesUnchanged
<1>2. (\E S : flows' \in Seq(S)) /\ \A g \in DOMAIN flows' : FlowOK(flows[g])'
  <2>1. FlowOK(Done)'
    BY AskedIsOK DEF Done
  <2>2. flows' = [flows EXCEPT ![f] = Done]
    BY DEF Lose
  <2>3. QED
    BY <1>1, <2>1, <2>2, FlowsGoOn
<1>3. ShownOK'
  <2>1. CASE UNCHANGED shown
    BY <1>1, <2>1, ShownStays DEF PanelInv
  <2>2. CASE shown' = [shown EXCEPT !.diff = None]
    <3>1. /\ shown' = [g \in {"selected", "diff", "alerts", "versions"} |-> shown'[g]]
          /\ shown'.diff = None /\ shown'.alerts = shown.alerts /\ shown'.versions = shown.versions
      BY <2>2 DEF PanelInv, ShownOK
    <3>2. TrueAlerts(shown.alerts) /\ TrueVersions(shown.versions)
      BY DEF PanelInv, ShownOK
    <3>3. (\A a : TrueAlerts(a) => TrueAlerts(a)') /\ (\A v : TrueVersions(v) => TrueVersions(v)')
      BY <1>1, TruthStays DEF PanelInv
    <3>4. QED
      BY <3>1, <3>2, <3>3 DEF ShownOK, TrueDiff
  <2>3. QED
    BY <2>1, <2>2 DEF Lose
<1>4. QED
  BY <1>1, <1>2, <1>3 DEF PanelInv

LEMMA PanelStep ==
  PanelInv /\ [PanelNext]_panelVars => PanelInv' /\ Kept(history, history') /\ AlertsKept
<1> SUFFICES ASSUME PanelInv, [PanelNext]_panelVars
             PROVE  PanelInv' /\ Kept(history, history') /\ AlertsKept
  OBVIOUS
<1>1. ASSUME [IngestionNext]_ingestionVars, UNCHANGED <<flows, shown>>
      PROVE  PanelInv' /\ Kept(history, history') /\ AlertsKept
  <2>1. RevisionInv' /\ AlertsInv' /\ Kept(history, history') /\ AlertsKept
    BY <1>1, RevisionStep, AlertsInvStep, AlertsStep DEF PanelInv, AlertsInv
  <2>2. ShownOK'
    BY <1>1, <2>1, ShownStays DEF PanelInv
  <2>3. \A flow : FlowOK(flow) => FlowOK(flow)'
    BY <2>1, FlowStays DEF PanelInv
  <2>4. (\E S : flows' \in Seq(S)) /\ \A f \in DOMAIN flows' : FlowOK(flows[f])'
    BY <1>1, <2>3 DEF PanelInv
  <2>5. QED
    BY <2>1, <2>2, <2>4 DEF PanelInv
<1>2. CASE Load
  BY <1>2, LoadKeepsPanel
<1>3. ASSUME NEW p \in {alerts[i].policy : i \in DOMAIN shown.alerts} \cup {v[1] : v \in shown.versions},
             showHistory(p)
      PROVE  PanelInv' /\ Kept(history, history') /\ AlertsKept
  <2>1. p \in Policy
    BY DEF PanelInv, AlertsInv, IsAlert, ShownOK, TrueAlerts, TrueVersions
  <2>2. QED
    BY <1>3, <2>1, ShowHistoryKeepsPanel
<1>4. ASSUME NEW i \in DOMAIN shown.alerts, ack(i)
      PROVE  PanelInv' /\ Kept(history, history') /\ AlertsKept
  BY <1>4, AckKeepsPanel
<1>5. ASSUME NEW f \in DOMAIN flows, Serve(f) \/ Arrive(f) \/ Lose(f)
      PROVE  PanelInv' /\ Kept(history, history') /\ AlertsKept
  BY <1>5, ServeKeepsPanel, ArriveKeepsPanel, LoseKeepsPanel
<1>6. CASE UNCHANGED panelVars
  BY <1>1, <1>6 DEF panelVars
<1>7. QED
  BY <1>1, <1>2, <1>3, <1>4, <1>5, <1>6 DEF PanelNext

LEMMA PanelInvInit == PanelInit => PanelInv
<1> SUFFICES ASSUME PanelInit PROVE PanelInv
  OBVIOUS
<1>1. RevisionInv /\ AlertsInv
  BY RevisionInit, AlertsInvInit DEF PanelInit
<1>2. (\E S : flows \in Seq(S)) /\ \A f \in DOMAIN flows : FlowOK(flows[f])
  <2>1. <<>> \in Seq({}) /\ DOMAIN <<>> = {}
    OBVIOUS
  <2>2. QED
    BY <2>1 DEF PanelInit
<1>3. ShownOK
  <2>1. /\ shown = [f \in {"selected", "diff", "alerts", "versions"} |-> shown[f]]
        /\ shown.diff = None /\ shown.alerts = <<>> /\ shown.versions = {}
    BY DEF PanelInit, Nothing
  <2>2. QED
    BY <2>1 DEF ShownOK, TrueDiff, TrueAlerts, TrueVersions
<1>4. QED
  BY <1>1, <1>2, <1>3 DEF PanelInv

\* The invariant of the panel, in front of any ingestion.
THEOREM PanelCorrect == PanelSpec => []PanelInv
<1>1. PanelInv /\ [PanelNext]_panelVars => PanelInv'
  BY PanelStep
<1>2. QED
  BY <1>1, PanelInvInit, PTL DEF PanelSpec

\* However late, out of order or incomplete its answers are, the panel shows a true
\* difference of two neighbouring revisions, revisions that there are, and no
\* alert as acknowledged that is not (RegulationHistoryPanel.tsx 31-70).
THEOREM PanelShowsWhatIsStored == PanelSpec => []ShownIsStored
<1>1. PanelInv => ShownIsStored
  BY DEF PanelInv, ShownOK, TrueDiff, TrueAlerts, TrueVersions, ShownIsStored
<1>2. QED
  BY <1>1, PanelCorrect, PTL

\* The panel goes on: jobs, revisions and policies are none of its business.
LEMMA PanelOrIngestion ==
  [PanelNext]_panelVars => [IngestionNext]_ingestionVars \/ UNCHANGED <<history, job, policies>>
BY DEF PanelNext, Load, showHistory, ack, Serve, Arrive, Lose, acknowledgeAlert, tablesUnchanged,
       regulationVars, panelVars

LEMMA PanelAloneStep ==
  PanelInv /\ AloneInv /\ [PanelNext]_panelVars =>
    /\ AloneInv'
    /\ \A j \in Job : job[j].at # job'[j].at /\ job[j].alone /\ policies' # policies => Converges(j)
<1> SUFFICES ASSUME PanelInv, AloneInv, [PanelNext]_panelVars
             PROVE  /\ AloneInv'
                    /\ \A j \in Job : job[j].at # job'[j].at /\ job[j].alone
                                        /\ policies' # policies => Converges(j)
  OBVIOUS
<1>1. CASE [IngestionNext]_ingestionVars
  BY <1>1, AloneStep, ConvergingStep DEF PanelInv, AlertsInv
<1>2. CASE UNCHANGED <<history, job, policies>>
  BY <1>2 DEF AloneInv
<1>3. QED
  BY <1>1, <1>2, PanelOrIngestion

\* With a panel that acknowledges alerts, too, the history tells the change, every
\* change is alerted, nothing is rewritten, and undisturbed jobs converge.
THEOREM PanelDisturbsNothing ==
  PanelSpec =>
    [](RevisionsTellTheChange /\ EveryRevisionIsAlerted) /\ NothingIsRewritten /\ JobsConverge
<1>1. PanelInv => RevisionsTellTheChange /\ EveryRevisionIsAlerted
  <2>1. RevisionInv => RevisionsTellTheChange
    BY DEF RevisionInv, HistoryOK, Tells, RevisionsTellTheChange, diffVersions
  <2>2. QED
    BY <2>1, RaisedIsAlerted DEF PanelInv
<1>2. PanelInv /\ [PanelNext]_panelVars =>
        [/\ \A p \in Policy : \A v \in DOMAIN history[p] :
              v \in DOMAIN history'[p] /\ history'[p][v] = history[p][v]
         /\ \A i \in DOMAIN alerts :
              /\ i \in DOMAIN alerts'
              /\ alerts'[i] \in {alerts[i], [alerts[i] EXCEPT !.acknowledged = TRUE]}]_regulationVars
  BY PanelStep DEF Kept, AlertsKept
<1>3. PanelInit => AloneInv
  BY AloneInit DEF PanelInit
<1>4. PanelInv /\ AloneInv /\ [PanelNext]_panelVars => AloneInv'
  BY PanelAloneStep
<1>5. PanelInv /\ AloneInv /\ [PanelNext]_panelVars =>
        [\A j \in Job : job[j].at # job'[j].at /\ job[j].alone /\ policies' # policies =>
           Converges(j)]_regulationVars
  BY PanelAloneStep
<1>6. QED
  BY <1>1, <1>2, <1>3, <1>4, <1>5, PanelCorrect, PTL
  DEF PanelSpec, NothingIsRewritten, JobsConverge, Converges

-----------------------------------------------------------------------------
(* Types: what names a revision names one that is stored.                  *)

\* Where a job is in its file, and which revisions it knows of.
JobRefers(r, hs) ==
  /\ r.records \in Seq(Range(r.records))
  /\ r.next \in 1..(Len(r.records) + 1)
  /\ \A p \in DOMAIN r.versions : p \in Policy /\ r.versions[p] \in DOMAIN hs[p]
  /\ r.at = "alert" =>
       LET id == r.records[r.next].id IN id \in Policy /\ r.seen + 1 \in DOMAIN hs[id]

TablesRefer ==
  /\ \A i \in DOMAIN alerts :
       alerts[i].policy \in Policy /\ alerts[i].version \in DOMAIN history[alerts[i].policy]
  /\ \A p \in DOMAIN policies : p \in Policy /\ policies[p].version \in DOMAIN history[p]

ReferencesInv == TablesRefer /\ \A j \in Job : JobRefers(job[j], history)

LEMMA ReferenceStays ==
  ASSUME NEW hs, NEW is, Kept(hs, is), NEW r, JobRefers(r, hs)
  PROVE  JobRefers(r, is)
BY DEF JobRefers, Kept

LEMMA UnaloneRefers ==
  ASSUME NEW hs, NEW r, IsJob(r), JobRefers(r, hs)
  PROVE  JobRefers([r EXCEPT !.alone = FALSE], hs)
<1> DEFINE s == [r EXCEPT !.alone = FALSE]
<1>1. /\ s.at = r.at /\ s.seen = r.seen /\ s.versions = r.versions
      /\ s.records = r.records /\ s.next = r.next
  BY DEF IsJob, JobField
<1> HIDE DEF s
<1>2. JobRefers(s, hs)
  BY <1>1 DEF JobRefers
<1>3. QED
  BY <1>2 DEF s

LEMMA JobsRefer ==
  ASSUME RevisionInv, ReferencesInv, Kept(history, history'), NEW j \in Job, NEW to,
         JobRefers(to, history'), Goes(j, to) \/ GoesWriting(j, to)
  PROVE  \A k \in Job : JobRefers(job'[k], history')
<1>1. job'[j] = to
  BY DEF RevisionInv, Goes, GoesWriting
<1>2. ASSUME NEW k \in Job \ {j}  PROVE JobRefers(job'[k], history')
  <2>1. IsJob(job[k]) /\ JobRefers(job[k], history')
    BY ReferenceStays DEF RevisionInv, ReferencesInv
  <2>2. job'[k] = job[k] \/ job'[k] = [job[k] EXCEPT !.alone = FALSE]
    BY DEF RevisionInv, Goes, GoesWriting
  <2>3. QED
    BY <2>1, <2>2, UnaloneRefers
<1>3. QED
  BY <1>1, <1>2

LEMMA TablesStay ==
  ASSUME TablesRefer, Kept(history, history'), UNCHANGED <<alerts, policies>>
  PROVE  TablesRefer'
BY DEF TablesRefer, Kept

\* A job that has nothing in hand.
LEMMA EmptyHandRefers ==
  ASSUME NEW hs
  PROVE  /\ JobRefers(Idle, hs)
         /\ \A where : where # "alert" => JobRefers(At(where), hs)
         /\ \A j, outcome : JobRefers(After(j, outcome), hs)
<1>1. ASSUME NEW r, r.at # "alert", r.records = <<>>, r.next = 1, r.versions = NoDiff
      PROVE  JobRefers(r, hs)
  <2>1. <<>> \in Seq(Range(<<>>)) /\ Len(<<>>) = 0
    OBVIOUS
  <2>2. DOMAIN NoDiff = {}
    BY DEF NoDiff
  <2>3. QED
    BY <1>1, <2>1, <2>2 DEF JobRefers
<1>2. JobRefers(Idle, hs)
  <2>1. Idle.at # "alert" /\ Idle.records = <<>> /\ Idle.next = 1 /\ Idle.versions = NoDiff
    BY DEF Idle
  <2>2. QED
    BY <1>1, <2>1
<1>3. ASSUME NEW where, where # "alert"  PROVE JobRefers(At(where), hs)
  <2>1. /\ At(where).at = where /\ At(where).records = <<>> /\ At(where).next = 1
        /\ At(where).versions = NoDiff
    BY DEF At, Idle
  <2>2. QED
    BY <1>1, <1>3, <2>1
<1>4. \A j, outcome : After(j, outcome) \in {At("fetch"), At("idle")}
  BY DEF After
<1>5. JobRefers(At("fetch"), hs) /\ JobRefers(At("idle"), hs)
  BY <1>3
<1>6. QED
  BY <1>2, <1>3, <1>4, <1>5

LEMMA AdvancedRefers ==
  ASSUME NEW hs, NEW r, IsJob(r), AmongRecords(r), r.at \in {"detect", "insert", "alert"},
         JobRefers(r, hs), NEW version, version \in DOMAIN hs[r.records[r.next].id]
  PROVE  JobRefers(Advanced(r, version), hs)
<1> DEFINE s == Advanced(r, version)
           id == r.records[r.next].id
<1>1. /\ s.records = r.records /\ s.next = r.next + 1 /\ s.at # "alert"
      /\ s.versions = [p \in DOMAIN r.versions \cup {id} |-> IF p = id THEN version ELSE r.versions[p]]
  BY DEF Advanced, IsJob, JobField
<1>2. r.records \in Seq(Range(r.records)) /\ r.next \in 1..Len(r.records) /\ id \in Policy
  BY DEF AmongRecords
<1>3. \A p \in DOMAIN r.versions : p \in Policy /\ r.versions[p] \in DOMAIN hs[p]
  BY DEF JobRefers
<1> HIDE DEF s, id
<1>4. \A p \in DOMAIN s.versions : p \in Policy /\ s.versions[p] \in DOMAIN hs[p]
  BY <1>1, <1>2, <1>3 DEF id
<1>5. s.next \in 1..(Len(s.records) + 1)
  BY <1>1, <1>2
<1>6. JobRefers(s, hs)
  BY <1>1, <1>2, <1>4, <1>5 DEF JobRefers
<1>7. QED
  BY <1>6 DEF s

\* A job that does something else than policies.
LEMMA ElsewhereRefers ==
  ASSUME RevisionInv, ReferencesInv, UNCHANGED <<history, alerts, policies>>, NEW j \in Job,
         NEW to, JobRefers(to, history), Goes(j, to) \/ GoesWriting(j, to)
  PROVE  ReferencesInv'
<1>1. Kept(history, history') /\ JobRefers(to, history')
  BY DEF Kept
<1>2. \A k \in Job : JobRefers(job'[k], history')
  BY <1>1, JobsRefer
<1>3. TablesRefer'
  BY <1>1, TablesStay DEF ReferencesInv
<1>4. QED
  BY <1>2, <1>3 DEF ReferencesInv

LEMMA LoadRefers ==
  ASSUME RevisionInv, AlertsInv, ReferencesInv, NEW j \in Job, NEW failed,
         JobRefers(failed, history), loadPolicyDataset(j, failed)
  PROVE  ReferencesInv'
<1> DEFINE to == [Idle EXCEPT !.at = IF dataset = <<>> THEN "persist" ELSE "detect",
                              !.records = dataset, !.alone = TRUE]
<1>1. UNCHANGED <<history, alerts, policies>> /\ (Goes(j, to) \/ Goes(j, failed))
  BY DEF loadPolicyDataset
<1>2. to.records = dataset /\ to.next = 1 /\ to.at # "alert" /\ to.versions = NoDiff
  BY DEF Idle
<1> HIDE DEF to
<1>3. dataset \in Seq(Range(dataset))
  BY DatasetAssumption DEF AlertsInv, SourcesOK
<1>4. DOMAIN NoDiff = {}
  BY DEF NoDiff
<1>5. 1 \in 1..(Len(dataset) + 1)
  BY <1>3
<1>6. JobRefers(to, history)
  BY <1>2, <1>3, <1>4, <1>5 DEF JobRefers
<1>7. QED
  BY <1>1, <1>6, ElsewhereRefers

LEMMA CompareRefers ==
  ASSUME RevisionInv, AlertsInv, ReferencesInv, NEW j \in Job, Compare(j)
  PROVE  ReferencesInv'
<1> DEFINE r == job[j]
           p == Current(j).id
           latest == latestVersion(p)
           diff == diffSnapshots(history[p][latest].snapshot, Snapshot(j))
           first == [r EXCEPT !.at = "insert"]
           next == [r EXCEPT !.at = "insert", !.seen = latest, !.diff = diff]
<1>1. /\ r.at = "detect" /\ IsJob(r) /\ AmongRecords(r) /\ JobRefers(r, history)
      /\ UNCHANGED <<history, alerts, policies>>
  BY DEF Compare, RevisionInv, AlertsInv, DetectionOK, ReferencesInv
<1>2. Goes(j, first) \/ Goes(j, next) \/ (latest # 0 /\ Goes(j, Advanced(r, latest)))
  BY DEF Compare
<1>3. p \in Policy /\ p = r.records[r.next].id
  BY <1>1 DEF AmongRecords, Current
<1>4. latest # 0 => latest \in DOMAIN history[p]
  <2>1. PICK n \in Nat : history[p] = [v \in 1..n |-> history[p][v]]
    BY <1>3 DEF RevisionInv, HistoryOK
  <2>2. latest = n
    BY <2>1, LatestOfHistory
  <2> HIDE DEF latest
  <2>3. QED
    BY <2>1, <2>2
<1> HIDE DEF latest, diff
<1>5. JobRefers(first, history)
  <2>1. /\ first.records = r.records /\ first.next = r.next /\ first.versions = r.versions
        /\ first.at = "insert"
    BY <1>1 DEF IsJob, JobField
  <2> HIDE DEF first
  <2>2. QED
    BY <1>1, <2>1 DEF JobRefers
<1>6. JobRefers(next, history)
  <2>1. /\ next.records = r.records /\ next.next = r.next /\ next.versions = r.versions
        /\ next.at = "insert"
    BY <1>1 DEF IsJob, JobField
  <2> HIDE DEF next
  <2>2. QED
    BY <1>1, <2>1 DEF JobRefers
<1>7. latest # 0 => JobRefers(Advanced(r, latest), history)
  BY <1>1, <1>3, <1>4, AdvancedRefers
<1> HIDE DEF first, next
<1>8. QED
  BY <1>1, <1>2, <1>5, <1>6, <1>7, ElsewhereRefers

\* The version is stored, by this job or by another that was first.
LEMMA AddRevisionRefers ==
  ASSUME RevisionInv, AlertsInv, ReferencesInv, NEW j \in Job, AddRevision(j)
  PROVE  ReferencesInv'
<1> DEFINE r == job[j]
           p == Current(j).id
           version == r.seen + 1
           row == Revision(Snapshot(j), r.diff, IF r.seen = 0 THEN "new" ELSE "updated")
           raise == [r EXCEPT !.at = "alert"]
<1>1. /\ r.at = "insert" /\ IsJob(r) /\ AmongRecords(r) /\ JobRefers(r, history)
      /\ UNCHANGED <<alerts, policies>>
  BY DEF AddRevision, RevisionInv, AlertsInv, DetectionOK, ReferencesInv
<1>2. /\ history' = [history EXCEPT ![p] = With(@, version, row)]
      /\ GoesWriting(j, Advanced(r, version)) \/ GoesWriting(j, raise)
  BY DEF AddRevision, insertVersion, With
<1> HIDE DEF row
<1>3. p \in Policy /\ p = r.records[r.next].id
  BY <1>1 DEF AmongRecords, Current
<1>4. version \in DOMAIN history'[p]
  <2>1. history'[p] = With(history[p], version, row)
    BY <1>2, <1>3 DEF RevisionInv
  <2> HIDE DEF version
  <2>2. QED
    BY <2>1 DEF With
<1>5. Kept(history, history')
  BY AddRevisionKeeps
<1>6. JobRefers(r, history')
  BY <1>1, <1>5, ReferenceStays
<1>7. JobRefers(raise, history')
  <2>1. /\ raise.records = r.records /\ raise.next = r.next /\ raise.versions = r.versions
        /\ raise.seen = r.seen
    BY <1>1 DEF IsJob, JobField
  <2> HIDE DEF raise
  <2>2. QED
    BY <1>3, <1>4, <1>6, <2>1 DEF JobRefers
<1>8. JobRefers(Advanced(r, version), history')
  BY <1>1, <1>3, <1>4, <1>6, AdvancedRefers
<1> HIDE DEF raise, version
<1>9. \A k \in Job : JobRefers(job'[k], history')
  BY <1>2, <1>5, <1>7, <1>8, JobsRefer
<1>10. TablesRefer'
  BY <1>1, <1>5, TablesStay DEF ReferencesInv
<1>11. QED
  BY <1>9, <1>10 DEF ReferencesInv

LEMMA InsertAlertRefers ==
  ASSUME RevisionInv, AlertsInv, ReferencesInv, NEW j \in Job, insertAlert(j)
  PROVE  ReferencesInv'
<1> DEFINE r == job[j]
           version == r.seen + 1
           a == [policy |-> Current(j).id, version |-> version, changedFields |-> r.diff,
                 class |-> classifyChange(r.diff), acknowledged |-> FALSE]
<1>1. /\ r.at = "alert" /\ IsJob(r) /\ AmongRecords(r) /\ JobRefers(r, history)
      /\ UNCHANGED <<history, policies>>
      /\ alerts' = Append(alerts, a) /\ GoesWriting(j, Advanced(r, version))
  BY DEF insertAlert, RevisionInv, AlertsInv, DetectionOK, ReferencesInv
<1>2. a.policy = r.records[r.next].id /\ a.version = version
  BY DEF Current
<1>3. a.policy \in Policy /\ a.version \in DOMAIN history[a.policy]
  BY <1>1, <1>2 DEF JobRefers
<1> HIDE DEF a
<1>4. TablesRefer'
  <2>1. PICK S : alerts \in Seq(S)
    BY DEF AlertsInv, AlertsOK
  <2>2. alerts \in Seq(S \cup {a}) /\ a \in S \cup {a}
    BY <2>1
  <2>3. \A i \in DOMAIN alerts' : alerts'[i] = a \/ (i \in DOMAIN alerts /\ alerts'[i] = alerts[i])
    BY <1>1, <2>2
  <2>4. QED
    BY <1>1, <1>3, <2>3 DEF TablesRefer, ReferencesInv
<1>5. JobRefers(Advanced(r, version), history)
  BY <1>1, <1>2, <1>3, AdvancedRefers
<1> HIDE DEF version
<1>6. Kept(history, history') /\ JobRefers(Advanced(r, version), history')
  BY <1>1, <1>5 DEF Kept
<1>7. \A k \in Job : JobRefers(job'[k], history')
  BY <1>1, <1>6, JobsRefer
<1>8. QED
  BY <1>4, <1>7 DEF ReferencesInv

\* The rows that are overwritten have the versions that the job found or added.
LEMMA PersistRefers ==
  ASSUME RevisionInv, ReferencesInv, NEW j \in Job, NEW done, NEW failed,
         JobRefers(done, history), JobRefers(failed, history), persistPolicies(j, done, failed)
  PROVE  ReferencesInv'
<1>1. UNCHANGED <<history, alerts>> /\ Kept(history, history')
  BY DEF persistPolicies, Kept
<1>2. PICK to \in {done, failed} : GoesWriting(j, to)
  BY DEF persistPolicies
<1>3. \A k \in Job : JobRefers(job'[k], history')
  BY <1>1, <1>2, JobsRefer
<1>4. \A p \in DOMAIN policies' : p \in Policy /\ policies'[p].version \in DOMAIN history[p]
  <2>1. JobRefers(job[j], history) /\ TablesRefer
    BY DEF ReferencesInv
  <2> SUFFICES ASSUME NEW p \in DOMAIN policies'
               PROVE  p \in Policy /\ policies'[p].version \in DOMAIN history[p]
    OBVIOUS
  <2>2. CASE p \in DOMAIN job[j].versions
    <3>1. policies'[p] = RowOf(j, p)
      BY <2>2 DEF persistPolicies
    <3>2. policies'[p].version = job[j].versions[p]
      BY <3>1 DEF RowOf
    <3>3. QED
      BY <2>1, <2>2, <3>2 DEF JobRefers
  <2>3. CASE p \notin DOMAIN job[j].versions
    <3>1. p \in DOMAIN policies /\ policies'[p] = policies[p]
      BY <2>3 DEF persistPolicies
    <3>2. QED
      BY <2>1, <3>1 DEF TablesRefer
  <2>4. QED
    BY <2>2, <2>3
<1>5. TablesRefer'
  BY <1>1, <1>4 DEF TablesRefer, ReferencesInv
<1>6. QED
  BY <1>3, <1>5 DEF ReferencesInv

LEMMA PoliciesRefer ==
  ASSUME RevisionInv, AlertsInv, ReferencesInv, NEW j \in Job, IngestPolicies(j)
  PROVE  ReferencesInv'
<1>1. \A outcome : JobRefers(After(j, outcome), history)
  BY EmptyHandRefers
<1>2. CASE loadPolicyDataset(j, After(j, "failed"))
  BY <1>1, <1>2, LoadRefers
<1>3. CASE Detect(j)
  BY <1>3, CompareRefers, AddRevisionRefers, InsertAlertRefers DEF Detect
<1>4. CASE persistPolicies(j, After(j, "stored"), After(j, "failed"))
  BY <1>1, <1>4, PersistRefers
<1>5. QED
  BY <1>2, <1>3, <1>4 DEF IngestPolicies

\* Neither jobs nor revisions nor current policies; alerts at most acknowledged.
LEMMA JoblessRefers ==
  ASSUME AlertsInv, ReferencesInv, UNCHANGED <<history, job, policies>>,
         \/ UNCHANGED alerts
         \/ \E i \in DOMAIN alerts : acknowledgeAlert(i)
  PROVE  ReferencesInv'
<1>1. \A i \in DOMAIN alerts' :
        /\ i \in DOMAIN alerts
        /\ alerts'[i].policy = alerts[i].policy /\ alerts'[i].version = alerts[i].version
  <2>1. CASE UNCHANGED alerts
    BY <2>1
  <2>2. ASSUME NEW k \in DOMAIN alerts, acknowledgeAlert(k), NEW i \in DOMAIN alerts'
        PROVE  /\ i \in DOMAIN alerts
               /\ alerts'[i].policy = alerts[i].policy /\ alerts'[i].version = alerts[i].version
    <3> DEFINE x == [alerts[k] EXCEPT !.acknowledged = TRUE]
    <3>1. alerts' = [alerts EXCEPT ![k] = x] /\ IsAlert(alerts[k])
      BY <2>2 DEF acknowledgeAlert, AlertsInv
    <3>2. x.policy = alerts[k].policy /\ x.version = alerts[k].version
      BY <3>1 DEF IsAlert, AlertField
    <3> HIDE DEF x
    <3>3. i \in DOMAIN alerts /\ alerts'[i] = IF i = k THEN x ELSE alerts[i]
      BY <3>1 DEF AlertsInv, AlertsOK
    <3>4. QED
      BY <3>2, <3>3
  <2>3. QED
    BY <2>1, <2>2
<1>2. TablesRefer'
  BY <1>1 DEF TablesRefer, ReferencesInv
<1>3. QED
  BY <1>2 DEF ReferencesInv

LEMMA ReferencesStep ==
  RevisionInv /\ AlertsInv /\ ReferencesInv /\ [IngestionNext]_ingestionVars => ReferencesInv'
<1> SUFFICES ASSUME RevisionInv, AlertsInv, ReferencesInv, [IngestionNext]_ingestionVars
             PROVE  ReferencesInv'
  OBVIOUS
<1>1. \A j \in Job : \A to \in {At("load"), At("fetch"), At("store"), At("seed"), Idle,
                                 After(j, "failed")} : JobRefers(to, history)
  BY EmptyHandRefers
<1>2. CASE BootServer
  <2>1. UNCHANGED <<history, alerts, policies>> /\ Boot \in Job
    BY <1>2, IngestionAssumption DEF BootServer, regulationsUnchanged
  <2>2. PICK to \in {At("load"), At("fetch"), Idle} : Goes(Boot, to)
    BY <1>2 DEF BootServer
  <2>3. QED
    BY <1>1, <2>1, <2>2, ElsewhereRefers
<1>3. ASSUME NEW j \in Job,
             StartJob(j) \/ fetchGithubIssues(j) \/ persistGithub(j) \/ persistSeed(j) \/ WriteFails(j)
      PROVE  ReferencesInv'
  <2>1. UNCHANGED <<history, alerts, policies>>
    BY <1>3 DEF StartJob, fetchGithubIssues, persistGithub, persistSeed, WriteFails,
                regulationsUnchanged
  <2>2. PICK to \in {At("load"), At("store"), At("seed"), Idle, After(j, "failed")} : Goes(j, to)
    BY <1>3 DEF StartJob, fetchGithubIssues, persistGithub, persistSeed, WriteFails
  <2>3. QED
    BY <1>1, <2>1, <2>2, ElsewhereRefers
<1>4. ASSUME NEW j \in Job, IngestPolicies(j)  PROVE ReferencesInv'
  BY <1>4, PoliciesRefer
<1>5. ASSUME NEW process \in Process, Kill(process)  PROVE ReferencesInv'
  <2>1. /\ UNCHANGED <<history, alerts, policies>>
        /\ job' = [j \in Job |-> IF ProcessOf(j) = process THEN Idle ELSE job[j]]
    BY <1>5 DEF Kill, regulationsUnchanged
  <2>2. \A j \in Job : JobRefers(job'[j], history')
    BY <2>1, EmptyHandRefers DEF ReferencesInv
  <2>3. QED
    BY <2>1, <2>2 DEF ReferencesInv, TablesRefer
<1>6. CASE Listen \/ StopAtIndexer \/ EditDataset \/ GithubChanges \/ Acknowledge \/ UNCHANGED ingestionVars
  <2>1. /\ UNCHANGED <<history, job, policies>>
        /\ UNCHANGED alerts \/ \E i \in DOMAIN alerts : acknowledgeAlert(i)
    BY <1>6 DEF Listen, StopAtIndexer, EditDataset, Edit, GithubChanges, Acknowledge, acknowledgeAlert,
                regulationsUnchanged, ingestionVars, regulationVars
  <2>2. QED
    BY <2>1, JoblessRefers
<1>7. QED
  BY <1>2, <1>3, <1>4, <1>5, <1>6 DEF IngestionNext, JobSteps

\* What may still happen, what issues are stored and found, and where the server is.
BudgetOK ==
  /\ {"files", "github", "faults"} \subseteq DOMAIN left
  /\ left.faults \in Nat
  /\ \A numbers \in {DOMAIN hub : hub \in left.github} : numbers \cap SeedIssue = {}

Numbered(found) == DOMAIN found \cap SeedIssue = {}

IssuesOK ==
  /\ issueJob = [j \in Job |-> issueJob[j]]
  /\ \A j \in Job : /\ issueJob[j] = [when |-> issueJob[j].when, found |-> issueJob[j].found]
                    /\ Numbered(issueJob[j].found)
  /\ \A i \in DOMAIN issues : issues[i].source = IF i \in SeedIssue THEN "seed" ELSE "github"

ServerOK ==
  /\ server \in {"down", "starting", "up"}
  /\ github \in left.github
  /\ kills \in Nat /\ failures \in Nat /\ kills + failures =< left.faults

IssuesInv == BudgetOK /\ IssuesOK /\ ServerOK

\* What is spent is none of what there is to choose from, and no fault.
LEMMA SpendingKeepsBudget ==
  ASSUME BudgetOK, NEW what, what \notin {"files", "github", "faults"}, Spend(what)
  PROVE  BudgetOK' /\ UNCHANGED <<left.github, left.faults>>
<1>1. left' = [left EXCEPT ![what] = @ - 1]
  BY DEF Spend
<1>2. /\ DOMAIN left' = DOMAIN left
      /\ left'.github = left.github /\ left'.faults = left.faults
  BY <1>1 DEF BudgetOK
<1>3. QED
  BY <1>2 DEF BudgetOK

LEMMA NothingFound == DOMAIN (<<>>) = {} /\ Numbered(<<>>)
BY DEF Numbered

\* One job is told when to go on to issues, or what it found.
LEMMA IssueJobGoes ==
  ASSUME IssuesOK, NEW j \in Job, NEW to, to = [when |-> to.when, found |-> to.found],
         Numbered(to.found), issueJob' = [issueJob EXCEPT ![j] = to], UNCHANGED issues
  PROVE  IssuesOK'
BY DEF IssuesOK

LEMMA PlanIsOK ==
  ASSUME NEW when
  PROVE  /\ Plan(when) = [when |-> Plan(when).when, found |-> Plan(when).found]
         /\ Numbered(Plan(when).found)
BY NothingFound DEF Plan

LEMMA FetchKeepsIssues ==
  ASSUME IssuesInv, NEW j \in Job, fetchGithubIssues(j)
  PROVE  IssuesInv'
<1>1. UNCHANGED <<server, github, issues, left, kills, failures>>
  BY DEF fetchGithubIssues, faultsUnchanged
<1>2. ASSUME issueJob' = [issueJob EXCEPT ![j].found = [n \in Fetchable |-> github[n]]]
      PROVE  IssuesOK'
  <2> DEFINE found == [n \in Fetchable |-> github[n]]
             to == [issueJob[j] EXCEPT !.found = found]
  <2>1. Fetchable \subseteq DOMAIN github
    BY DEF Fetchable
  <2>2. Numbered(found)
    BY <2>1 DEF IssuesInv, BudgetOK, ServerOK, Numbered
  <2>3. issueJob' = [issueJob EXCEPT ![j] = to]
    BY <1>2
  <2> HIDE DEF found
  <2>4. to = [when |-> to.when, found |-> to.found] /\ to.found = found
    BY DEF IssuesInv, IssuesOK
  <2> HIDE DEF to
  <2>5. QED
    BY <1>1, <2>2, <2>3, <2>4, IssueJobGoes DEF IssuesInv
<1>3. IssuesOK'
  BY <1>1, <1>2 DEF fetchGithubIssues, IssuesInv, IssuesOK
<1>4. QED
  BY <1>1, <1>3 DEF IssuesInv, BudgetOK, ServerOK

\* Numbers of GitHub are no ids of the seed, so that each row keeps its source.
LEMMA PersistIssuesKeepsIssues ==
  ASSUME IssuesInv, NEW j \in Job, persistGithub(j) \/ persistSeed(j)
  PROVE  IssuesInv'
<1>1. UNCHANGED <<server, github, left, kills, failures>>
  BY DEF persistGithub, persistSeed, faultsUnchanged
<1>2. \A i \in DOMAIN issues' :
        issues'[i].source = IF i \in SeedIssue THEN "seed" ELSE "github"
  <2>1. \A i \in DOMAIN issues : issues[i].source = IF i \in SeedIssue THEN "seed" ELSE "github"
    BY DEF IssuesInv, IssuesOK
  <2>2. ASSUME NEW rows, upsertIssues(rows),
               \A i \in DOMAIN rows : rows[i].source = IF i \in SeedIssue THEN "seed" ELSE "github"
        PROVE  \A i \in DOMAIN issues' :
                 issues'[i].source = IF i \in SeedIssue THEN "seed" ELSE "github"
    BY <2>1, <2>2 DEF upsertIssues
  <2>3. CASE persistSeed(j)
    <3> DEFINE rows == [i \in SeedIssue |-> [points |-> 100, source |-> "seed"]]
    <3>1. upsertIssues(rows)
      BY <2>3 DEF persistSeed
    <3>2. \A i \in DOMAIN rows : rows[i].source = IF i \in SeedIssue THEN "seed" ELSE "github"
      OBVIOUS
    <3> HIDE DEF rows
    <3>3. QED
      BY <2>2, <3>1, <3>2
  <2>4. CASE persistGithub(j)
    <3> DEFINE found == issueJob[j].found
               rows == [n \in DOMAIN found |->
                          [points |-> pointsFromLabels(found[n].labels), source |-> "github"]]
    <3>1. upsertIssues(rows) \/ UNCHANGED issues
      BY <2>4 DEF persistGithub
    <3>2. \A i \in DOMAIN rows : rows[i].source = IF i \in SeedIssue THEN "seed" ELSE "github"
      BY DEF IssuesInv, IssuesOK, Numbered
    <3> HIDE DEF rows
    <3>3. QED
      BY <2>1, <2>2, <3>1, <3>2
  <2>5. QED
    BY <2>3, <2>4
<1>3. /\ issueJob' = [k \in Job |-> issueJob'[k]]
      /\ \A k \in Job : /\ issueJob'[k] = [when |-> issueJob'[k].when, found |-> issueJob'[k].found]
                        /\ Numbered(issueJob'[k].found)
  <2>1. UNCHANGED issueJob \/ issueJob' = [issueJob EXCEPT ![j].found = <<>>]
    BY DEF persistGithub, persistSeed
  <2>2. ASSUME issueJob' = [issueJob EXCEPT ![j].found = <<>>], NEW k \in Job
        PROVE  /\ issueJob'[k] = [when |-> issueJob'[k].when, found |-> issueJob'[k].found]
               /\ Numbered(issueJob'[k].found)
    <3>1. issueJob[k] = [when |-> issueJob[k].when, found |-> issueJob[k].found]
          /\ Numbered(issueJob[k].found)
      BY DEF IssuesInv, IssuesOK
    <3>2. issueJob'[k] = IF k = j THEN [issueJob[k] EXCEPT !.found = <<>>] ELSE issueJob[k]
      BY <2>2 DEF IssuesInv, IssuesOK
    <3>3. CASE k = j
      <4>1. issueJob'[k] = [when |-> issueJob[k].when, found |-> <<>>]
        BY <3>1, <3>2, <3>3
      <4>2. QED
        BY <4>1, NothingFound
    <3>4. QED
      BY <3>1, <3>2, <3>3
  <2>3. issueJob' = [k \in Job |-> issueJob'[k]]
    BY <2>1 DEF IssuesInv, IssuesOK
  <2>4. QED
    BY <2>1, <2>2, <2>3 DEF IssuesInv, IssuesOK
<1>4. IssuesOK'
  BY <1>2, <1>3 DEF IssuesOK
<1>5. QED
  BY <1>1, <1>4 DEF IssuesInv, BudgetOK, ServerOK

LEMMA IssuesInvStep ==
  IssuesInv /\ [IngestionNext]_ingestionVars => IssuesInv'
<1> SUFFICES ASSUME IssuesInv, [IngestionNext]_ingestionVars PROVE IssuesInv'
  OBVIOUS
<1>1. CASE BootServer
  <2>1. /\ UNCHANGED <<github, issues, left, kills, failures>> /\ server' = "starting"
        /\ issueJob' = [issueJob EXCEPT ![Boot] = Plan(IssuesAtBoot)] /\ Boot \in Job
    BY <1>1, IngestionAssumption DEF BootServer, faultsUnchanged
  <2>2. IssuesOK'
    BY <2>1, PlanIsOK, IssueJobGoes DEF IssuesInv
  <2>3. QED
    BY <2>1, <2>2 DEF IssuesInv, BudgetOK, ServerOK
<1>2. ASSUME NEW j \in Job, StartJob(j)  PROVE IssuesInv'
  <2>1. /\ UNCHANGED <<server, github, issues, kills, failures>> /\ Spend("jobs")
        /\ issueJob' = [issueJob EXCEPT ![j] = Plan("stored")]
    BY <1>2 DEF StartJob, faultsUnchanged
  <2>2. IssuesOK'
    BY <2>1, PlanIsOK, IssueJobGoes DEF IssuesInv
  <2>3. BudgetOK' /\ UNCHANGED <<left.github, left.faults>>
    BY <2>1, SpendingKeepsBudget DEF IssuesInv
  <2>4. QED
    BY <2>1, <2>2, <2>3 DEF IssuesInv, ServerOK
<1>3. ASSUME NEW j \in Job, fetchGithubIssues(j) \/ persistGithub(j) \/ persistSeed(j)
      PROVE  IssuesInv'
  BY <1>3, FetchKeepsIssues, PersistIssuesKeepsIssues
<1>4. ASSUME NEW j \in Job, WriteFails(j)  PROVE IssuesInv'
  <2>1. /\ UNCHANGED <<server, github, issues, issueJob, left, kills>>
        /\ failures' = failures + 1 /\ kills + failures < left.faults
    BY <1>4 DEF WriteFails, CanFault
  <2>2. kills \in Nat /\ failures \in Nat /\ left.faults \in Nat
    BY DEF IssuesInv, ServerOK, BudgetOK
  <2>3. failures' \in Nat /\ kills' + failures' =< left'.faults
    BY <2>1, <2>2
  <2>4. QED
    BY <2>1, <2>3 DEF IssuesInv, BudgetOK, IssuesOK, ServerOK
<1>5. ASSUME NEW process \in Process, Kill(process)  PROVE IssuesInv'
  <2>1. /\ UNCHANGED <<github, issues, left, failures>>
        /\ kills' = kills + 1 /\ kills + failures < left.faults
        /\ server' = "down" \/ UNCHANGED server
        /\ issueJob' = [j \in Job |-> IF ProcessOf(j) = process THEN Plan("never") ELSE issueJob[j]]
    BY <1>5 DEF Kill, CanFault
  <2>2. kills \in Nat /\ failures \in Nat /\ left.faults \in Nat
    BY DEF IssuesInv, ServerOK, BudgetOK
  <2>3. kills' \in Nat /\ kills' + failures' =< left'.faults
    BY <2>1, <2>2
  <2>4. \A j \in Job : /\ issueJob'[j] = [when |-> issueJob'[j].when, found |-> issueJob'[j].found]
                       /\ Numbered(issueJob'[j].found)
    BY <2>1, PlanIsOK DEF IssuesInv, IssuesOK
  <2>5. IssuesOK'
    BY <2>1, <2>4 DEF IssuesInv, IssuesOK
  <2>6. QED
    BY <2>1, <2>3, <2>5 DEF IssuesInv, BudgetOK, ServerOK
<1>6. ASSUME NEW j \in Job, IngestPolicies(j)  PROVE IssuesInv'
  BY <1>6 DEF IngestPolicies, faultsUnchanged, IssuesInv, BudgetOK, IssuesOK, ServerOK
<1>7. CASE EditDataset \/ GithubChanges \/ Acknowledge
  <2>1. /\ UNCHANGED <<server, issues, issueJob, kills, failures>>
        /\ \E what \in {"edits", "pushes", "acks"} : Spend(what)
        /\ UNCHANGED github \/ github' \in left.github
    BY <1>7 DEF EditDataset, GithubChanges, Acknowledge, faultsUnchanged
  <2>2. BudgetOK' /\ UNCHANGED <<left.github, left.faults>>
    BY <2>1, SpendingKeepsBudget DEF IssuesInv
  <2>3. QED
    BY <2>1, <2>2 DEF IssuesInv, IssuesOK, ServerOK
<1>8. CASE Listen \/ StopAtIndexer \/ UNCHANGED ingestionVars
  BY <1>8 DEF Listen, StopAtIndexer, faultsUnchanged, ingestionVars, IssuesInv, BudgetOK, IssuesOK,
              ServerOK
<1>9. QED
  BY <1>1, <1>2, <1>3, <1>4, <1>5, <1>6, <1>7, <1>8 DEF IngestionNext, JobSteps

LEMMA TypesInit == IngestionInit => ReferencesInv /\ IssuesInv
<1> SUFFICES ASSUME IngestionInit PROVE ReferencesInv /\ IssuesInv
  OBVIOUS
<1>1. /\ history = [p \in Policy |-> <<>>] /\ job = [j \in Job |-> Idle] /\ alerts = <<>>
      /\ policies = [p \in {} |-> 0] /\ left \in Budgets /\ kills = 0 /\ failures = 0
      /\ server = "down" /\ github \in left.github /\ issues = <<>>
      /\ issueJob = [j \in Job |-> Plan("never")]
  BY DEF IngestionInit, RegulationsInit
<1>2. DOMAIN alerts = {} /\ DOMAIN policies = {} /\ DOMAIN issues = {}
  BY <1>1, NothingFound
<1>3. ReferencesInv
  BY <1>1, <1>2, EmptyHandRefers DEF ReferencesInv, TablesRefer
<1>4. BudgetOK
  BY <1>1, IngestionAssumption DEF BudgetOK
<1>5. IssuesOK
  BY <1>1, <1>2, PlanIsOK DEF IssuesOK
<1>6. ServerOK
  BY <1>1, <1>4 DEF ServerOK, BudgetOK
<1>7. QED
  BY <1>3, <1>4, <1>5, <1>6 DEF IssuesInv

LEMMA TypesHold ==
  RevisionInv /\ AlertsInv /\ ReferencesInv /\ IssuesInv => IngestionTypeOK
<1> SUFFICES ASSUME RevisionInv, AlertsInv, ReferencesInv, IssuesInv PROVE IngestionTypeOK
  OBVIOUS
<1>1. \A p \in Policy : DOMAIN history[p] \subseteq Nat \ {0}
  BY DEF RevisionInv, HistoryOK
<1>2. RegulationsTypeOK
  BY <1>1 DEF AlertsInv, SourcesOK, ReferencesInv, TablesRefer, JobRefers, RegulationsTypeOK
<1>3. kills + failures \in 0..left.faults
  BY DEF IssuesInv, ServerOK, BudgetOK
<1>4. QED
  BY <1>2, <1>3 DEF IssuesInv, IssuesOK, ServerOK, IngestionTypeOK

\* Wherever jobs are cut, overlap and die, every alert and every current policy
\* names a revision that is stored, no job runs out of its file, and an issue is
\* from GitHub just if it is none of the seed (regulations.ts 302-356, policies.ts
\* 199-251, issues.ts); the panel changes nothing of this.
THEOREM IngestionTypes == PanelSpec => []IngestionTypeOK
<1> DEFINE Inv == PanelInv /\ ReferencesInv /\ IssuesInv
<1>1. PanelInit => Inv
  BY PanelInvInit, TypesInit DEF PanelInit
<1>2. Inv /\ [PanelNext]_panelVars => Inv'
  <2> SUFFICES ASSUME Inv, [PanelNext]_panelVars PROVE Inv'
    OBVIOUS
  <2>1. PanelInv'
    BY PanelStep
  <2>2. CASE [IngestionNext]_ingestionVars
    BY <2>1, <2>2, ReferencesStep, IssuesInvStep DEF PanelInv, AlertsInv
  <2>3. CASE ~[IngestionNext]_ingestionVars
    <3>1. /\ UNCHANGED <<history, job, policies, server, github, issues, issueJob, kills, failures>>
          /\ UNCHANGED left \/ Spend("clicks")
          /\ UNCHANGED alerts \/ \E i : acknowledgeAlert(i)
      BY <2>3 DEF PanelNext, Load, showHistory, ack, Start, Serve, Arrive, Lose, acknowledgeAlert,
        tablesUnchanged, regulationVars, ingestionVars, panelVars
    <3>2. ReferencesInv'
      BY <3>1, JoblessRefers DEF acknowledgeAlert, PanelInv
    <3>3. BudgetOK' /\ left'.github = left.github /\ left'.faults = left.faults
      BY <3>1, SpendingKeepsBudget DEF IssuesInv, BudgetOK
    <3>4. IssuesInv'
      BY <3>1, <3>3 DEF IssuesInv, IssuesOK, ServerOK
    <3>5. QED
      BY <2>1, <3>2, <3>4
  <2>4. QED
    BY <2>2, <2>3
<1>3. Inv => IngestionTypeOK
  BY TypesHold DEF PanelInv
<1>4. QED
  BY <1>1, <1>2, <1>3, PTL DEF PanelSpec
=============================================================================
