----------------------------- MODULE Ingestion -----------------------------
(***************************************************************************)
(* What starts and ends ingestion: the boot of the server, POST            *)
(* /api/ingest/run and `npm run ingest`, each of which ingests policies    *)
(* (Regulations.tla) and then issues (ingest/issues.ts), in two processes  *)
(* that can be killed and whose writes can fail.                           *)
(*                                                                         *)
(* GitHub is external: a function from the numbers of the open issues of   *)
(* the repository to their labels and whether the title is fit to store.   *)
(***************************************************************************)
EXTENDS Regulations

CONSTANTS
  IngestOnStart, ReingestOnStart,  \* configuration
  GithubRepo,   \* configuration: whether a repository is configured
  SeedIssue,    \* ids of data/seed-issues.json, which are no numbers
  FetchLimit,   \* open issues that five pages hold (500)
  Budgets       \* configuration: whether the server goes on to index events;
                \* bound: what sources say, how often they change, how many jobs
                \* are started, how many faults there are

Boot == "boot"   \* the job of the server's start

ASSUME IngestionAssumption ==
  /\ FetchLimit \in Nat \ {0}
  /\ Boot \in Job
  /\ \A budget \in Budgets :
       /\ {"files", "github", "faults", "indexes"} \subseteq DOMAIN budget
       /\ budget.indexes \in BOOLEAN
       /\ budget.files \subseteq Dataset /\ budget.faults \in Nat
       /\ \A numbers \in {DOMAIN hub : hub \in budget.github} : numbers \cap SeedIssue = {}

VARIABLES
  server,       \* "down", "starting" or "up"
  github,
  issues,       \* rows of issues: id |-> row
  issueJob,     \* job |-> when it goes on to issues, and what it found
  left,         \* one of Budgets, and what of it may still happen
  kills, failures

ingestionVars ==
  <<regulationVars, server, github, issues, issueJob, left, kills, failures>>

Cli == "cli"
Process == {"server", "cli"}
ProcessOf(j) == IF j = Cli THEN "cli" ELSE "server"

\* Within a process the policies of a job are ingested without interruption.
Uninterrupted(j) ==
  \A k \in Job \ {j} : ProcessOf(k) = ProcessOf(j) => job[k].at \notin Detecting \cup {"load"}

Spend(what) == left[what] > 0 /\ left' = [left EXCEPT ![what] = @ - 1]

At(where) == [Idle EXCEPT !.at = where]
Plan(when) == [when |-> when, found |-> <<>>]

regulationsUnchanged == UNCHANGED <<dataset, history, alerts, policies>>
faultsUnchanged == UNCHANGED <<kills, failures>>

-----------------------------------------------------------------------------
(* Starts.                                                                 *)

\* Mutant of IssuesAtBoot: only after the policies, as for a request.
IssuesAtBoot_Stored ==
  IF IngestOnStart /\ (ReingestOnStart \/ issues = <<>>) THEN "stored" ELSE "never"

IssuesAtBoot ==
  IF IngestOnStart /\ (ReingestOnStart \/ issues = <<>>) THEN "always" ELSE "never"

\* main: both tables are counted before anything is ingested, and issues are
\* ingested whatever becomes of the policies.
BootServer ==
  LET both == IngestOnStart /\ (ReingestOnStart \/ policies = <<>>)
  IN  /\ server = "down"
      /\ server' = "starting"
      /\ issueJob' = [issueJob EXCEPT ![Boot] = Plan(IssuesAtBoot)]
      /\ Goes(Boot, IF both THEN At("load")
                      ELSE IF IssuesAtBoot # "never" THEN At("fetch") ELSE Idle)
      /\ regulationsUnchanged /\ faultsUnchanged
      /\ UNCHANGED <<github, issues, left>>

\* When the ingestion has ended.
EndsBoot == server = "starting" /\ job[Boot].at = "idle"

\* startIndexer returns where it has nothing to do.
Listen ==
  /\ EndsBoot /\ ~left.indexes
  /\ server' = "up"
  /\ regulationsUnchanged /\ faultsUnchanged
  /\ UNCHANGED <<job, github, issues, issueJob, left>>

\* Otherwise it calls recordAudit, which indexer.ts does not import: it throws
\* before the first pass, and the process exits instead of listening.
StopAtIndexer ==
  /\ EndsBoot /\ left.indexes
  /\ server' = "down"
  /\ regulationsUnchanged /\ faultsUnchanged
  /\ UNCHANGED <<job, github, issues, issueJob, left>>

\* A request or a command: its issues come only after its policies went well.
StartJob(j) ==
  /\ j # Boot /\ job[j].at = "idle" /\ (j = Cli \/ server = "up")
  /\ Spend("jobs")
  /\ Uninterrupted(j)
  /\ Goes(j, At("load"))
  /\ issueJob' = [issueJob EXCEPT ![j] = Plan("stored")]
  /\ regulationsUnchanged /\ faultsUnchanged
  /\ UNCHANGED <<server, github, issues>>

-----------------------------------------------------------------------------
(* Policies, then issues.                                                  *)

After(j, outcome) ==
  At(IF issueJob[j].when \in {"always", outcome} THEN "fetch" ELSE "idle")

IngestPolicies(j) ==
  /\ Uninterrupted(j)
  /\ \/ loadPolicyDataset(j, After(j, "failed"))
     \/ Detect(j)
     \/ persistPolicies(j, After(j, "stored"), After(j, "failed"))
  /\ faultsUnchanged
  /\ UNCHANGED <<server, github, issues, issueJob, left>>

pointsFromLabels(labels) ==
  CASE "points-500" \in labels -> 500
    [] "points-500" \notin labels /\ labels \cap {"points-300", "large"} # {} -> 300
    [] labels \cap {"points-500", "points-300", "large"} = {}
         /\ labels \cap {"points-200", "medium"} # {} -> 200
    [] OTHER -> 100

\* The newest open issues, without drafts.
Fetchable ==
  {n \in DOMAIN github :
     /\ Cardinality({m \in DOMAIN github : m > n}) < FetchLimit
     /\ github[n].title # "draft"}

\* Other requests are served while GitHub is asked.
fetchGithubIssues(j) ==
  /\ job[j].at = "fetch"
  /\ \/ /\ GithubRepo
        /\ Goes(j, At("store"))
        /\ issueJob' = [issueJob EXCEPT ![j].found = [n \in Fetchable |-> github[n]]]
     \/ Goes(j, At("seed")) /\ UNCHANGED issueJob
  /\ regulationsUnchanged /\ faultsUnchanged
  /\ UNCHANGED <<server, github, issues, left>>

\* The rows replace those of the same issues, and no others.
upsertIssues(rows) ==
  issues' = [i \in DOMAIN rows \cup DOMAIN issues |->
               IF i \in DOMAIN rows THEN rows[i] ELSE issues[i]]

\* One transaction: a single title that is too short discards all that was
\* fetched, and the seed is taken in its place.
persistGithub(j) ==
  LET found == issueJob[j].found
      valid == \A n \in DOMAIN found : found[n].title # "short"
  IN  /\ job[j].at = "store"
      /\ IF valid
         THEN /\ upsertIssues([n \in DOMAIN found |->
                   [points |-> pointsFromLabels(found[n].labels), source |-> "github"]])
              /\ Goes(j, Idle)
         ELSE Goes(j, At("seed")) /\ UNCHANGED issues
      /\ issueJob' = [issueJob EXCEPT ![j].found = <<>>]
      /\ regulationsUnchanged /\ faultsUnchanged
      /\ UNCHANGED <<server, github, left>>

persistSeed(j) ==
  /\ job[j].at = "seed"
  /\ upsertIssues([i \in SeedIssue |-> [points |-> 100, source |-> "seed"]])
  /\ Goes(j, Idle)
  /\ regulationsUnchanged /\ faultsUnchanged
  /\ UNCHANGED <<server, github, issueJob, left>>

-----------------------------------------------------------------------------
(* Faults, and what people do.                                             *)

CanFault == kills + failures < left.faults

Kill(process) ==
  /\ CanFault
  /\ IF process = "server" THEN server # "down" /\ server' = "down"
     ELSE job[Cli].at # "idle" /\ UNCHANGED server
  /\ job' = [j \in Job |-> IF ProcessOf(j) = process THEN Idle ELSE job[j]]
  /\ issueJob' = [j \in Job |-> IF ProcessOf(j) = process THEN Plan("never") ELSE issueJob[j]]
  /\ kills' = kills + 1
  /\ regulationsUnchanged
  /\ UNCHANGED <<github, issues, left, failures>>

\* A statement throws; after issues from GitHub also the one that records the
\* run, with everything stored.
WriteFails(j) ==
  /\ CanFault
  /\ \/ job[j].at \in Detecting /\ Goes(j, After(j, "failed")) /\ UNCHANGED issues
     \/ job[j].at = "store" /\ Goes(j, At("seed")) /\ UNCHANGED issues
     \/ job[j].at = "seed" /\ Goes(j, Idle) /\ UNCHANGED issues
  /\ failures' = failures + 1
  /\ regulationsUnchanged
  /\ UNCHANGED <<server, github, issueJob, left, kills>>

EditDataset ==
  /\ Spend("edits")
  /\ \E file \in left.files \ {dataset} : Edit(file)
  /\ faultsUnchanged
  /\ UNCHANGED <<server, github, issues, issueJob>>

GithubChanges ==
  /\ Spend("pushes")
  /\ github' \in left.github \ {github}
  /\ regulationsUnchanged /\ faultsUnchanged
  /\ UNCHANGED <<job, server, issues, issueJob>>

Acknowledge ==
  /\ server = "up"
  /\ Spend("acks")
  /\ \E i \in DOMAIN alerts : acknowledgeAlert(i)
  /\ faultsUnchanged
  /\ UNCHANGED <<server, github, issues, issueJob>>

IngestionInit ==
  /\ RegulationsInit
  /\ server = "down"
  /\ left \in Budgets
  /\ dataset \in left.files
  /\ github \in left.github
  /\ issues = <<>>
  /\ issueJob = [j \in Job |-> Plan("never")]
  /\ kills = 0 /\ failures = 0

JobSteps(j) ==
  IngestPolicies(j) \/ fetchGithubIssues(j) \/ persistGithub(j) \/ persistSeed(j)

IngestionNext ==
  \/ BootServer \/ Listen \/ StopAtIndexer
  \/ \E j \in Job : StartJob(j) \/ JobSteps(j) \/ WriteFails(j)
  \/ \E process \in Process : Kill(process)
  \/ EditDataset \/ GithubChanges \/ Acknowledge

IngestionSpec == IngestionInit /\ [][IngestionNext]_ingestionVars

\* Synchronous code runs to its end, GitHub answers or fails, and the server is
\* started again when it is down (docker-compose.yml:4, restart: unless-stopped).
IngestionFairSpec ==
  /\ IngestionSpec
  /\ WF_ingestionVars(BootServer)
  /\ WF_ingestionVars(Listen \/ StopAtIndexer)
  /\ \A j \in Job : WF_ingestionVars(JobSteps(j))

-----------------------------------------------------------------------------
(* Properties.                                                             *)

IngestionTypeOK ==
  /\ RegulationsTypeOK
  /\ server \in {"down", "starting", "up"}
  /\ github \in left.github
  /\ \A i \in DOMAIN issues : issues[i].source = IF i \in SeedIssue THEN "seed" ELSE "github"
  /\ kills + failures \in 0..left.faults

\* As long as nothing was killed and no write failed, every change of a policy
\* has an alert that says what changed, is an escalation just if the severity went
\* up, and critical just if it went up by two or more, as docs/DATA.md:59 has it
\* (but see EscalationsAreCritical), in whatever order jobs overlap: of two that
\* race for a revision the one that wrote it raises it (regulations.ts 123-138,
\* 325-343).
EveryRevisionIsAlerted ==
  kills + failures = 0 =>
    \A p \in Policy : \A v \in DOMAIN history[p] \ {1} :
      LET diff == history[p][v].changedFields
          up == history[p][v].snapshot.severity - history[p][v - 1].snapshot.severity
      IN  \/ \E i \in DOMAIN alerts :
               /\ alerts[i].policy = p /\ alerts[i].version = v
               /\ alerts[i].changedFields = diff
               /\ alerts[i].class.type = "severity-escalation" <=> up > 0
               /\ alerts[i].class.severity = "critical" <=> up > 1
          \/ \E j \in Job : job[j].at = "alert" /\ Current(j).id = p
                            /\ job[j].seen = v - 1 /\ job[j].diff = diff

\* A server that ingests on start fills both tables, wherever it was killed before
\* and also if it never comes to listen: policies, if the file is valid and not
\* empty, and issues, unless GitHub answers and has none to fetch, for an empty
\* answer is stored as it is and the seed is not taken (server.ts 37-54, issues.ts
\* 139-157).  A write that fails is not repeated before the next start.
TablesFill ==
  IngestOnStart /\ [](failures = 0) =>
    /\ (~GithubRepo \/ [](Fetchable # {})) => <>(issues # <<>>)
    /\ [](dataset # <<>> /\ \A i \in DOMAIN dataset : IsValid(dataset[i])) => <>(policies # <<>>)

-----------------------------------------------------------------------------
(* What the documentation says and the code does not do.                   *)

\* "a severity escalation is critical" (regulations.ts 10-11); by one level it is
\* a warning.
EscalationsAreCritical ==
  \A i \in DOMAIN alerts :
    alerts[i].class.type = "severity-escalation" => alerts[i].class.severity = "critical"

\* "initial ingestion, indexer startup, then listen" (server.ts 2-3).
ServerListens == [](kills = 0) => <>(server = "up")
=============================================================================
