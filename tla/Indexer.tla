------------------------------ MODULE Indexer ------------------------------
(***************************************************************************)
(* The event indexer, src/backend/src/services/indexer.ts, over            *)
(* fetchContractEvents of src/backend/src/services/soroban.ts.             *)
(*                                                                         *)
(* A pass reads the cursor, awaits the RPC, and then, without another      *)
(* await, commits the events, rebuilds seven tables, the cursor and the    *)
(* last ledger, each in a transaction of its own.  A submitted transaction *)
(* and the admin start passes without looking whether one is under way:    *)
(* inside the server they overlap at the await only (one thread of         *)
(* JavaScript); `npm run index` is a process of its own on the same        *)
(* database and interleaves between any two transactions.  There is no     *)
(* timer: startIndexer throws before it sets one (StopAtIndexer of         *)
(* Ingestion.tla), so the server runs only with its indexer disabled, and  *)
(* nothing but requests ever starts a pass.                                *)
(*                                                                         *)
(* An event is its position in `chain`, the order of the RPC's event ids.  *)
(* What the tables say is left out: a table is the set of events it was    *)
(* last rebuilt from.                                                      *)
(***************************************************************************)
EXTENDS Naturals, Sequences, FiniteSets, FiniteSetsExt

CONSTANTS
  ServerPass,   \* bound: passes the server has under way at a time
  CliPass,      \* passes of `npm run index`, each in a process of its own
  StartLedger,  \* INDEXER_START_LEDGER; 0 when it is not set
  Window,       \* ledgers looked back without it (1000 in the code)
  PageLimit,    \* events of one answer (100 in the code)
  LastTable,    \* tables 1..LastTable (7 in the code), in order of rebuilding
  Batches,      \* what a ledger may contain: sequences of Kind
  MaxLedger,    \* bound: ledgers closed
  MaxCliRuns,   \* bound: runs of `npm run index`
  MaxFaults     \* bound: failed calls, failed transactions and crashes

Pass == ServerPass \cup CliPass
Table == 1..LastTable

\* "failed": emitted by a failed contract call; "unnamed": parseEvent gives null.
Kind == {"event", "failed", "unnamed"}

ASSUME IndexerConstants ==
  /\ ServerPass \cap CliPass = {}
  /\ StartLedger \in Nat
  /\ Window \in Nat
  /\ PageLimit \in Nat \ {0}
  /\ LastTable \in Nat \ {0}
  /\ Batches \subseteq Seq(Kind)
  /\ MaxLedger \in Nat
  /\ MaxCliRuns \in Nat
  /\ MaxFaults \in Nat

VARIABLES
  chain,       \* external: the events of both contracts, with their ledgers
  latest,      \* external: the last closed ledger
  log,         \* soroban_events: positions stored
  cursor,      \* indexer_state: position of the cursor, 0 for none
  lastLedger,  \* indexer_state: last ledger indexed, 0 for none
  table,       \* per table, the events its rows were derived from
  pass,        \* the passes under way
  cliRuns,     \* how many runs of the command line have begun
  faults       \* bound counter

database == <<log, cursor, lastLedger, table>>
network == <<chain, latest>>
vars == <<database, network, pass, cliRuns, faults>>

\* step: where the pass stands; after: the cursor it asked with; from: the
\* ledger it asked from without a cursor; found, next: the answer; at: the
\* table it rebuilds; rows: what it loaded for it.
Idle == [step |-> "idle", after |-> 0, from |-> 0, found |-> {}, next |-> 0,
         at |-> 1, rows |-> {}]

\* Steps with the thread: no other pass of the same process runs.
Running == {"load", "write", "cursor", "ledger"}

\* The passes of the process that p belongs to.
Process(p) == IF p \in ServerPass THEN ServerPass ELSE {p}

HasThread(p) == \A q \in Process(p) \ {p} : pass[q].step \notin Running

Goto(p, changes) == pass' = [pass EXCEPT ![p] = changes]

-----------------------------------------------------------------------------
(* fetchContractEvents                                                     *)

FirstLedger ==
  IF StartLedger > 0 THEN StartLedger
  ELSE IF latest > Window THEN latest - Window ELSE 1

\* getEvents: at most PageLimit events after the cursor, or from the ledger.
Page(after, from) ==
  LET matching == {i \in DOMAIN chain :
                     i > after /\ (after = 0 => chain[i].ledger >= from)}
  IN  {i \in matching : Cardinality({j \in matching : j < i}) < PageLimit}

\* Events of the page that are stored.
Found(page) == {i \in page : chain[i].kind = "event"}

\* Mutant of NextCursor: the newest event of the chain, not of the page.
NextCursor_Newest(page) == Len(chain)

\* The last event of the page not from a failed call; 0 for null.
NextCursor(page) == Max({0} \cup {i \in page : chain[i].kind # "failed"})

\* indexOnce up to its await: the cursor, or the ledger to start from.
indexOnce(p) ==
  /\ pass[p].step = "idle"
  /\ HasThread(p)
  /\ Goto(p, [Idle EXCEPT !.step = "asked", !.after = cursor,
                          !.from = IF cursor = 0 THEN FirstLedger ELSE 0])
  /\ p \in CliPass => cliRuns < MaxCliRuns
  /\ cliRuns' = IF p \in CliPass THEN cliRuns + 1 ELSE cliRuns
  /\ UNCHANGED <<database, network, faults>>

\* The RPC answers from the chain as it is by then.
fetchContractEvents(p) ==
  LET page == Page(pass[p].after, pass[p].from)
  IN  /\ pass[p].step = "asked"
      /\ Goto(p, [Idle EXCEPT !.step = "answered", !.found = Found(page),
                              !.next = NextCursor(page)])
      /\ UNCHANGED <<database, network, cliRuns, faults>>

-----------------------------------------------------------------------------
(* The rest of the pass: one action per transaction.                       *)

\* `inserted > 0`
Inserted(events) == ~(events \subseteq log)

\* After the tables: the cursor if there is one, else the pass is over.
Finish(r) == IF r.next = 0 THEN Idle ELSE [r EXCEPT !.step = "cursor", !.rows = {}]

\* The transaction of persistEvents; ON CONFLICT DO NOTHING.
persistEvents(p) ==
  /\ pass[p].step = "answered"
  /\ HasThread(p)
  /\ log' = log \cup pass[p].found
  /\ Goto(p, IF Inserted(pass[p].found) THEN [pass[p] EXCEPT !.step = "load"]
             ELSE Finish(pass[p]))
  /\ UNCHANGED <<cursor, lastLedger, table, network, faults, cliRuns>>

\* Mutant of loadEvents: only the batch of this pass.
loadEvents_Batch(p) ==
  /\ pass[p].step = "load"
  /\ Goto(p, [pass[p] EXCEPT !.step = "write", !.rows = pass[p].found])
  /\ UNCHANGED <<database, network, cliRuns, faults>>

\* rebuild*: loadEvents runs before the transaction that replaces the rows.
loadEvents(p) ==
  /\ pass[p].step = "load"
  /\ Goto(p, [pass[p] EXCEPT !.step = "write", !.rows = log])
  /\ UNCHANGED <<database, network, cliRuns, faults>>

AfterTable(r) ==
  IF r.at < LastTable THEN [r EXCEPT !.step = "load", !.at = @ + 1, !.rows = {}]
  ELSE Finish(r)

rebuild(p) ==
  /\ pass[p].step = "write"
  /\ table' = [table EXCEPT ![pass[p].at] = pass[p].rows]
  /\ Goto(p, AfterTable(pass[p]))
  /\ UNCHANGED <<log, cursor, lastLedger, network, faults, cliRuns>>

\* No check that the cursor moves forward.
setCursor(p) ==
  /\ pass[p].step = "cursor"
  /\ cursor' = pass[p].next
  /\ Goto(p, IF pass[p].found = {} THEN Idle ELSE [pass[p] EXCEPT !.step = "ledger"])
  /\ UNCHANGED <<log, lastLedger, table, network, faults, cliRuns>>

setLastLedger(p) ==
  /\ pass[p].step = "ledger"
  /\ lastLedger' = Max({chain[i].ledger : i \in pass[p].found})
  /\ Goto(p, Idle)
  /\ UNCHANGED <<log, cursor, table, network, faults, cliRuns>>

-----------------------------------------------------------------------------
(* Failures.  A failed call or transaction ends the pass in the catch of   *)
(* indexOnce; what was committed before stays.                             *)

PassFails(p) ==
  /\ faults < MaxFaults
  /\ pass[p].step # "idle"
  /\ HasThread(p)
  /\ faults' = faults + 1
  /\ Goto(p, Idle)
  /\ UNCHANGED <<database, network, cliRuns>>

\* The process of p dies, and is started again with no pass under way.
Crash(p) ==
  /\ faults < MaxFaults
  /\ faults' = faults + 1
  /\ pass' = [q \in Pass |-> IF q \in Process(p) THEN Idle ELSE pass[q]]
  /\ UNCHANGED <<database, network, cliRuns>>

\* External: a ledger closes with a batch of events.
CloseLedger(batch) ==
  /\ latest < MaxLedger
  /\ latest' = latest + 1
  /\ chain' = chain \o [n \in DOMAIN batch |-> [ledger |-> latest + 1, kind |-> batch[n]]]
  /\ UNCHANGED <<database, pass, faults, cliRuns>>

-----------------------------------------------------------------------------
Init ==
  /\ chain = <<>>
  /\ latest = 0
  /\ log = {}
  /\ cursor = 0
  /\ lastLedger = 0
  /\ table = [t \in Table |-> {}]
  /\ pass = [p \in Pass |-> Idle]
  /\ cliRuns = 0
  /\ faults = 0

\* What an asked pass does next, when nothing fails.
Continue(p) ==
  \/ fetchContractEvents(p)
  \/ persistEvents(p)
  \/ loadEvents(p)
  \/ rebuild(p)
  \/ setCursor(p)
  \/ setLastLedger(p)

Next ==
  \/ \E p \in Pass : indexOnce(p) \/ Continue(p) \/ PassFails(p) \/ Crash(p)
  \/ \E batch \in Batches : CloseLedger(batch)

Spec == Init /\ [][Next]_vars

\* An RPC call is answered or fails, and synchronous code runs to its end.  That
\* anybody asks for a pass is not guaranteed.
FairSpec == Spec /\ \A p \in Pass : WF_vars(Continue(p))

-----------------------------------------------------------------------------
IsEvent(i) == i \in DOMAIN chain /\ chain[i].kind = "event"

\* Events that no start of a pass is too late for.
InScope(i) == chain[i].ledger >= StartLedger /\ (StartLedger = 0 => latest <= Window)

IndexerTypeOK ==
  /\ chain \in Seq([ledger: 1..MaxLedger, kind: Kind])
  /\ latest \in 0..MaxLedger
  /\ log \subseteq DOMAIN chain
  /\ cursor \in 0..Len(chain)
  /\ lastLedger \in 0..latest
  /\ table \in [Table -> SUBSET log]
  /\ pass \in [Pass -> [step: {"idle", "asked", "answered"} \cup Running,
                        after: 0..Len(chain), from: 0..(1 + MaxLedger + StartLedger),
                        found: SUBSET DOMAIN chain, next: 0..Len(chain),
                        at: Table, rows: SUBSET log]]
  /\ cliRuns \in 0..MaxCliRuns
  /\ faults \in 0..MaxFaults

\* Nothing is skipped: below a stored event or the cursor every event in scope is
\* stored, whatever passes overlap and write their cursors late, and wherever one
\* of them fails or its process dies (indexer.ts 733-742, 748, 763).
NothingSkipped ==
  \A j \in log \cup {cursor} : \A i \in 1..(j - 1) :
    IsEvent(i) /\ InScope(i) => i \in log

\* Between the passes of one process, and as long as nothing failed, every
\* table is derived from the whole log (indexer.ts 160-161, 720-729).
TablesFollowLog ==
  cliRuns = 0 /\ faults = 0 /\ (\A p \in Pass : pass[p].step \notin {"load", "write"})
    => \A t \in Table : table[t] = log

\* With the server as the only process no table goes back to an older log,
\* also after failures and crashes; two processes can do that, for rows are
\* loaded before the transaction that writes them (indexer.ts 192, 270).
TablesNeverGoBack ==
  [][cliRuns' = 0 => \A t \in Table : table[t] \subseteq table'[t]]_vars

\* Transactions keep being submitted, or the admin keeps asking.
PassesKeepStarting == []<><<\E p \in ServerPass : indexOnce(p)>>_vars

\* As long as passes are asked for, every event in scope is stored sooner or
\* later, whatever failed before and however the passes overlap (indexer.ts
\* 736-740), when no page is full of events of failed calls.
EveryEventIndexed ==
  PassesKeepStarting =>
    \A l \in 1..MaxLedger :
      latest = l /\ l >= StartLedger
        ~> \A i \in DOMAIN chain :
             IsEvent(i) /\ InScope(i) /\ chain[i].ledger <= l => i \in log

-----------------------------------------------------------------------------
(* What the documentation says and the code does not do.                   *)

\* "DB failures roll back inside `persistEvents` and re-throw into this handler
\* - again the cursor is preserved for the next attempt" (indexer.ts 738-739):
\* as long as there are next attempts, they repair what a failed one left undone.
TablesCatchUp ==
  PassesKeepStarting =>
    \A l \in 1..MaxLedger : latest = l ~> \A t \in Table : table[t] = log
=============================================================================
