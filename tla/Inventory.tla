------------------------------ MODULE Inventory ------------------------------
(***************************************************************************)
(* `oracle seed` (cmd/oracle/main.go): the resources of a cloud account    *)
(* are fetched service by service (internal/cloud), upserted into the      *)
(* table of resources in one transaction and summed up in cost snapshots   *)
(* in another (internal/db); the trends are read from the snapshots.       *)
(* Seeds of several accounts share the database and overlap, the cloud     *)
(* changes while it is listed, requests fail or hang, and a seed may die   *)
(* at any step.                                                            *)
(***************************************************************************)
EXTENDS Integers, Sequences, FiniteSets, SequencesExt

CONSTANTS
    Seeds,          \* processes running `oracle seed`
    Accounts,       \* accounts, projects and subscriptions
    Configured,     \* the accounts the seeds may be configured for
    ProviderOf,     \* [Accounts -> Providers]: CLOUDORACLE_PROVIDER
    MaxName,        \* names of resources are 1..MaxName, in listing order
    PageSize,       \* resources on a page of the cloud's answers
    ServerOf,       \* [1..MaxName -> Nat]: the Azure SQL server of a name
    Given,          \* [Accounts -> [Slots -> set of names]]: what the clouds hold at first
    Churn,          \* <<account, slot, name>> that may come and go
    MaxChanges,     \* bound: how often they do
    Count,          \* --count of the synthetic provider
    Costs,          \* monthly costs it draws from
    TicksPerDay,    \* of the clock behind NOW()
    NoRow           \* no row, no snapshot

Providers == {"aws", "gcp", "azure", "synthetic"}
Names == 1..MaxName
Slots == 1..4       \* the fetchers of FetchResources, in the order of their results

ASSUME InventoryAssumption ==
    /\ ProviderOf \in [Accounts -> Providers] /\ Configured \subseteq [Seeds -> Accounts]
    /\ MaxName \in Nat /\ PageSize \in Nat \ {0} /\ ServerOf \in [Names -> Nat]
    /\ Given \in [Accounts -> [Slots -> SUBSET Names]]
    /\ Churn \subseteq Accounts \X Slots \X Names
    /\ MaxChanges \in Nat /\ Count \in Nat /\ Costs \subseteq Nat /\ TicksPerDay \in Nat \ {0}

VARIABLES
    cloud,      \* [Accounts -> [Slots -> SUBSET Names]]
    changes,    \* changes of the cloud so far
    clock,      \* NOW()
    phase,      \* where each seed is
    account,    \* the account each seed is configured for
    busy,       \* the fetchers still running
    cursor,     \* each fetcher's place in its listing
    found,      \* what each fetcher has gathered
    all,        \* the resources of a seed, once its fetchers have ended
    pending,    \* its rows written and not yet committed; they are locked
    row,        \* how many resources it has upserted
    table,      \* the table resources: a row for each id, or NoRow
    stamp,      \* taken_at of its snapshots
    snapshots,  \* the table cost_snapshots
    kept,       \* history: resources in the cloud all through the fetch
    seen        \* history: resources in the cloud at some moment of it

fetching == <<busy, cursor, found>>
database == <<table, pending, row>>
history  == <<kept, seen>>
vars == <<cloud, changes, clock, phase, account, fetching, all, database, stamp, snapshots, history>>

Services(a) ==
    CASE ProviderOf[a] = "gcp"   -> <<"compute", "cloudsql", "persistent-disk", "functions">>
      [] ProviderOf[a] = "azure" -> <<"vm", "sql", "managed-disk", "functions">>
      [] OTHER                   -> <<"ec2", "rds", "ebs", "lambda">>
AllServices == UNION {{Services(a)[i] : i \in Slots} : a \in Accounts}

\* Mutant: the two columns swapped.
RowSwapped(a, service, cost, by) == [account |-> service, service |-> a, cost |-> cost, by |-> by]
\* A row keeps the seed that touched it last for its updated_at.
Resource(id, a, i, cost) == [id |-> id, account |-> a, service |-> Services(a)[i], cost |-> cost]
Resources == [id : Names, account : Accounts, service : AllServices, cost : Nat]
Row(a, service, cost, by) == [account |-> a, service |-> service, cost |-> cost, by |-> by]
Rows  == [account : Accounts, service : AllServices, cost : Nat, by : Seeds]
ASSUME NoRowAssumption == NoRow \notin Rows

Untouched == [n \in Names |-> NoRow]

AtStart == [i \in Slots |-> 0]
NothingFound == [i \in Slots |-> <<>>]
NoneThere == [i \in Slots |-> {}]

Phases == {"idle", "fetch", "insert", "snapshot", "stamped", "done", "failed"}
Ended(s) == phase[s] \in {"done", "failed"}

Init ==
    /\ cloud = Given
    /\ changes = 0
    /\ clock \in 0..(TicksPerDay - 1)
    /\ phase = [s \in Seeds |-> "idle"]
    /\ account \in Configured
    /\ busy = [s \in Seeds |-> {}]
    /\ cursor = [s \in Seeds |-> AtStart]
    /\ found = [s \in Seeds |-> NothingFound]
    /\ all = [s \in Seeds |-> <<>>]
    /\ pending = [s \in Seeds |-> Untouched]
    /\ row = [s \in Seeds |-> 0]
    /\ table = Untouched
    /\ stamp = [s \in Seeds |-> 0]
    /\ snapshots = {}
    /\ kept = [s \in Seeds |-> NoneThere]
    /\ seen = [s \in Seeds |-> NoneThere]

----------------------------------------------------------------------------
(* Fetching.  Real providers run one fetcher for each service, together,   *)
(* each under a deadline of its own; a fetcher that fails only leaves its  *)
(* result empty.                                                           *)

Real(s) == ProviderOf[account[s]] # "synthetic"

\* The provider is made, or the process exits with an error.
Start(s) ==
    /\ phase[s] = "idle"
    /\ \/ phase' = [phase EXCEPT ![s] = "failed"] /\ UNCHANGED <<busy, kept, seen>>
       \/ /\ phase' = [phase EXCEPT ![s] = "fetch"]
          /\ busy' = [busy EXCEPT ![s] = IF Real(s) THEN Slots ELSE {}]
          /\ kept' = [kept EXCEPT ![s] = cloud[account[s]]]
          /\ seen' = [seen EXCEPT ![s] = cloud[account[s]]]
    /\ UNCHANGED <<cloud, changes, clock, account, cursor, found, all, database, stamp, snapshots>>

Unread(s, i) == {n \in cloud[account[s]][i] : n > cursor[s][i]}
\* The pages are full but for the last.
PageOf(S) == {n \in S : Cardinality({m \in S : m < n}) < PageSize}

\* The databases of Azure are listed server by server, and a server that
\* fails is skipped.
ByServer(s, i) == ProviderOf[account[s]] = "azure" /\ i = 2
Pageable(s, i) ==
    {n \in Unread(s, i) : ByServer(s, i) => ServerOf[n] = ServerOf[Min(Unread(s, i))]}

\* A page is answered; the fetcher ends when it was the last.
ReadPage(s, i) ==
    LET page == PageOf(Pageable(s, i))
        more == Unread(s, i) # page
    IN  /\ i \in busy[s]
        /\ \E answer \in [1..Cardinality(page) -> page] :
              /\ \A n \in page : \E k \in DOMAIN answer : answer[k] = n
              /\ found' = [found EXCEPT ![s][i] = @ \o answer]
        /\ cursor' = [cursor EXCEPT ![s][i] = IF page = {} THEN @ ELSE Max(page)]
        /\ busy' = [busy EXCEPT ![s] = IF more THEN @ ELSE @ \ {i}]
        /\ UNCHANGED <<cloud, changes, clock, phase, account, all, database, stamp, snapshots, history>>

\* Mutant: what was gathered is kept.
DiscardNothing(s, i) ==
    /\ busy' = [busy EXCEPT ![s] = @ \ {i}]
    /\ UNCHANGED <<cursor, found>>
\* A listing that fails or exceeds its deadline gives nothing at all.
Discard(s, i) ==
    /\ busy' = [busy EXCEPT ![s] = @ \ {i}]
    /\ found' = [found EXCEPT ![s][i] = <<>>]
    /\ UNCHANGED cursor

\* A server that fails: what is left of it is passed over.
SkipServer(s, i) ==
    /\ Unread(s, i) # {}
    /\ LET next == Min(Unread(s, i))
           rest == {n \in Names : ServerOf[n] <= ServerOf[next]}
       IN  /\ cursor' = [cursor EXCEPT ![s][i] = Max(rest)]
           /\ busy' = [busy EXCEPT ![s] = IF Unread(s, i) \subseteq rest THEN @ \ {i} ELSE @]
    /\ UNCHANGED found

\* The deadline passes on the last page of servers: none of those left answers.
SkipServers(s, i) == busy' = [busy EXCEPT ![s] = @ \ {i}] /\ UNCHANGED <<cursor, found>>

\* A request fails.
RequestFails(s, i) ==
    /\ i \in busy[s]
    /\ Discard(s, i) \/ (ByServer(s, i) /\ SkipServer(s, i))
    /\ UNCHANGED <<cloud, changes, clock, phase, account, all, database, stamp, snapshots, history>>

\* Mutant: no deadline.
ExpireNever(s, i) == FALSE /\ UNCHANGED vars
\* serviceTimeout passes.
Expire(s, i) ==
    /\ i \in busy[s]
    /\ Discard(s, i) \/ (ByServer(s, i) /\ SkipServers(s, i))
    /\ UNCHANGED <<cloud, changes, clock, phase, account, all, database, stamp, snapshots, history>>

\* What the fetchers found, in their order; real providers know no cost.
Listed(s) ==
    LET part(i) == [k \in DOMAIN found[s][i] |-> Resource(found[s][i][k], account[s], i, 0)]
    IN  part(1) \o part(2) \o part(3) \o part(4)

\* The prefix of its service keeps a drawn id from those of the other services.
Generated(s) ==
    [1..Count -> {Resource(n, account[s], 1 + (n % 4), c) : n \in Names, c \in Costs}]

Gather(s) ==
    /\ phase[s] = "fetch" /\ busy[s] = {}
    /\ IF Real(s) THEN all' = [all EXCEPT ![s] = Listed(s)]
                  ELSE \E list \in Generated(s) : all' = [all EXCEPT ![s] = list]
    /\ phase' = [phase EXCEPT ![s] = "insert"]
    /\ cursor' = [cursor EXCEPT ![s] = AtStart]
    /\ found' = [found EXCEPT ![s] = NothingFound]
    /\ UNCHANGED <<cloud, changes, clock, account, busy, database, stamp, snapshots, history>>

----------------------------------------------------------------------------
(* The upserts.  A row stays locked from its upsert to the end of the      *)
(* transaction, and a seed that meets a row of another one waits.          *)

Holds(s, n) == pending[s][n] # NoRow
NextId(s) == all[s][row[s] + 1].id
WaitsFor(s, t) ==
    /\ phase[s] = "insert" /\ row[s] < Len(all[s])
    /\ t # s /\ Holds(t, NextId(s))

\* ON CONFLICT (id) keeps all but cost, usage and updated_at of the old row.
Upsert(old, r, s) ==
    IF old = NoRow THEN Row(r.account, r.service, r.cost, s)
                   ELSE Row(old.account, old.service, r.cost, s)

\* Mutant: each statement commits by itself.
ExecRowAlone(s) ==
    /\ phase[s] = "insert" /\ row[s] < Len(all[s])
    /\ LET r == all[s][row[s] + 1]
       IN  table' = [table EXCEPT ![r.id] = Upsert(@, r, s)]
    /\ row' = [row EXCEPT ![s] = @ + 1]
    /\ UNCHANGED <<cloud, changes, clock, phase, account, fetching, all, pending, stamp, snapshots, history>>
ExecRow(s) ==
    /\ phase[s] = "insert" /\ row[s] < Len(all[s])
    /\ \A t \in Seeds : ~WaitsFor(s, t)
    /\ LET r   == all[s][row[s] + 1]
           old == IF Holds(s, r.id) THEN pending[s][r.id] ELSE table[r.id]
       IN  pending' = [pending EXCEPT ![s][r.id] = Upsert(old, r, s)]
    /\ row' = [row EXCEPT ![s] = @ + 1]
    /\ UNCHANGED <<cloud, changes, clock, phase, account, fetching, all, table, stamp, snapshots, history>>

Release(s) == pending' = [pending EXCEPT ![s] = Untouched]

\* The process exits with an error, and its memory is gone.
Exits(s) ==
    /\ phase' = [phase EXCEPT ![s] = "failed"]
    /\ busy' = [busy EXCEPT ![s] = {}]
    /\ cursor' = [cursor EXCEPT ![s] = AtStart]
    /\ found' = [found EXCEPT ![s] = NothingFound]
    /\ all' = [all EXCEPT ![s] = <<>>]
    /\ row' = [row EXCEPT ![s] = 0]
    /\ kept' = [kept EXCEPT ![s] = NoneThere]
    /\ seen' = [seen EXCEPT ![s] = NoneThere]
    /\ Release(s)

\* The transaction is rolled back: the connection is lost, a statement fails,
\* or the process dies.
InsertFails(s) ==
    /\ phase[s] = "insert"
    /\ Exits(s)
    /\ UNCHANGED <<cloud, changes, clock, account, table, stamp, snapshots>>

\* PostgreSQL ends one of the transactions that wait for each other.
Deadlock(s) ==
    /\ \E D \in SUBSET Seeds :
          s \in D /\ \A t \in D : \E u \in D : WaitsFor(t, u)
    /\ InsertFails(s)

Merged(s) == [n \in Names |-> IF Holds(s, n) THEN pending[s][n] ELSE table[n]]

\* The answer of the commit may be lost: the rows are there, and the process
\* fails.
Commit(s) ==
    /\ phase[s] = "insert" /\ row[s] = Len(all[s])
    /\ table' = Merged(s)
    /\ \/ /\ phase' = [phase EXCEPT ![s] = "snapshot"]
          /\ row' = [row EXCEPT ![s] = 0]
          /\ Release(s)
          /\ UNCHANGED <<fetching, all, history>>
       \/ Exits(s)
    /\ UNCHANGED <<cloud, changes, clock, account, stamp, snapshots>>

----------------------------------------------------------------------------
(* The snapshots: a row for each account and service listed, all with the  *)
(* time at which their transaction began.                                  *)

\* No resources, no transaction.
Stamp(s) ==
    /\ phase[s] = "snapshot"
    /\ IF all[s] = <<>>
       THEN phase' = [phase EXCEPT ![s] = "done"] /\ UNCHANGED <<clock, stamp>>
       ELSE /\ phase' = [phase EXCEPT ![s] = "stamped"]
            /\ clock' = clock + 1
            /\ stamp' = [stamp EXCEPT ![s] = clock + 1]
    /\ UNCHANGED <<cloud, changes, account, fetching, all, database, snapshots, history>>

\* The places of a list with a resource of a service.
Of(list, v) == {k \in DOMAIN list : list[k].service = v}
CountOf(list, v) == Cardinality(Of(list, v))
CostOf(list, v) == MapThenSumSet(LAMBDA k : list[k].cost, Of(list, v))

Snapshot(s, v) ==
    [taken |-> stamp[s], account |-> account[s], service |-> v,
     count |-> CountOf(all[s], v), cost |-> CostOf(all[s], v), by |-> s]

\* A failure is only logged.
Record(s) ==
    /\ phase[s] = "stamped"
    /\ \/ snapshots' = snapshots \cup {Snapshot(s, v) : v \in {all[s][k].service : k \in DOMAIN all[s]}}
       \/ UNCHANGED snapshots
    /\ phase' = [phase EXCEPT ![s] = "done"]
    /\ UNCHANGED <<cloud, changes, clock, account, fetching, all, database, stamp, history>>

\* The process dies before it inserts or while it records.
Dies(s) ==
    /\ phase[s] \in {"fetch", "snapshot", "stamped"}
    /\ Exits(s)
    /\ UNCHANGED <<cloud, changes, clock, account, table, stamp, snapshots>>

----------------------------------------------------------------------------
(* The clouds.                                                             *)

Change(a, i, n) ==
    /\ changes < MaxChanges
    /\ changes' = changes + 1
    /\ cloud' = [cloud EXCEPT ![a][i] = IF n \in @ THEN @ \ {n} ELSE @ \cup {n}]
    /\ LET watching == {s \in Seeds : phase[s] = "fetch" /\ account[s] = a}
       IN  /\ kept' = [s \in Seeds |-> IF s \in watching
                        THEN [kept[s] EXCEPT ![i] = @ \ {n}] ELSE kept[s]]
           /\ seen' = [s \in Seeds |-> IF s \in watching
                        THEN [seen[s] EXCEPT ![i] = @ \cup {n}] ELSE seen[s]]
    /\ UNCHANGED <<clock, phase, account, fetching, all, database, stamp, snapshots>>

AllEnded == (\A s \in Seeds : Ended(s)) /\ UNCHANGED vars

Next ==
    \/ \E s \in Seeds : \/ Start(s) \/ Gather(s) \/ ExecRow(s) \/ InsertFails(s) \/ Deadlock(s)
                        \/ Commit(s) \/ Stamp(s) \/ Record(s) \/ Dies(s)
                        \/ \E i \in Slots : ReadPage(s, i) \/ RequestFails(s, i) \/ Expire(s, i)
    \/ \E c \in Churn : Change(c[1], c[2], c[3])
    \/ AllEnded

\* A process that is not killed goes on, a deadline passes, and PostgreSQL
\* answers and looks for deadlocks; nothing makes a cloud answer.
Fairness ==
    \A s \in Seeds :
        /\ WF_vars(Gather(s)) /\ WF_vars(ExecRow(s)) /\ WF_vars(Deadlock(s))
        /\ WF_vars(Commit(s)) /\ WF_vars(Stamp(s)) /\ WF_vars(Record(s))
        /\ \A i \in Slots : WF_vars(Expire(s, i))

Spec == Init /\ [][Next]_vars /\ Fairness

----------------------------------------------------------------------------
(* The trends, as internal/db/trends.go reads them.                        *)

DateOf(t) == t \div TicksPerDay
InWindow(days) == {r \in snapshots : r.taken >= clock - days * TicksPerDay}
Shots(days, d, v) == {r \in InWindow(days) : DateOf(r.taken) = d /\ r.service = v}

\* Mutant: the first snapshot of the day stays.
CellFirst(days, d, v) ==
    LET rows == Shots(days, d, v)
    IN  IF rows = {} THEN NoRow ELSE CHOOSE r \in rows : \A q \in rows : r.taken <= q.taken
\* The cell of a date and service: the last of its snapshots.
Cell(days, d, v) ==
    LET rows == Shots(days, d, v)
    IN  IF rows = {} THEN NoRow ELSE CHOOSE r \in rows : \A q \in rows : q.taken <= r.taken
CellCost(c) == IF c = NoRow THEN 0 ELSE c.cost
TotalCost(days, d) == MapThenSumSet(LAMBDA v : CellCost(Cell(days, d, v)), AllServices)

----------------------------------------------------------------------------
(* Properties.                                                             *)

TypeOK ==
    /\ cloud \in [Accounts -> [Slots -> SUBSET Names]]
    /\ changes \in 0..MaxChanges /\ clock \in Nat
    /\ phase \in [Seeds -> Phases] /\ account \in [Seeds -> Accounts]
    /\ busy \in [Seeds -> SUBSET Slots] /\ cursor \in [Seeds -> [Slots -> 0..MaxName]]
    /\ found \in [Seeds -> [Slots -> Seq(Names)]] /\ all \in [Seeds -> Seq(Resources)]
    /\ pending \in [Seeds -> [Names -> Rows \cup {NoRow}]] /\ row \in [Seeds -> Nat]
    /\ table \in [Names -> Rows \cup {NoRow}]
    /\ stamp \in [Seeds -> Nat]
    /\ \A r \in snapshots : r.account \in Accounts /\ r.service \in AllServices /\ r.by \in Seeds
    /\ kept \in [Seeds -> [Slots -> SUBSET Names]] /\ seen \in [Seeds -> [Slots -> SUBSET Names]]

\* A list that is under way, and the seeds that have stored theirs.
UnderWay == [s \in Seeds |-> IF phase[s] \in {"insert", "snapshot", "stamped"} THEN all[s] ELSE <<>>]
Stored   == {s \in Seeds : phase[s] \in {"snapshot", "stamped"}}

Ledger == INSTANCE SeedLedger WITH Absent <- NoRow, list <- UnderWay, stored <- Stored

\* Whatever fails and however seeds overlap, wait and deadlock row by row, the
\* tables are those of a ledger: a list enters whole and once, a snapshot is of
\* a list that has entered, and is whole too (the transactions of
\* InsertResources, db/insert.go, and CreateSnapshot, db/snapshots.go).
KeepsLedger == Ledger!Spec

\* What a fetcher has gathered was there, has no name twice, and when it ends
\* with anything it has all that stayed, however the cloud changes between two
\* pages and whatever fails (the fetchers of internal/cloud).
ListingsTell ==
    \A s \in Seeds, i \in Slots : phase[s] = "fetch" /\ Real(s) =>
        /\ \A k \in DOMAIN found[s][i] : found[s][i][k] \in seen[s][i]
        /\ \A j, k \in DOMAIN found[s][i] : found[s][i][j] = found[s][i][k] => j = k
        /\ i \notin busy[s] /\ found[s][i] # <<>> /\ ~ ByServer(s, i) => kept[s][i] \subseteq Range(found[s][i])

\* A snapshot never counts less than what stayed in the cloud all through the
\* fetch, nor more than what was there at some time of it: a listing that
\* fails half-way leaves no row rather than a low one (FetchResources).  The
\* databases of Azure SQL are the exception the code makes.
SnapshotsTell ==
    \A r \in snapshots, i \in Slots :
        Real(r.by) /\ Services(r.account)[i] = r.service =>
            /\ r.count <= Cardinality(seen[r.by][i])
            /\ ByServer(r.by, i) \/ Cardinality(kept[r.by][i]) <= r.count

\* The trend of a day shows, for a service of one account, what the seed that
\* began its snapshots last listed, however the seeds overlapped (ListTrends).
TrendsTell ==
    \A days \in 1..2, d \in 0..DateOf(clock), v \in AllServices :
        LET by == {r.by : r \in Shots(days, d, v)}
        IN  (\A s, t \in by : account[s] = account[t]) =>
                IF by = {} THEN Cell(days, d, v) = NoRow
                ELSE \E s \in by : /\ \A t \in by : stamp[t] <= stamp[s]
                                   /\ Cell(days, d, v) = Snapshot(s, v)

\* A seed ends, though a cloud never answers it and others hold its rows.
SeedEnds == \A s \in Seeds : phase[s] = "fetch" ~> Ended(s)
=============================================================================
