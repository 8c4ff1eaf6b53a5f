----------------------------- MODULE SeedLedger -----------------------------
(***************************************************************************)
(* What `oracle seed` promises of the database, however many seeds run at  *)
(* once and whatever becomes of them: a seed's list of resources enters    *)
(* the table at one moment, whole, and once; and the snapshots it takes    *)
(* are those of a list that has entered the table, one for each of its     *)
(* services and all or none of them.  Nothing is promised about the order  *)
(* of the seeds, nor that a list which has entered is ever summed up.      *)
(***************************************************************************)
EXTENDS Naturals, Sequences

CONSTANTS
    Seeds,          \* the seeds
    Names,          \* ids of resources
    Absent,         \* no row
    CountOf(_, _),  \* how many resources of a service a list has
    CostOf(_, _)    \* what they cost

VARIABLES
    account,    \* the account each seed is about
    list,       \* the list of each seed
    stored,     \* seeds whose list is in the table and not summed up
    table,      \* the row of each id
    snapshots   \* the rows of all snapshots

vars == <<account, list, stored, table, snapshots>>

Init ==
    /\ list = [s \in Seeds |-> <<>>]
    /\ stored = {}
    /\ table = [n \in Names |-> Absent]
    /\ snapshots = {}

\* A seed has a list.
Prepare(s) ==
    /\ s \notin stored
    /\ list' = [list EXCEPT ![s] = list'[s]]
    /\ UNCHANGED <<account, stored, table, snapshots>>

\* What a list makes of the row of an id: its last resource of that id gives the
\* cost; a row that was there keeps its account and service, a new one has those
\* of the first.
Enters(s, n) ==
    LET l  == list[s]
        at == {k \in 1..Len(l) : l[k].id = n}
    IN  IF at = {} THEN table'[n] = table[n]
        ELSE \E i, j \in at :
                /\ \A k \in at : i <= k /\ k <= j
                /\ LET owner == IF table[n] = Absent THEN l[i] ELSE table[n]
                   IN  table'[n] = [account |-> owner.account, service |-> owner.service,
                                    cost |-> l[j].cost, by |-> s]

\* A seed gives up, or its process is gone.
Forget(s) ==
    /\ list' = [list EXCEPT ![s] = <<>>]
    /\ stored' = stored \ {s}

\* Its list enters the table; it may not live to know.
Store(s) ==
    /\ s \notin stored
    /\ \A n \in Names : Enters(s, n)
    /\ \/ stored' = stored \cup {s} /\ UNCHANGED list
       \/ Forget(s)
    /\ UNCHANGED <<account, snapshots>>

Entry(s, v, t) ==
    [taken |-> t, account |-> account[s], service |-> v,
     count |-> CountOf(list[s], v), cost |-> CostOf(list[s], v), by |-> s]

\* Its list is summed up, under one date.
Record(s) ==
    /\ s \in stored
    /\ \E t \in {r.taken : r \in snapshots'} :
          snapshots' = snapshots \cup {Entry(s, v, t) : v \in {list[s][k].service : k \in DOMAIN list[s]}}
    /\ Forget(s)
    /\ UNCHANGED <<account, table>>

Next == \E s \in Seeds :
    \/ Prepare(s) \/ Store(s) \/ Record(s)
    \/ Forget(s) /\ UNCHANGED <<account, table, snapshots>>

Spec == Init /\ [][Next]_vars
=============================================================================
