--------------------------- MODULE InventoryProofs ---------------------------
(***************************************************************************)
(* Proofs about Inventory, for any number of seeds, accounts, names and    *)
(* changes of the clouds: its types, that the tables are those of a ledger *)
(* (SeedLedger), which lists enter whole and once, that a listing has what *)
(* stayed in the cloud and nothing that was never there, and what the      *)
(* snapshots and the trends over them count and add up.                    *)
(***************************************************************************)
EXTENDS Inventory, NumberFacts, FiniteSetTheorems, TLAPS

USE InventoryAssumption DEF InventoryAssumption

\* The services of an account are among those of all of them.
LEMMA ServiceType == \A a \in Accounts, i \in Slots : Services(a)[i] \in AllServices
BY DEF AllServices

LEMMA ResourceType ==
    ASSUME NEW n \in Names, NEW a \in Accounts, NEW i \in Slots, NEW c \in Nat
    PROVE  Resource(n, a, i, c) \in Resources
BY ServiceType DEF Resource, Resources

LEMMA UpsertType ==
    ASSUME NEW old \in Rows \cup {NoRow}, NEW r \in Resources, NEW s \in Seeds
    PROVE  Upsert(old, r, s) \in Rows
BY DEF Upsert, Row, Rows, Resources

LEMMA UpToFinite == ASSUME NEW n \in Nat PROVE IsFiniteSet(1..n)
<1>1. 1 \in Int /\ n \in Int
  OBVIOUS
<1>. QED
  BY <1>1, FS_Interval

\* A set of names is finite, its greatest element one of its own.
LEMMA NamesFinite == ASSUME NEW S \in SUBSET Names PROVE IsFiniteSet(S) /\ Cardinality(S) \in Nat
<1>1. IsFiniteSet(Names)
  BY FS_Interval DEF Names
<1>. QED
  BY <1>1, FS_Subset, FS_CardinalityType

LEMMA MaxType == ASSUME NEW S \in SUBSET Names, S # {} PROVE Max(S) \in S
<1>1. S \in SUBSET Nat /\ \A x \in S : x <= MaxName
  BY DEF Names
<1>2. \E m \in S : \A y \in S : m >= y
  BY <1>1, GreatestOfBounded
<1>. QED
  BY <1>2 DEF Max

\* What the fetchers found makes a list of resources.
LEMMA ListedType ==
    ASSUME TypeOK, NEW s \in Seeds
    PROVE  Listed(s) \in Seq(Resources)
<1> DEFINE part(i) == [k \in DOMAIN found[s][i] |-> Resource(found[s][i][k], account[s], i, 0)]
<1>1. ASSUME NEW i \in Slots PROVE part(i) \in Seq(Resources)
  <2>1. found[s][i] \in Seq(Names) /\ account[s] \in Accounts
    BY DEF TypeOK
  <2>2. \A k \in 1..Len(found[s][i]) : found[s][i][k] \in Names
    BY <2>1
  <2>3. \A k \in 1..Len(found[s][i]) : part(i)[k] \in Resources
    BY <2>1, <2>2, ResourceType
  <2>4. Len(found[s][i]) \in Nat /\ DOMAIN found[s][i] = 1..Len(found[s][i])
    BY <2>1
  <2>5. part(i) \in [1..Len(found[s][i]) -> Resources]
    <3>. HIDE DEF Resources
    <3>. QED
      BY <2>3, <2>4
  <2>. QED
    BY <2>4, <2>5
<1>2. part(1) \in Seq(Resources) /\ part(2) \in Seq(Resources)
      /\ part(3) \in Seq(Resources) /\ part(4) \in Seq(Resources)
  BY <1>1 DEF Slots
<1>. HIDE DEF part
<1>3. part(1) \o part(2) \o part(3) \o part(4) \in Seq(Resources)
  BY <1>2
<1>. QED
  BY <1>3 DEF Listed, part

\* So does what the synthetic provider generates.
LEMMA GeneratedType ==
    ASSUME TypeOK, NEW s \in Seeds, NEW list \in Generated(s)
    PROVE  list \in Seq(Resources)
<1>1. account[s] \in Accounts
  BY DEF TypeOK
<1>2. \A n \in Names : 1 + (n % 4) \in Slots
  BY DEF Names, Slots
<1>3. \A n \in Names, c \in Costs : Resource(n, account[s], 1 + (n % 4), c) \in Resources
  BY <1>1, <1>2, ResourceType
<1>4. list \in [1..Count -> Resources]
  BY <1>3 DEF Generated
<1>. QED
  BY <1>4

LEMMA ExitsType ==
    ASSUME TypeOK, NEW s \in Seeds, Exits(s),
           UNCHANGED <<cloud, changes, clock, account, stamp, snapshots>>,
           table' \in [Names -> Rows \cup {NoRow}]
    PROVE  TypeOK'
<1>1. AtStart \in [Slots -> 0..MaxName] /\ NothingFound \in [Slots -> Seq(Names)]
      /\ NoneThere \in [Slots -> SUBSET Names] /\ Untouched \in [Names -> Rows \cup {NoRow}]
      /\ <<>> \in Seq(Resources)
  BY DEF AtStart, NothingFound, NoneThere, Untouched
<1>. QED
  BY <1>1 DEF TypeOK, Exits, Release, Phases

\* One seed's row is of its type.
LEMMA PendingType ==
    ASSUME TypeOK, NEW s \in Seeds, NEW n \in Names
    PROVE  /\ pending[s][n] \in Rows \cup {NoRow}
           /\ Holds(s, n) => pending[s][n] \in Rows
           /\ table[n] \in Rows \cup {NoRow}
BY DEF TypeOK, Holds

LEMMA InitType == Init => TypeOK
<1> SUFFICES ASSUME Init PROVE TypeOK
  OBVIOUS
<1>1. AtStart \in [Slots -> 0..MaxName] /\ NothingFound \in [Slots -> Seq(Names)]
      /\ NoneThere \in [Slots -> SUBSET Names] /\ Untouched \in [Names -> Rows \cup {NoRow}]
      /\ <<>> \in Seq(Resources)
  BY DEF AtStart, NothingFound, NoneThere, Untouched
<1>. QED
  BY <1>1 DEF TypeOK, Init, Phases

LEMMA ReadPageType ==
    ASSUME TypeOK, NEW s \in Seeds, NEW i \in Slots, ReadPage(s, i)
    PROVE  TypeOK'
<1> DEFINE page == PageOf(Pageable(s, i))
<1>1. page \in SUBSET Names
  BY DEF TypeOK, PageOf, Pageable, Unread
<1>2. PICK answer \in [1..Cardinality(page) -> page] :
        found' = [found EXCEPT ![s][i] = @ \o answer]
  BY DEF ReadPage
<1>3. answer \in Seq(Names)
  BY <1>1, NamesFinite
<1>4. found[s][i] \o answer \in Seq(Names)
  BY <1>3 DEF TypeOK
<1>5. found' \in [Seeds -> [Slots -> Seq(Names)]]
  BY <1>2, <1>4 DEF TypeOK
<1>6. cursor' \in [Seeds -> [Slots -> 0..MaxName]]
  <2>1. page # {} => Max(page) \in 0..MaxName
    BY <1>1, MaxType DEF Names
  <2>2. cursor' = [cursor EXCEPT ![s][i] = IF page = {} THEN @ ELSE Max(page)]
    BY DEF ReadPage
  <2>. HIDE DEF page
  <2>. QED
    BY <2>1, <2>2 DEF TypeOK
<1>7. busy' \in [Seeds -> SUBSET Slots]
  BY DEF TypeOK, ReadPage
<1>. QED
  BY <1>5, <1>6, <1>7 DEF TypeOK, ReadPage, database, history

LEMMA FetcherEndsType ==
    ASSUME TypeOK, NEW s \in Seeds, NEW i \in Slots, RequestFails(s, i) \/ Expire(s, i)
    PROVE  TypeOK'
<1>1. busy' \in [Seeds -> SUBSET Slots] /\ found' \in [Seeds -> [Slots -> Seq(Names)]]
      /\ cursor' \in [Seeds -> [Slots -> 0..MaxName]]
  <2>1. CASE Discard(s, i)
    BY <2>1 DEF TypeOK, Discard
  <2>2. CASE SkipServers(s, i)
    BY <2>2 DEF TypeOK, SkipServers
  <2>3. CASE SkipServer(s, i)
    <3> DEFINE next == Min(Unread(s, i))
               rest == {n \in Names : ServerOf[n] <= ServerOf[next]}
    <3>1. Unread(s, i) \in SUBSET Names /\ Unread(s, i) # {}
      BY <2>3 DEF TypeOK, Unread, SkipServer
    <3>2. next \in Names
      <4>1. \E x \in Unread(s, i) : \A y \in Unread(s, i) : x <= y
        BY <3>1, LeastOfNaturals DEF Names
      <4>. QED
        BY <3>1, <4>1 DEF Min
    <3>3. Max(rest) \in 0..MaxName
      <4>1. rest \in SUBSET Names /\ next \in rest
        BY <3>2
      <4>2. Max(rest) \in Names
        BY <4>1, MaxType
      <4>. QED
        BY <4>2 DEF Names
    <3>4. cursor' = [cursor EXCEPT ![s][i] = Max(rest)] /\ UNCHANGED found
      BY <2>3 DEF SkipServer
    <3>. QED
      <4>. HIDE DEF rest
      <4>1. cursor' \in [Seeds -> [Slots -> 0..MaxName]]
        BY <3>3, <3>4 DEF TypeOK
      <4>2. busy' \in [Seeds -> SUBSET Slots]
        BY <2>3 DEF TypeOK, SkipServer
      <4>. QED
        BY <3>4, <4>1, <4>2 DEF TypeOK
  <2>. QED
    BY <2>1, <2>2, <2>3 DEF RequestFails, Expire
<1>2. UNCHANGED <<cloud, changes, clock, phase, account, all, database, stamp, snapshots, history>>
  BY DEF RequestFails, Expire
<1>. QED
  BY <1>1, <1>2 DEF TypeOK, database, history

\* Types are kept by every step.
LEMMA NextType == TypeOK /\ [Next]_vars => TypeOK'
<1> SUFFICES ASSUME TypeOK, [Next]_vars PROVE TypeOK'
  OBVIOUS
<1>1. ASSUME NEW s \in Seeds, Start(s) PROVE TypeOK'
  <2>1. cloud[account[s]] \in [Slots -> SUBSET Names]
    BY DEF TypeOK
  <2>2. phase' \in [Seeds -> Phases] /\ busy' \in [Seeds -> SUBSET Slots]
    <3>1. CASE phase' = [phase EXCEPT ![s] = "failed"] /\ UNCHANGED busy
      BY <3>1 DEF TypeOK, Phases
    <3>2. CASE phase' = [phase EXCEPT ![s] = "fetch"]
               /\ busy' = [busy EXCEPT ![s] = IF Real(s) THEN Slots ELSE {}]
      BY <3>2 DEF TypeOK, Phases
    <3>. QED
      BY <1>1, <3>1, <3>2 DEF Start
  <2>3. kept' \in [Seeds -> [Slots -> SUBSET Names]] /\ seen' \in [Seeds -> [Slots -> SUBSET Names]]
    BY <1>1, <2>1 DEF TypeOK, Start
  <2>. QED
    BY <1>1, <2>2, <2>3 DEF TypeOK, Start, database
<1>2. ASSUME NEW s \in Seeds, Gather(s) PROVE TypeOK'
  <2>1. AtStart \in [Slots -> 0..MaxName] /\ NothingFound \in [Slots -> Seq(Names)]
    BY DEF AtStart, NothingFound
  <2>2. all' \in [Seeds -> Seq(Resources)]
    <3>1. \E list \in Seq(Resources) : all' = [all EXCEPT ![s] = list]
      BY <1>2, ListedType, GeneratedType DEF Gather
    <3>. QED
      BY <3>1 DEF TypeOK
  <2>. QED
    BY <1>2, <2>1, <2>2 DEF TypeOK, Gather, Phases, database, history
<1>3. ASSUME NEW s \in Seeds, ExecRow(s) PROVE TypeOK'
  <2> DEFINE r == all[s][row[s] + 1]
             old == IF Holds(s, r.id) THEN pending[s][r.id] ELSE table[r.id]
  <2>1. r \in Resources /\ r.id \in Names
    <3>1. row[s] \in Nat /\ row[s] < Len(all[s]) /\ all[s] \in Seq(Resources)
      BY <1>3 DEF TypeOK, ExecRow
    <3>2. r \in Resources
      <4>. HIDE DEF Resources
      <4>. QED
        BY <3>1
    <3>. QED
      BY <3>2 DEF Resources
  <2>2. Upsert(old, r, s) \in Rows
    BY <2>1, PendingType, UpsertType
  <2>3. pending' = [pending EXCEPT ![s][r.id] = Upsert(old, r, s)]
    BY <1>3 DEF ExecRow
  <2>4. pending' \in [Seeds -> [Names -> Rows \cup {NoRow}]]
    <3>. HIDE DEF r, old
    <3>. QED
      BY <2>1, <2>2, <2>3 DEF TypeOK
  <2>5. row' \in [Seeds -> Nat]
    BY <1>3 DEF TypeOK, ExecRow
  <2>. QED
    BY <1>3, <2>4, <2>5 DEF TypeOK, ExecRow, fetching, history
<1>4. ASSUME NEW s \in Seeds, InsertFails(s) PROVE TypeOK'
  BY <1>4, ExitsType DEF InsertFails, TypeOK
<1>5. ASSUME NEW s \in Seeds, Commit(s) PROVE TypeOK'
  <2>1. table' \in [Names -> Rows \cup {NoRow}]
    BY <1>5, PendingType DEF Commit, Merged
  <2>2. CASE Exits(s)
    BY <1>5, <2>1, <2>2, ExitsType DEF Commit
  <2>3. CASE phase' = [phase EXCEPT ![s] = "snapshot"] /\ row' = [row EXCEPT ![s] = 0]
             /\ Release(s) /\ UNCHANGED <<fetching, all, history>>
    <3>1. Untouched \in [Names -> Rows \cup {NoRow}]
      BY DEF Untouched
    <3>. QED
      BY <1>5, <2>1, <2>3, <3>1 DEF TypeOK, Commit, Release, Phases, fetching, history
  <2>. QED
    BY <1>5, <2>2, <2>3 DEF Commit
<1>6. ASSUME NEW s \in Seeds, Stamp(s) PROVE TypeOK'
  <2>1. phase' \in [Seeds -> Phases]
    <3>1. PICK p \in {"done", "stamped"} : phase' = [phase EXCEPT ![s] = p]
      BY <1>6 DEF Stamp
    <3>. QED
      BY <3>1 DEF TypeOK, Phases
  <2>2. clock' \in Nat /\ stamp' \in [Seeds -> Nat]
    <3>1. CASE all[s] = <<>>
      BY <1>6, <3>1 DEF TypeOK, Stamp
    <3>2. CASE clock' = clock + 1 /\ stamp' = [stamp EXCEPT ![s] = clock + 1]
      BY <3>2 DEF TypeOK
    <3>. QED
      BY <1>6, <3>1, <3>2 DEF Stamp
  <2>. QED
    BY <1>6, <2>1, <2>2 DEF TypeOK, Stamp, fetching, database, history
<1>7. ASSUME NEW s \in Seeds, Record(s) PROVE TypeOK'
  <2>1. \A r \in snapshots' : r.account \in Accounts /\ r.service \in AllServices /\ r.by \in Seeds
    <3>1. \A k \in DOMAIN all[s] : all[s][k].service \in AllServices
      <4>1. all[s] \in Seq(Resources)
        BY DEF TypeOK
      <4>2. \A k \in DOMAIN all[s] : all[s][k] \in Resources
        <5>. HIDE DEF Resources
        <5>. QED
          BY <4>1
      <4>. QED
        BY <4>2 DEF Resources
    <3>2. \A v \in AllServices : Snapshot(s, v).account \in Accounts
             /\ Snapshot(s, v).service \in AllServices /\ Snapshot(s, v).by \in Seeds
      BY DEF Snapshot, TypeOK
    <3>. QED
      <4>1. \A r \in {Snapshot(s, v) : v \in {all[s][k].service : k \in DOMAIN all[s]}} :
              r.account \in Accounts /\ r.service \in AllServices /\ r.by \in Seeds
        BY <3>1, <3>2
      <4>. QED
        BY <1>7, <4>1 DEF Record, TypeOK
  <2>. QED
    BY <1>7, <2>1 DEF TypeOK, Record, Phases, fetching, database, history
<1>8. ASSUME NEW s \in Seeds, Dies(s) PROVE TypeOK'
  BY <1>8, ExitsType DEF Dies, TypeOK
<1>9. ASSUME NEW c \in Churn, Change(c[1], c[2], c[3]) PROVE TypeOK'
  <2>1. c[1] \in Accounts /\ c[2] \in Slots /\ c[3] \in Names
    OBVIOUS
  <2>2. cloud' \in [Accounts -> [Slots -> SUBSET Names]]
    BY <1>9, <2>1 DEF TypeOK, Change
  <2>3. kept' \in [Seeds -> [Slots -> SUBSET Names]] /\ seen' \in [Seeds -> [Slots -> SUBSET Names]]
    BY <1>9, <2>1 DEF TypeOK, Change
  <2>4. changes' \in 0..MaxChanges
    BY <1>9 DEF TypeOK, Change
  <2>. QED
    BY <1>9, <2>2, <2>3, <2>4 DEF TypeOK, Change, fetching, database
<1>10. CASE UNCHANGED vars
  BY <1>10 DEF TypeOK, vars, fetching, database, history
<1>. QED
  BY <1>1, <1>2, <1>3, <1>4, <1>5, <1>6, <1>7, <1>8, <1>9, <1>10,
     ReadPageType, FetcherEndsType DEF Next, Deadlock, AllEnded

\* Every reachable state has its type, whatever the clouds hold.
THEOREM TypeCorrect == Spec => []TypeOK
BY InitType, NextType, PTL DEF Spec

----------------------------------------------------------------------------
(* The invariant behind KeepsLedger: a seed that inserts has written what  *)
(* the resources upserted so far make of the table, it alone holds the     *)
(* rows it wrote, and outside its transaction it holds none.               *)

\* What the first m resources of a seed make of the row of id n: the last one
\* of that id gives the cost, and a new row takes the account and service of
\* the first one.
Applied(s, m, n, old, new) ==
    LET at == {k \in 1..m : all[s][k].id = n}
    IN  IF at = {} THEN new = old
        ELSE \E i, j \in at :
                /\ \A k \in at : i <= k /\ k <= j
                /\ LET owner == IF old = NoRow THEN all[s][i] ELSE old
                   IN  new = Row(owner.account, owner.service, all[s][j].cost, s)

Exclusive == \A s, t \in Seeds, n \in Names : Holds(s, n) /\ Holds(t, n) => s = t
Outside   == \A s \in Seeds : phase[s] # "insert" => row[s] = 0 /\ \A n \in Names : ~Holds(s, n)
InList    == \A s \in Seeds : row[s] <= Len(all[s])
Written(s, n) ==
    /\ Holds(s, n) <=> \E k \in 1..row[s] : all[s][k].id = n
    /\ Holds(s, n) => Applied(s, row[s], n, table[n], pending[s][n])
Partial == \A s \in Seeds : phase[s] = "insert" => \A n \in Names : Written(s, n)
Locks   == Exclusive /\ Outside /\ InList /\ Partial

LEMMA InitLocks == Init => Locks
BY DEF Init, Locks, Exclusive, Outside, InList, Partial, Holds, Untouched

\* A step that leaves the lists, the rows and the table alone.
LEMMA FrameLocks ==
    ASSUME Locks, UNCHANGED <<all, row, pending, table>>,
           \A s \in Seeds : phase'[s] = "insert" <=> phase[s] = "insert"
    PROVE  Locks'
<1>1. \A s \in Seeds, n \in Names : Holds(s, n)' <=> Holds(s, n)
  BY DEF Holds
<1>2. \A s \in Seeds, n \in Names : Written(s, n)' <=> Written(s, n)
  BY <1>1 DEF Written, Applied
<1>3. Exclusive'
  BY <1>1 DEF Locks, Exclusive
<1>4. Outside'
  BY <1>1 DEF Locks, Outside
<1>5. InList'
  BY DEF Locks, InList
<1>6. Partial'
  BY <1>2 DEF Locks, Partial
<1>. QED
  BY <1>3, <1>4, <1>5, <1>6 DEF Locks

\* The end of a transaction: no row that another seed holds has changed.
LEMMA EndLocks ==
    ASSUME TypeOK, Locks, NEW s \in Seeds, NEW p \in Phases, p # "insert",
           phase' = [phase EXCEPT ![s] = p], row' = [row EXCEPT ![s] = 0],
           all' = all \/ all' = [all EXCEPT ![s] = <<>>],
           Release(s),
           \A t \in Seeds \ {s}, n \in Names : Holds(t, n) => table'[n] = table[n]
    PROVE  Locks'
<1>1. /\ \A n \in Names : ~Holds(s, n)'
      /\ \A t \in Seeds \ {s} : /\ pending'[t] = pending[t] /\ row'[t] = row[t]
                                /\ all'[t] = all[t] /\ phase'[t] = phase[t]
      /\ phase'[s] = p /\ row'[s] = 0
  BY DEF TypeOK, Release, Untouched, Holds
<1>2. \A t \in Seeds \ {s}, n \in Names : Holds(t, n)' <=> Holds(t, n)
  BY <1>1 DEF Holds
<1>3. Exclusive'
  BY <1>1, <1>2 DEF Locks, Exclusive
<1>4. Outside'
  BY <1>1, <1>2 DEF Locks, Outside
<1>5. InList'
  <2>1. Len(all'[s]) >= 0
    BY DEF TypeOK
  <2>. QED
    BY <1>1, <2>1 DEF Locks, InList
<1>6. Partial'
  <2> SUFFICES ASSUME NEW t \in Seeds \ {s}, NEW n \in Names, phase[t] = "insert"
               PROVE  Written(t, n)'
    BY <1>1 DEF Partial
  <2>1. Written(t, n)
    BY DEF Locks, Partial
  <2>2. Holds(t, n) => table'[n] = table[n]
    OBVIOUS
  <2>3. pending'[t][n] = pending[t][n] /\ row'[t] = row[t] /\ all'[t] = all[t]
    BY <1>1
  <2>4. Holds(t, n)' <=> \E k \in 1..row'[t] : all'[t][k].id = n
    BY <1>2, <2>1, <2>3 DEF Written
  <2>5. ASSUME Holds(t, n) PROVE Applied(t, row[t], n, table[n], pending[t][n])'
    BY <2>1, <2>2, <2>3, <2>5 DEF Written, Applied
  <2>. QED
    BY <1>2, <2>4, <2>5 DEF Written
<1>. QED
  BY <1>3, <1>4, <1>5, <1>6 DEF Locks

\* One more resource upserted.
LEMMA ExecLocks ==
    ASSUME TypeOK, Locks, NEW s \in Seeds, ExecRow(s)
    PROVE  Locks'
<1> DEFINE m   == row[s] + 1
           r   == all[s][m]
           old == IF Holds(s, r.id) THEN pending[s][r.id] ELSE table[r.id]
<1>1. /\ row[s] \in Nat /\ m \in 1..Len(all[s]) /\ Len(all[s]) \in Nat
      /\ r \in Resources /\ r.id \in Names
  <2>1. row[s] \in Nat /\ all[s] \in Seq(Resources)
    BY DEF TypeOK
  <2>2. row[s] < Len(all[s])
    BY DEF ExecRow
  <2>3. r \in Resources
    <3>. HIDE DEF Resources
    <3>. QED
      BY <2>1, <2>2
  <2>4. Len(all[s]) \in Nat /\ m \in 1..Len(all[s])
    <3>. HIDE DEF Resources
    <3>. QED
      BY <2>1, <2>2
  <2>5. r.id \in Names
    <3>. HIDE DEF r
    <3>. QED
      BY <2>3 DEF Resources
  <2>. QED
    BY <2>1, <2>3, <2>4, <2>5
<1>0. PICK id \in Names : id = r.id
  BY <1>1
<1>2. Upsert(old, r, s) \in Rows
  BY <1>1, PendingType, UpsertType
<1>3. /\ pending' = [pending EXCEPT ![s][r.id] = Upsert(old, r, s)]
      /\ row' = [row EXCEPT ![s] = m]
      /\ UNCHANGED <<phase, all, table>>
      /\ phase[s] = "insert"
      /\ \A t \in Seeds \ {s} : ~Holds(t, r.id)
  BY DEF ExecRow, WaitsFor, NextId
<1>. HIDE DEF m, r, old
<1>4. /\ pending'[s][r.id] = Upsert(old, r, s) /\ row'[s] = m
      /\ \A n \in Names \ {r.id} : pending'[s][n] = pending[s][n]
      /\ \A t \in Seeds \ {s} : pending'[t] = pending[t] /\ row'[t] = row[t]
  BY <1>1, <1>3 DEF TypeOK
<1>5. /\ Holds(s, id)'
      /\ \A n \in Names \ {r.id} : Holds(s, n)' <=> Holds(s, n)
      /\ \A t \in Seeds \ {s}, n \in Names : Holds(t, n)' <=> Holds(t, n)
  <2>1. Upsert(old, r, s) # NoRow
    BY <1>2, NoRowAssumption DEF NoRowAssumption
  <2>2. Holds(s, id)'
    BY <1>0, <1>4, <2>1 DEF Holds
  <2>3. \A n \in Names \ {r.id} : Holds(s, n)' <=> Holds(s, n)
    BY <1>4 DEF Holds
  <2>4. \A t \in Seeds \ {s}, n \in Names : Holds(t, n)' <=> Holds(t, n)
    BY <1>4 DEF Holds
  <2>. QED
    BY <2>2, <2>3, <2>4
<1>6. Exclusive'
  BY <1>3, <1>5 DEF Locks, Exclusive
<1>7. Outside'
  BY <1>3, <1>4, <1>5 DEF Locks, Outside
<1>8. InList'
  BY <1>1, <1>3, <1>4 DEF Locks, InList
<1>9. ASSUME NEW t \in Seeds \ {s}, NEW n \in Names, phase[t] = "insert" PROVE Written(t, n)'
  <2>1. Written(t, n)
    BY <1>9 DEF Locks, Partial
  <2>. QED
    BY <1>3, <1>4, <1>5, <2>1 DEF Written, Applied
<1>10. 1..m = (1..row[s]) \cup {m} /\ m \notin 1..row[s] /\ \A k \in 1..row[s] : k <= m
  <2>1. row[s] \in Nat /\ m = row[s] + 1
    BY <1>1 DEF m
  <2>2. 1..m = (1..row[s]) \cup {m}
    BY <2>1, OneMore
  <2>3. m \notin 1..row[s] /\ \A k \in 1..row[s] : k <= m
    BY <2>1
  <2>. QED
    BY <2>2, <2>3
<1>11. ASSUME NEW n \in Names \ {r.id} PROVE Written(s, n)'
  <2>1. Written(s, n)
    BY <1>3 DEF Locks, Partial
  <2>2. {k \in 1..m : all[s][k].id = n} = {k \in 1..row[s] : all[s][k].id = n}
    BY <1>10 DEF r
  <2>3. (\E k \in 1..m : all[s][k].id = n) <=> \E k \in 1..row[s] : all[s][k].id = n
    BY <2>2
  <2>. QED
    BY <1>3, <1>4, <1>5, <2>1, <2>2, <2>3 DEF Written, Applied
<1>12. Written(s, id)'
  <2> DEFINE at == {k \in 1..row[s] : all[s][k].id = r.id}
  <2>1. Written(s, r.id)
    BY <1>1, <1>3 DEF Locks, Partial
  <2>2. {k \in 1..m : all[s][k].id = r.id} = at \cup {m}
    BY <1>10 DEF r
  <2>3. Applied(s, m, r.id, table[r.id], Upsert(old, r, s))
    <3>1. CASE at = {}
      <4>1. ~Holds(s, r.id)
        BY <2>1, <3>1 DEF Written
      <4>2. old = table[r.id]
        BY <4>1 DEF old
      <4>3. \A k \in at \cup {m} : m <= k /\ k <= m
        BY <1>1, <3>1
      <4>. QED
        BY <2>2, <4>2, <4>3 DEF Applied, Upsert, Row, r
    <3>2. CASE at # {}
      <4>1. Holds(s, r.id) /\ Applied(s, row[s], r.id, table[r.id], pending[s][r.id])
        BY <2>1, <3>2 DEF Written
      <4>2. PICK i \in at, j \in at :
              /\ \A k \in at : i <= k /\ k <= j
              /\ LET owner == IF table[r.id] = NoRow THEN all[s][i] ELSE table[r.id]
                 IN  pending[s][r.id] = Row(owner.account, owner.service, all[s][j].cost, s)
        BY <3>2, <4>1 DEF Applied
      <4>3. \A k \in at \cup {m} : i <= k /\ k <= m
        BY <1>1, <1>10, <4>2
      <4>4. old = pending[s][r.id] /\ old # NoRow
        BY <4>1 DEF old, Holds
      <4>5. LET owner == IF table[r.id] = NoRow THEN all[s][i] ELSE table[r.id]
            IN  Upsert(old, r, s) = Row(owner.account, owner.service, all[s][m].cost, s)
        BY <4>2, <4>4 DEF Upsert, Row, r
      <4>. QED
        BY <2>2, <4>3, <4>5 DEF Applied
    <3>. QED
      BY <3>1, <3>2
  <2>4. \E k \in 1..m : all[s][k].id = r.id
    BY <2>2
  <2>5. Applied(s, row[s], id, table[id], pending[s][id])'
    <3>1. Applied(s, m, id, table[id], Upsert(old, r, s))
      BY <1>0, <2>3
    <3>2. row'[s] = m /\ pending'[s][id] = Upsert(old, r, s)
      BY <1>0, <1>4
    <3>. QED
      BY <1>3, <3>1, <3>2 DEF Applied
  <2>6. \E k \in 1..row'[s] : all'[s][k].id = id
    BY <1>0, <1>3, <1>4, <2>4
  <2>7. Holds(s, id)' <=> \E k \in 1..row'[s] : all'[s][k].id = id
    BY <1>5, <2>6
  <2>. QED
    BY <2>5, <2>7 DEF Written
<1>13. Partial'
  <2> SUFFICES ASSUME NEW t \in Seeds, NEW n \in Names, phase'[t] = "insert" PROVE Written(t, n)'
    BY DEF Partial
  <2>1. CASE t # s
    BY <1>3, <1>9, <2>1
  <2>2. CASE t = s /\ n # r.id
    BY <1>11, <2>2
  <2>3. CASE t = s /\ n = r.id
    BY <1>0, <1>12, <2>3
  <2>. QED
    BY <2>1, <2>2, <2>3
<1>. QED
  BY <1>6, <1>7, <1>8, <1>13 DEF Locks

\* The rows of the table a commit changes are those its seed holds.
LEMMA MergedRows ==
    ASSUME TypeOK, NEW s \in Seeds, NEW n \in Names
    PROVE  /\ Holds(s, n) => Merged(s)[n] = pending[s][n]
           /\ ~Holds(s, n) => Merged(s)[n] = table[n]
BY DEF Merged

LEMMA NextLocks == TypeOK /\ Locks /\ [Next]_vars => Locks'
<1> SUFFICES ASSUME TypeOK, Locks, [Next]_vars PROVE Locks'
  OBVIOUS
<1>1. ASSUME NEW s \in Seeds, Start(s) PROVE Locks'
  <2>1. \A t \in Seeds : phase'[t] = "insert" <=> phase[t] = "insert"
    BY <1>1 DEF Start, TypeOK
  <2>. QED
    BY <1>1, <2>1, FrameLocks DEF Start, database
<1>2. ASSUME NEW s \in Seeds, Gather(s) PROVE Locks'
  <2>1. PICK list \in Seq(Resources) : all' = [all EXCEPT ![s] = list]
    BY <1>2, ListedType, GeneratedType DEF Gather
  <2>2. /\ \A t \in Seeds : row'[t] = row[t] /\ \A n \in Names : Holds(t, n)' <=> Holds(t, n)
        /\ \A t \in Seeds \ {s} : all'[t] = all[t] /\ (phase'[t] = "insert" <=> phase[t] = "insert")
        /\ all'[s] = list /\ phase'[s] = "insert" /\ phase[s] # "insert"
    BY <1>2, <2>1 DEF Gather, database, Holds, TypeOK
  <2>3. row[s] = 0 /\ \A n \in Names : ~Holds(s, n)
    BY <2>2 DEF Locks, Outside
  <2>4. Exclusive'
    BY <2>2 DEF Locks, Exclusive
  <2>5. Outside'
    BY <2>2 DEF Locks, Outside
  <2>6. InList'
    <3>1. Len(list) \in Nat
      BY <2>1
    <3>. QED
      <4>1. row'[s] <= Len(all'[s])
        BY <2>2, <2>3, <3>1
      <4>2. \A t \in Seeds \ {s} : row'[t] <= Len(all'[t])
        BY <2>2 DEF Locks, InList
      <4>. QED
        BY <4>1, <4>2 DEF InList
  <2>7. ASSUME NEW t \in Seeds \ {s}, NEW n \in Names, phase[t] = "insert" PROVE Written(t, n)'
    <3>1. Written(t, n)
      BY <2>7 DEF Locks, Partial
    <3>2. UNCHANGED <<table, pending>>
      BY <1>2 DEF Gather, database
    <3>3. row'[t] = row[t] /\ all'[t] = all[t] /\ (Holds(t, n)' <=> Holds(t, n))
      BY <2>2
    <3>. QED
      BY <3>1, <3>2, <3>3 DEF Written, Applied
  <2>8. ASSUME NEW n \in Names PROVE Written(s, n)'
    BY <2>2, <2>3 DEF Written
  <2>9. Partial'
    <3> SUFFICES ASSUME NEW t \in Seeds, NEW n \in Names, phase'[t] = "insert" PROVE Written(t, n)'
      BY DEF Partial
    <3>1. CASE t # s
      BY <2>2, <2>7, <3>1
    <3>2. CASE t = s
      BY <2>8, <3>2
    <3>. QED
      BY <3>1, <3>2
  <2>. QED
    BY <2>4, <2>5, <2>6, <2>9 DEF Locks
<1>3. ASSUME NEW s \in Seeds, InsertFails(s) \/ Dies(s) PROVE Locks'
  <2>1. \A t \in Seeds \ {s}, n \in Names : Holds(t, n) => table'[n] = table[n]
    BY <1>3 DEF InsertFails, Dies
  <2>2. Exits(s)
    BY <1>3 DEF InsertFails, Dies
  <2>. QED
    BY <2>1, <2>2, EndLocks DEF Exits, Phases
<1>4. ASSUME NEW s \in Seeds, Commit(s) PROVE Locks'
  <2>1. \A t \in Seeds \ {s}, n \in Names : Holds(t, n) => table'[n] = table[n]
    <3> SUFFICES ASSUME NEW t \in Seeds \ {s}, NEW n \in Names, Holds(t, n)
                 PROVE  table'[n] = table[n]
      OBVIOUS
    <3>1. ~Holds(s, n)
      BY DEF Locks, Exclusive
    <3>2. table' = Merged(s)
      BY <1>4 DEF Commit
    <3>. QED
      BY <3>1, <3>2, MergedRows
  <2>2. Release(s) /\ row' = [row EXCEPT ![s] = 0]
    BY <1>4 DEF Commit, Exits
  <2>3. CASE Exits(s)
    BY <2>1, <2>2, <2>3, EndLocks DEF Exits, Phases
  <2>4. CASE phase' = [phase EXCEPT ![s] = "snapshot"] /\ UNCHANGED all
    BY <2>1, <2>2, <2>4, EndLocks DEF Phases
  <2>. QED
    BY <1>4, <2>3, <2>4 DEF Commit
<1>5. ASSUME NEW s \in Seeds, Stamp(s) \/ Record(s) PROVE Locks'
  <2>1. PICK p \in Phases \ {"insert"} : phase' = [phase EXCEPT ![s] = p]
    BY <1>5 DEF Stamp, Record, Phases
  <2>2. phase[s] # "insert" /\ UNCHANGED <<all, row, pending, table>>
    BY <1>5 DEF Stamp, Record, database
  <2>3. \A t \in Seeds : phase'[t] = "insert" <=> phase[t] = "insert"
    BY <2>1, <2>2 DEF TypeOK
  <2>. QED
    BY <2>2, <2>3, FrameLocks
<1>6. ASSUME NEW s \in Seeds, NEW i \in Slots,
             ReadPage(s, i) \/ RequestFails(s, i) \/ Expire(s, i)
      PROVE  Locks'
  BY <1>6, FrameLocks DEF ReadPage, RequestFails, Expire, database
<1>7. ASSUME NEW c \in Churn, Change(c[1], c[2], c[3]) PROVE Locks'
  BY <1>7, FrameLocks DEF Change, database
<1>8. CASE UNCHANGED vars
  BY <1>8, FrameLocks DEF vars, database
<1>. QED
  BY <1>1, <1>2, <1>3, <1>4, <1>5, <1>6, <1>7, <1>8, ExecLocks DEF Next, Deadlock, AllEnded

----------------------------------------------------------------------------
(* The ledger: a commit stores a list, a recording sums it up.             *)

\* What a step of one seed does to its entry in the ledger.
LEMMA LedgerOf ==
    ASSUME TypeOK, NEW s \in Seeds, NEW p \in Phases,
           phase' = [phase EXCEPT ![s] = p], \A t \in Seeds \ {s} : all'[t] = all[t]
    PROVE  /\ UnderWay' = [UnderWay EXCEPT ![s] = UnderWay'[s]]
           /\ p \in {"insert", "snapshot", "stamped"} => UnderWay'[s] = all'[s]
           /\ p \notin {"insert", "snapshot", "stamped"} => UnderWay'[s] = <<>>
           /\ p \in {"snapshot", "stamped"} => Stored' = Stored \cup {s}
           /\ p \notin {"snapshot", "stamped"} => Stored' = Stored \ {s}
<1>1. phase'[s] = p /\ \A t \in Seeds \ {s} : phase'[t] = phase[t]
  BY DEF TypeOK
<1>2. \A t \in Seeds \ {s} : UnderWay'[t] = UnderWay[t]
  BY <1>1 DEF UnderWay
<1>3. /\ p \in {"insert", "snapshot", "stamped"} => UnderWay'[s] = all'[s]
      /\ p \notin {"insert", "snapshot", "stamped"} => UnderWay'[s] = <<>>
  BY <1>1 DEF UnderWay
<1>4. UnderWay' = [UnderWay EXCEPT ![s] = UnderWay'[s]]
  BY <1>2 DEF UnderWay
<1>5. /\ p \in {"snapshot", "stamped"} => Stored' = Stored \cup {s}
      /\ p \notin {"snapshot", "stamped"} => Stored' = Stored \ {s}
  BY <1>1 DEF Stored
<1>. QED
  BY <1>3, <1>4, <1>5

\* A step that leaves the phases, the lists and the tables alone.
LEMMA LedgerFrame ==
    ASSUME UNCHANGED <<account, phase, all, table, snapshots>>
    PROVE  UNCHANGED Ledger!vars
BY DEF UnderWay, Stored, Ledger!vars

\* A seed that ends without having changed the tables.
LEMMA LedgerForgets ==
    ASSUME TypeOK, NEW s \in Seeds, NEW p \in {"done", "failed"},
           phase' = [phase EXCEPT ![s] = p], \A t \in Seeds \ {s} : all'[t] = all[t],
           UNCHANGED <<account, table, snapshots>>
    PROVE  Ledger!Next
<1>1. p \in Phases /\ p \notin {"insert", "snapshot", "stamped"}
  BY DEF Phases
<1>2. UnderWay' = [UnderWay EXCEPT ![s] = <<>>] /\ Stored' = Stored \ {s}
  BY <1>1, LedgerOf
<1>. QED
  BY <1>2 DEF Ledger!Next, Ledger!Forget

\* Only a commit changes the table, and it applies the whole list.
LEMMA CommitEnters ==
    ASSUME TypeOK, Locks, NEW s \in Seeds, Commit(s), NEW n \in Names
    PROVE  Ledger!Enters(s, n)
<1>1. phase[s] = "insert" /\ row[s] = Len(all[s]) /\ table' = Merged(s)
  BY DEF Commit
<1>2. Written(s, n)
  BY <1>1 DEF Locks, Partial
<1>3. Applied(s, Len(all[s]), n, table[n], table'[n])
  <2>1. CASE Holds(s, n)
    BY <1>1, <1>2, <2>1, MergedRows DEF Written
  <2>2. CASE ~Holds(s, n)
    <3>1. {k \in 1..Len(all[s]) : all[s][k].id = n} = {}
      BY <1>1, <1>2, <2>2 DEF Written
    <3>2. table'[n] = table[n]
      BY <1>1, <2>2, MergedRows
    <3>. QED
      BY <3>1, <3>2 DEF Applied
  <2>. QED
    BY <2>1, <2>2
<1>4. UnderWay[s] = all[s]
  BY <1>1 DEF UnderWay
<1>. QED
  BY <1>3, <1>4 DEF Applied, Row, Ledger!Enters

LEMMA CommitStores ==
    ASSUME TypeOK, Locks, NEW s \in Seeds, Commit(s)
    PROVE  Ledger!Store(s)
<1>1. s \notin Stored
  BY DEF Commit, Stored
<1>2. \A n \in Names : Ledger!Enters(s, n)
  BY CommitEnters
<1>3. UNCHANGED <<account, snapshots>>
  BY DEF Commit
<1>4. CASE phase' = [phase EXCEPT ![s] = "snapshot"] /\ UNCHANGED all
  <2>1. UnderWay' = [UnderWay EXCEPT ![s] = all[s]] /\ Stored' = Stored \cup {s}
    BY <1>4, LedgerOf DEF Phases
  <2>2. UnderWay[s] = all[s]
    BY DEF Commit, UnderWay
  <2>3. UnderWay' = UnderWay
    BY <2>1, <2>2 DEF UnderWay
  <2>. QED
    BY <1>1, <1>2, <1>3, <2>1, <2>3 DEF Ledger!Store
<1>5. CASE Exits(s)
  <2>1. UnderWay' = [UnderWay EXCEPT ![s] = <<>>] /\ Stored' = Stored \ {s}
    BY <1>5, LedgerOf DEF Exits, Phases, TypeOK
  <2>. QED
    BY <1>1, <1>2, <1>3, <2>1 DEF Ledger!Store, Ledger!Forget
<1>. QED
  BY <1>4, <1>5 DEF Commit

\* A recording that succeeds is of the list stored, under the seed's stamp.
LEMMA RecordSumsUp ==
    ASSUME TypeOK, NEW s \in Seeds, Record(s), snapshots' # snapshots
    PROVE  Ledger!Record(s)
<1> DEFINE services == {all[s][k].service : k \in DOMAIN all[s]}
<1>1. s \in Stored /\ UnderWay[s] = all[s]
  BY DEF Record, Stored, UnderWay
<1>2. \A v : Ledger!Entry(s, v, stamp[s]) = Snapshot(s, v)
  BY <1>1 DEF Ledger!Entry, Snapshot
<1>3. snapshots' = snapshots \cup {Snapshot(s, v) : v \in services}
  BY DEF Record
<1>4. PICK v \in services : TRUE
  BY <1>3
<1>5. Snapshot(s, v) \in snapshots' /\ Snapshot(s, v).taken = stamp[s]
  BY <1>3 DEF Snapshot
<1>6. stamp[s] \in {r.taken : r \in snapshots'}
  BY <1>5
<1>7. snapshots' = snapshots \cup {Ledger!Entry(s, u, stamp[s]) : u \in services}
  BY <1>2, <1>3
<1>8. UnderWay' = [UnderWay EXCEPT ![s] = <<>>] /\ Stored' = Stored \ {s}
  BY LedgerOf DEF Record, Phases
<1>9. services = {UnderWay[s][k].service : k \in DOMAIN UnderWay[s]}
  BY <1>1
<1>10. UNCHANGED <<account, table>>
  BY DEF Record, database
<1>11. Ledger!Forget(s)
  BY <1>8 DEF Ledger!Forget
<1>. HIDE DEF services
<1>. QED
  BY <1>1, <1>6, <1>7, <1>9, <1>10, <1>11 DEF Ledger!Record

\* A step of the seeds is one of the ledger, or leaves it alone.
LEMMA LedgerStep ==
    ASSUME TypeOK, Locks, [Next]_vars
    PROVE  Ledger!Next \/ UNCHANGED Ledger!vars
<1>1. ASSUME NEW s \in Seeds, Start(s) PROVE Ledger!Next \/ UNCHANGED Ledger!vars
  <2>1. PICK p \in {"fetch", "failed"} : phase' = [phase EXCEPT ![s] = p]
    BY <1>1 DEF Start
  <2>2. phase[s] = "idle" /\ UNCHANGED <<account, all, table, snapshots>>
    BY <1>1 DEF Start, database
  <2>3. UnderWay' = [UnderWay EXCEPT ![s] = <<>>] /\ Stored' = Stored \ {s}
    BY <2>1, <2>2, LedgerOf DEF Phases
  <2>4. UnderWay[s] = <<>> /\ s \notin Stored
    BY <2>2 DEF UnderWay, Stored
  <2>5. UnderWay' = UnderWay /\ Stored' = Stored
    BY <2>3, <2>4 DEF UnderWay
  <2>. QED
    BY <2>2, <2>5 DEF Ledger!vars
<1>2. ASSUME NEW s \in Seeds, Gather(s) PROVE Ledger!Next
  <2>1. \A t \in Seeds \ {s} : all'[t] = all[t]
    BY <1>2 DEF Gather, TypeOK
  <2>2. UnderWay' = [UnderWay EXCEPT ![s] = UnderWay'[s]] /\ Stored' = Stored \ {s}
    BY <1>2, <2>1, LedgerOf DEF Gather, Phases
  <2>3. s \notin Stored
    BY <1>2 DEF Gather, Stored
  <2>4. Stored' = Stored
    BY <2>2, <2>3
  <2>. QED
    BY <1>2, <2>2, <2>3, <2>4 DEF Ledger!Next, Ledger!Prepare, Gather, database
<1>3. ASSUME NEW s \in Seeds, ExecRow(s) PROVE UNCHANGED Ledger!vars
  BY <1>3, LedgerFrame DEF ExecRow
<1>4. ASSUME NEW s \in Seeds, InsertFails(s) \/ Dies(s) PROVE Ledger!Next
  <2>1. /\ phase' = [phase EXCEPT ![s] = "failed"] /\ all' = [all EXCEPT ![s] = <<>>]
        /\ UNCHANGED <<account, table, snapshots>>
    BY <1>4 DEF InsertFails, Dies, Exits
  <2>. QED
    BY <2>1, LedgerForgets DEF TypeOK
<1>5. ASSUME NEW s \in Seeds, Commit(s) PROVE Ledger!Next
  BY <1>5, CommitStores DEF Ledger!Next
<1>6. ASSUME NEW s \in Seeds, Stamp(s) PROVE Ledger!Next \/ UNCHANGED Ledger!vars
  <2>1. phase[s] = "snapshot" /\ UNCHANGED <<account, all, table, snapshots>>
    BY <1>6 DEF Stamp, database
  <2>2. CASE phase' = [phase EXCEPT ![s] = "done"]
    BY <2>1, <2>2, LedgerForgets
  <2>3. CASE phase' = [phase EXCEPT ![s] = "stamped"]
    <3>1. UnderWay' = [UnderWay EXCEPT ![s] = all[s]] /\ Stored' = Stored \cup {s}
      BY <2>1, <2>3, LedgerOf DEF Phases
    <3>2. UnderWay[s] = all[s] /\ s \in Stored
      BY <2>1 DEF UnderWay, Stored
    <3>3. UnderWay' = UnderWay /\ Stored' = Stored
      BY <3>1, <3>2 DEF UnderWay
    <3>. QED
      BY <2>1, <3>3 DEF Ledger!vars
  <2>. QED
    BY <1>6, <2>2, <2>3 DEF Stamp
<1>7. ASSUME NEW s \in Seeds, Record(s) PROVE Ledger!Next
  <2>1. CASE snapshots' = snapshots
    BY <1>7, <2>1, LedgerForgets DEF Record, database
  <2>2. CASE snapshots' # snapshots
    BY <1>7, <2>2, RecordSumsUp DEF Ledger!Next
  <2>. QED
    BY <2>1, <2>2
<1>8. ASSUME NEW s \in Seeds, NEW i \in Slots,
             ReadPage(s, i) \/ RequestFails(s, i) \/ Expire(s, i)
      PROVE  UNCHANGED Ledger!vars
  BY <1>8, LedgerFrame DEF ReadPage, RequestFails, Expire, database
<1>9. ASSUME NEW c \in Churn, Change(c[1], c[2], c[3]) PROVE UNCHANGED Ledger!vars
  BY <1>9, LedgerFrame DEF Change, database
<1>10. CASE UNCHANGED vars
  BY <1>10, LedgerFrame DEF vars, database
<1>. QED
  BY <1>1, <1>2, <1>3, <1>4, <1>5, <1>6, <1>7, <1>8, <1>9, <1>10 DEF Next, Deadlock, AllEnded

\* The detailed database keeps the promise of the ledger: what a seed makes of
\* it takes effect at once or not at all (the two transactions of a seed).
THEOREM LedgerKept == Spec => KeepsLedger
<1>1. Init => TypeOK /\ Locks /\ Ledger!Init
  <2>1. Init => Ledger!Init
    BY DEF Init, Ledger!Init, UnderWay, Stored, Untouched
  <2>. QED
    BY <2>1, InitType, InitLocks
<1>2. TypeOK /\ Locks /\ [Next]_vars => (TypeOK /\ Locks)'
  BY NextType, NextLocks
<1>3. TypeOK /\ Locks /\ [Next]_vars => [Ledger!Next]_(Ledger!vars)
  BY LedgerStep
<1>. QED
  BY <1>1, <1>2, <1>3, PTL DEF Spec, KeepsLedger, Ledger!Spec

-----------------------------------------------------------------------------
(* The listings.  A fetcher's list is of names up to its cursor, and holds  *)
(* those of them that stayed.                                               *)

ListInv(s, i) ==
    /\ kept[s][i] \subseteq cloud[account[s]][i] /\ cloud[account[s]][i] \subseteq seen[s][i]
    /\ \A k \in 1..Len(found[s][i]) : found[s][i][k] \in seen[s][i] /\ found[s][i][k] <= cursor[s][i]
    /\ \A j, k \in 1..Len(found[s][i]) : found[s][i][j] = found[s][i][k] => j = k
    /\ i \in busy[s] /\ ~ ByServer(s, i) =>
          \A n \in kept[s][i] : n <= cursor[s][i] => \E k \in 1..Len(found[s][i]) : found[s][i][k] = n
    /\ i \notin busy[s] /\ ~ ByServer(s, i) =>
          \/ found[s][i] = <<>>
          \/ \A n \in kept[s][i] : \E k \in 1..Len(found[s][i]) : found[s][i][k] = n

FetchInv ==
    \A s \in Seeds :
        /\ phase[s] = "idle" => cursor[s] = AtStart /\ found[s] = NothingFound /\ busy[s] = {}
        /\ phase[s] = "fetch" /\ Real(s) => \A i \in Slots : ListInv(s, i)

\* The greatest element of a set of names is an upper bound.
LEMMA MaxBounds == ASSUME NEW S \in SUBSET Names, S # {} PROVE \A x \in S : x <= Max(S)
<1>1. S \in SUBSET Nat /\ \A x \in S : x <= MaxName
  BY DEF Names
<1>2. \E m \in S : \A y \in S : m >= y
  BY <1>1, GreatestOfBounded
<1>. QED
  BY <1>1, <1>2 DEF Max

\* A page is a beginning of what there is to list.
LEMMA PageIsPrefix ==
    ASSUME NEW S \in SUBSET Names, NEW m \in PageOf(S), NEW n \in S, n <= m
    PROVE  n \in PageOf(S)
<1> DEFINE Below(x) == {y \in S : y < x}
<1>1. S \subseteq Nat /\ m \in S
  BY DEF Names, PageOf
<1>2. Below(n) \in SUBSET Below(m) /\ Below(m) \in SUBSET Names
  <2>1. \A y \in S : y < n => y < m
    BY <1>1
  <2>. QED
    BY <2>1
<1>3. /\ Cardinality(Below(n)) <= Cardinality(Below(m))
      /\ Cardinality(Below(n)) \in Nat /\ Cardinality(Below(m)) \in Nat
  <2>. HIDE DEF Below
  <2>1. IsFiniteSet(Below(m)) /\ Below(n) \in SUBSET Names
    BY <1>2, NamesFinite
  <2>. QED
    BY <1>2, <2>1, FS_Subset, NamesFinite
<1>4. Cardinality(Below(m)) < PageSize
  BY DEF PageOf
<1>. QED
  BY <1>3, <1>4 DEF PageOf

\* An answer that has every name of a page has each once.
LEMMA AnswerHasEachOnce ==
    ASSUME NEW S \in SUBSET Names, NEW answer \in [1..Cardinality(S) -> S],
           \A n \in S : \E k \in DOMAIN answer : answer[k] = n
    PROVE  /\ Len(answer) = Cardinality(S) /\ answer \in Seq(S)
           /\ \A j, k \in 1..Len(answer) : answer[j] = answer[k] => j = k
<1>1. IsFiniteSet(S) /\ Cardinality(S) \in Nat
  BY NamesFinite
<1>2. IsFiniteSet(1..Cardinality(S)) /\ Cardinality(1..Cardinality(S)) = Cardinality(S)
  BY <1>1, FS_Interval
<1>3. answer \in Surjection(1..Cardinality(S), S)
  BY DEF Surjection
<1>4. answer \in Injection(1..Cardinality(S), S)
  BY <1>2, <1>3, FS_SurjSameCardinalityImpliesInj
<1>5. \A j, k \in 1..Cardinality(S) : answer[j] = answer[k] => j = k
  BY <1>4 DEF Injection, IsInjective
<1>6. Len(answer) = Cardinality(S) /\ answer \in Seq(S)
  <2>1. \A n \in Nat : \A f \in [1..n -> S] : Len(f) = n /\ f \in Seq(S)
    OBVIOUS
  <2>. QED
    BY <1>1, <2>1
<1>. QED
  BY <1>5, <1>6

\* What is appended to a list of other names.
LEMMA Appended ==
    ASSUME NEW list \in Seq(Names), NEW answer \in Seq(Names)
    PROVE  /\ Len(list) \in Nat /\ Len(answer) \in Nat
           /\ Len(list \o answer) = Len(list) + Len(answer)
           /\ \A k \in 1..Len(list) : (list \o answer)[k] = list[k]
           /\ \A k \in 1..Len(answer) : (list \o answer)[Len(list) + k] = answer[k]
           /\ \A k \in 1..Len(list \o answer) :
                 \/ k \in 1..Len(list)
                 \/ \E j \in 1..Len(answer) : k = Len(list) + j
<1>1. /\ Len(list) \in Nat /\ Len(answer) \in Nat
      /\ Len(list \o answer) = Len(list) + Len(answer)
      /\ \A k \in 1..Len(list) : (list \o answer)[k] = list[k]
      /\ \A k \in 1..Len(answer) : (list \o answer)[Len(list) + k] = answer[k]
  OBVIOUS
<1>2. ASSUME NEW k \in 1..(Len(list) + Len(answer))
      PROVE  k \in 1..Len(list) \/ \E j \in 1..Len(answer) : k = Len(list) + j
  <2>1. k \in 1..Len(list) \/ (k - Len(list) \in 1..Len(answer) /\ k = Len(list) + (k - Len(list)))
    BY <1>1
  <2>. QED
    BY <2>1
<1>. QED
  BY <1>1, <1>2

\* A page read adds the names that follow the cursor, up to its new place.
LEMMA ReadPageLists ==
    ASSUME TypeOK, NEW s \in Seeds, NEW i \in Slots, ListInv(s, i), ReadPage(s, i)
    PROVE  ListInv(s, i)'
<1> DEFINE S == Pageable(s, i)
           page == PageOf(S)
           list == found[s][i]
<1>1. /\ cursor[s][i] \in 0..MaxName /\ list \in Seq(Names) /\ kept[s][i] \subseteq Names
      /\ cloud[account[s]][i] \subseteq Names
  BY DEF TypeOK
<1>2. /\ Unread(s, i) \subseteq Names /\ S \subseteq Unread(s, i) /\ page \subseteq S
      /\ ~ ByServer(s, i) => S = Unread(s, i)
      /\ \A n \in page : n > cursor[s][i] /\ n \in cloud[account[s]][i]
  BY <1>1 DEF Pageable, PageOf, Unread
<1>3. PICK answer \in [1..Cardinality(page) -> page] :
        /\ \A n \in page : \E k \in DOMAIN answer : answer[k] = n
        /\ found' = [found EXCEPT ![s][i] = @ \o answer]
  BY DEF ReadPage
<1>4. /\ page \in SUBSET Names /\ answer \in Seq(page) /\ answer \in Seq(Names)
      /\ DOMAIN answer = 1..Len(answer)
      /\ \A j, k \in 1..Len(answer) : answer[j] = answer[k] => j = k
  <2>1. page \in SUBSET Names
    BY <1>2
  <2>2. answer \in Seq(page) /\ \A j, k \in 1..Len(answer) : answer[j] = answer[k] => j = k
    <3>. HIDE DEF page
    <3>. QED
      BY <1>3, <2>1, AnswerHasEachOnce
  <2>. QED
    <3>. HIDE DEF page
    <3>. QED
      BY <2>1, <2>2
<1>5. /\ cursor' = [cursor EXCEPT ![s][i] = IF page = {} THEN @ ELSE Max(page)]
      /\ busy' = [busy EXCEPT ![s] = IF Unread(s, i) # page THEN @ ELSE @ \ {i}]
      /\ i \in busy[s] /\ UNCHANGED <<cloud, account, kept, seen>>
  BY DEF ReadPage, history
<1>. HIDE DEF S, page, list
<1>6. found'[s][i] = list \o answer
  BY <1>3 DEF TypeOK, list
<1>7. cursor'[s][i] = IF page = {} THEN cursor[s][i] ELSE Max(page)
  BY <1>5 DEF TypeOK
<1>8. i \in busy'[s] <=> Unread(s, i) # page
  BY <1>5 DEF TypeOK
<1>9. /\ cursor'[s][i] \in Nat /\ cursor[s][i] <= cursor'[s][i]
      /\ \A n \in page : n <= cursor'[s][i] /\ n \in Nat
  <2>1. CASE page = {}
    BY <1>1, <1>7, <2>1
  <2>2. CASE page # {}
    <3>1. Max(page) \in page /\ \A n \in page : n <= Max(page)
      BY <1>4, <2>2, MaxType, MaxBounds
    <3>2. \A n \in page : n \in Nat /\ n > cursor[s][i]
      BY <1>2, <1>4 DEF Names
    <3>. QED
      BY <1>1, <1>7, <2>2, <3>1, <3>2
  <2>. QED
    BY <2>1, <2>2
<1>10. /\ Len(list) \in Nat /\ Len(answer) \in Nat
       /\ Len(list \o answer) = Len(list) + Len(answer)
       /\ \A k \in 1..Len(list) : (list \o answer)[k] = list[k]
       /\ \A k \in 1..Len(answer) : (list \o answer)[Len(list) + k] = answer[k]
       /\ \A k \in 1..Len(list \o answer) :
             \/ k \in 1..Len(list)
             \/ \E j \in 1..Len(answer) : k = Len(list) + j
  BY <1>1, <1>4, Appended
<1>11. \A k \in 1..Len(list) : list[k] \in seen[s][i] /\ list[k] <= cursor[s][i] /\ list[k] \in Nat
  BY <1>1 DEF ListInv, list, Names
<1>12. \A k \in 1..Len(answer) : answer[k] \in page /\ answer[k] \in seen[s][i]
  BY <1>2, <1>4 DEF ListInv
<1>13. ASSUME NEW k \in 1..Len(list \o answer)
       PROVE  (list \o answer)[k] \in seen[s][i] /\ (list \o answer)[k] <= cursor'[s][i]
  <2>1. CASE k \in 1..Len(list)
    BY <1>1, <1>9, <1>10, <1>11, <2>1
  <2>2. ASSUME NEW j \in 1..Len(answer), k = Len(list) + j
        PROVE  (list \o answer)[k] \in seen[s][i] /\ (list \o answer)[k] <= cursor'[s][i]
    BY <1>9, <1>10, <1>12, <2>2
  <2>. QED
    BY <1>10, <2>1, <2>2
<1>14. ASSUME NEW j \in 1..Len(list \o answer), NEW k \in 1..Len(list \o answer),
              (list \o answer)[j] = (list \o answer)[k]
       PROVE  j = k
  <2>1. \A l \in 1..Len(list), m \in 1..Len(answer) : list[l] # answer[m]
    <3>1. \A m \in 1..Len(answer) : answer[m] > cursor[s][i] /\ answer[m] \in Nat
      BY <1>2, <1>9, <1>12
    <3>. QED
      BY <1>1, <1>11, <3>1
  <2>2. CASE j \in 1..Len(list) /\ k \in 1..Len(list)
    BY <1>10, <1>14, <2>2 DEF ListInv, list
  <2>3. CASE j \in 1..Len(list) /\ k \notin 1..Len(list)
    BY <1>10, <1>14, <2>1, <2>3
  <2>4. CASE j \notin 1..Len(list) /\ k \in 1..Len(list)
    BY <1>10, <1>14, <2>1, <2>4
  <2>5. CASE j \notin 1..Len(list) /\ k \notin 1..Len(list)
    <3>1. PICK l \in 1..Len(answer), m \in 1..Len(answer) : j = Len(list) + l /\ k = Len(list) + m
      BY <1>10, <2>5
    <3>2. answer[l] = answer[m]
      BY <1>10, <1>14, <3>1
    <3>. QED
      BY <1>4, <3>1, <3>2
  <2>. QED
    BY <2>2, <2>3, <2>4, <2>5
<1>15. ASSUME NEW n \in kept[s][i], ~ ByServer(s, i), n <= cursor'[s][i] \/ Unread(s, i) = page
       PROVE  \E k \in 1..Len(list \o answer) : (list \o answer)[k] = n
  <2>1. n \in Nat /\ n \in cloud[account[s]][i]
    BY <1>1 DEF ListInv, Names
  <2>2. CASE n <= cursor[s][i]
    <3>1. PICK k \in 1..Len(list) : list[k] = n
      BY <1>5, <1>15, <2>2 DEF ListInv, list
    <3>. QED
      BY <1>10, <3>1
  <2>3. CASE ~ (n <= cursor[s][i])
    <3>1. n \in Unread(s, i) /\ S = Unread(s, i)
      BY <1>1, <1>2, <1>15, <2>1, <2>3 DEF Unread
    <3>2. n \in page
      <4>1. CASE Unread(s, i) = page
        BY <3>1, <4>1
      <4>2. CASE n <= cursor'[s][i] /\ Unread(s, i) # page
        <5>1. page # {}
          BY <1>7, <2>3, <4>2
        <5>2. Max(page) \in page /\ n <= Max(page)
          BY <1>4, <1>7, <4>2, <5>1, MaxType
        <5>3. S \in SUBSET Names
          BY <1>2, <3>1
        <5>. QED
          BY <3>1, <5>2, <5>3, PageIsPrefix DEF page
      <4>. QED
        BY <1>15, <4>1, <4>2
    <3>3. PICK m \in 1..Len(answer) : answer[m] = n
      BY <1>3, <1>4, <3>2
    <3>4. Len(list) + m \in 1..Len(list \o answer)
      <4>1. Len(list) \in Nat /\ Len(answer) \in Nat /\ Len(list \o answer) = Len(list) + Len(answer)
        BY <1>10
      <4>. QED
        BY <4>1
    <3>5. (list \o answer)[Len(list) + m] = n
      BY <1>10, <3>3
    <3>. QED
      BY <3>4, <3>5
  <2>. QED
    BY <2>2, <2>3
<1>16. ByServer(s, i)' <=> ByServer(s, i)
  BY <1>5 DEF ByServer
<1>17. kept'[s][i] \subseteq cloud'[account'[s]][i] /\ cloud'[account'[s]][i] \subseteq seen'[s][i]
  BY <1>5 DEF ListInv
<1>18. kept'[s][i] = kept[s][i]
  BY <1>5
<1>19. i \in busy'[s] /\ ~ ByServer(s, i)' =>
          \A n \in kept'[s][i] : n <= cursor'[s][i] => \E k \in 1..Len(found'[s][i]) : found'[s][i][k] = n
  BY <1>6, <1>15, <1>16, <1>18
<1>20. i \notin busy'[s] /\ ~ ByServer(s, i)' =>
          \A n \in kept'[s][i] : \E k \in 1..Len(found'[s][i]) : found'[s][i][k] = n
  BY <1>6, <1>8, <1>15, <1>16, <1>18
<1>21. /\ \A k \in 1..Len(found'[s][i]) : found'[s][i][k] \in seen'[s][i] /\ found'[s][i][k] <= cursor'[s][i]
       /\ \A j, k \in 1..Len(found'[s][i]) : found'[s][i][j] = found'[s][i][k] => j = k
  BY <1>5, <1>6, <1>13, <1>14
<1>. QED
  BY <1>17, <1>19, <1>20, <1>21 DEF ListInv

\* A fetcher that fails has nothing, or is the one that passes servers over.
LEMMA FetcherEndsLists ==
    ASSUME TypeOK, NEW s \in Seeds, NEW i \in Slots, ListInv(s, i), RequestFails(s, i) \/ Expire(s, i)
    PROVE  ListInv(s, i)'
<1>1. UNCHANGED <<cloud, account, kept, seen>> /\ i \in busy[s]
  BY DEF RequestFails, Expire, history
<1>2. ByServer(s, i)' <=> ByServer(s, i)
  BY <1>1 DEF ByServer
<1>3. CASE Discard(s, i)
  <2>1. found'[s][i] = <<>> /\ i \notin busy'[s]
    BY <1>3 DEF TypeOK, Discard
  <2>. QED
    BY <1>1, <2>1 DEF ListInv
<1>4. CASE ByServer(s, i) /\ SkipServers(s, i)
  BY <1>1, <1>2, <1>4 DEF SkipServers, ListInv
<1>5. CASE ByServer(s, i) /\ SkipServer(s, i)
  <2> DEFINE next == Min(Unread(s, i))
             rest == {n \in Names : ServerOf[n] <= ServerOf[next]}
  <2>1. Unread(s, i) \in SUBSET Names /\ Unread(s, i) # {}
    BY <1>5 DEF TypeOK, Unread, SkipServer
  <2>2. next \in Unread(s, i)
    <3>1. \E x \in Unread(s, i) : \A y \in Unread(s, i) : x <= y
      BY <2>1, LeastOfNaturals DEF Names
    <3>. QED
      BY <3>1 DEF Min
  <2>3. next \in Names /\ next > cursor[s][i]
    BY <2>1, <2>2 DEF Unread
  <2>4. rest \in SUBSET Names /\ next \in rest
    BY <2>3
  <2>5. cursor' = [cursor EXCEPT ![s][i] = Max(rest)] /\ UNCHANGED found
    BY <1>5 DEF SkipServer
  <2>. HIDE DEF next, rest
  <2>6. Max(rest) \in Names /\ next <= Max(rest)
    BY <2>4, MaxType, MaxBounds
  <2>7. cursor'[s][i] \in Nat /\ cursor[s][i] <= cursor'[s][i] /\ cursor[s][i] \in Nat
    BY <2>3, <2>5, <2>6 DEF TypeOK, Names
  <2>8. \A k \in 1..Len(found[s][i]) : found[s][i][k] \in Nat /\ found[s][i][k] <= cursor'[s][i]
    <3>1. \A k \in 1..Len(found[s][i]) : found[s][i][k] \in Nat
      BY DEF TypeOK, Names
    <3>. QED
      BY <2>7, <3>1 DEF ListInv
  <2>. QED
    BY <1>1, <1>2, <1>5, <2>5, <2>8 DEF ListInv
<1>. QED
  BY <1>3, <1>4, <1>5 DEF RequestFails, Expire

\* A listing nobody touches stays as it is, in a cloud that stays.
LEMMA ListStays ==
    ASSUME NEW s \in Seeds, NEW i \in Slots, ListInv(s, i), UNCHANGED account,
           cloud'[account[s]] = cloud[account[s]], kept'[s] = kept[s], seen'[s] = seen[s],
           found'[s][i] = found[s][i], cursor'[s][i] = cursor[s][i], i \in busy'[s] <=> i \in busy[s]
    PROVE  ListInv(s, i)'
<1>1. ByServer(s, i)' <=> ByServer(s, i)
  BY DEF ByServer
<1>2. /\ account'[s] = account[s] /\ cloud'[account'[s]][i] = cloud[account[s]][i]
      /\ kept'[s][i] = kept[s][i] /\ seen'[s][i] = seen[s][i]
  OBVIOUS
<1>3. kept'[s][i] \subseteq cloud'[account'[s]][i] /\ cloud'[account'[s]][i] \subseteq seen'[s][i]
  BY <1>2 DEF ListInv
<1>4. /\ \A k \in 1..Len(found'[s][i]) : found'[s][i][k] \in seen'[s][i] /\ found'[s][i][k] <= cursor'[s][i]
      /\ \A j, k \in 1..Len(found'[s][i]) : found'[s][i][j] = found'[s][i][k] => j = k
  BY <1>2 DEF ListInv
<1>5. /\ i \in busy'[s] /\ ~ ByServer(s, i)' =>
            \A n \in kept'[s][i] : n <= cursor'[s][i] => \E k \in 1..Len(found'[s][i]) : found'[s][i][k] = n
      /\ i \notin busy'[s] /\ ~ ByServer(s, i)' =>
            \/ found'[s][i] = <<>>
            \/ \A n \in kept'[s][i] : \E k \in 1..Len(found'[s][i]) : found'[s][i][k] = n
  BY <1>1, <1>2 DEF ListInv
<1>. QED
  BY <1>3, <1>4, <1>5 DEF ListInv

\* A seed that neither starts nor is listing stays so.
LEMMA FetchStays ==
    ASSUME FetchInv, NEW t \in Seeds, UNCHANGED account,
           phase'[t] \in {"idle", "fetch"} =>
              /\ phase'[t] = phase[t]
              /\ cloud'[account[t]] = cloud[account[t]] /\ kept'[t] = kept[t] /\ seen'[t] = seen[t]
              /\ found'[t] = found[t] /\ cursor'[t] = cursor[t] /\ busy'[t] = busy[t]
    PROVE  /\ phase'[t] = "idle" => cursor'[t] = AtStart /\ found'[t] = NothingFound /\ busy'[t] = {}
           /\ phase'[t] = "fetch" /\ Real(t)' => \A i \in Slots : ListInv(t, i)'
<1>1. Real(t)' <=> Real(t)
  BY DEF Real
<1>2. phase'[t] = "idle" => cursor'[t] = AtStart /\ found'[t] = NothingFound /\ busy'[t] = {}
  BY DEF FetchInv
<1>3. ASSUME phase'[t] = "fetch", Real(t), NEW i \in Slots PROVE ListInv(t, i)'
  <2>1. ListInv(t, i)
    BY <1>3 DEF FetchInv
  <2>. QED
    BY <1>3, <2>1, ListStays
<1>. QED
  BY <1>1, <1>2, <1>3

\* The cloud changes under those who list it.
LEMMA ChangeLists ==
    ASSUME TypeOK, NEW s \in Seeds, NEW i \in Slots, ListInv(s, i), phase[s] = "fetch",
           NEW a \in Accounts, NEW j \in Slots, NEW n \in Names, Change(a, j, n)
    PROVE  ListInv(s, i)'
<1>1. UNCHANGED <<account, busy, cursor, found>>
  BY DEF Change, fetching
<1>2. ByServer(s, i)' <=> ByServer(s, i)
  BY <1>1 DEF ByServer
<1>3. CASE account[s] = a /\ i = j
  <2>1. /\ cloud'[a][i] \in {cloud[a][i] \ {n}, cloud[a][i] \cup {n}}
        /\ kept'[s][i] = kept[s][i] \ {n} /\ seen'[s][i] = seen[s][i] \cup {n}
    BY <1>3 DEF Change, TypeOK
  <2>. QED
    BY <1>1, <1>2, <1>3, <2>1 DEF ListInv
<1>4. CASE ~ (account[s] = a /\ i = j)
  <2>1. /\ cloud'[account[s]][i] = cloud[account[s]][i]
        /\ kept'[s][i] = kept[s][i] /\ seen'[s][i] = seen[s][i]
    BY <1>4 DEF Change, TypeOK
  <2>. QED
    BY <1>1, <1>2, <2>1 DEF ListInv
<1>. QED
  BY <1>3, <1>4

\* Every step keeps the listings.
LEMMA FetchStep == TypeOK /\ FetchInv /\ [Next]_vars => FetchInv'
<1> SUFFICES ASSUME TypeOK, FetchInv, [Next]_vars, NEW t \in Seeds
             PROVE  /\ phase'[t] = "idle" => cursor'[t] = AtStart /\ found'[t] = NothingFound /\ busy'[t] = {}
                    /\ phase'[t] = "fetch" /\ Real(t)' => \A i \in Slots : ListInv(t, i)'
  BY DEF FetchInv
<1> DEFINE Goal == /\ phase'[t] = "idle" => cursor'[t] = AtStart /\ found'[t] = NothingFound /\ busy'[t] = {}
                   /\ phase'[t] = "fetch" /\ Real(t)' => \A i \in Slots : ListInv(t, i)'
<1>1. ASSUME NEW s \in Seeds, Start(s) PROVE Goal
  <2>1. UNCHANGED <<account, cloud, cursor, found>>
    BY <1>1 DEF Start
  <2>2. CASE t # s
    <3>1. phase'[t] = phase[t] /\ busy'[t] = busy[t] /\ kept'[t] = kept[t] /\ seen'[t] = seen[t]
      BY <1>1, <2>2 DEF Start, TypeOK
    <3>. QED
      BY <2>1, <3>1, FetchStays
  <2>3. CASE t = s
    <3>1. cursor[t] = AtStart /\ found[t] = NothingFound /\ phase'[t] # "idle"
      BY <1>1, <2>3 DEF Start, FetchInv, TypeOK
    <3>2. ASSUME phase'[t] = "fetch", Real(t)', NEW i \in Slots PROVE ListInv(t, i)'
      <4>1. /\ found'[t][i] = <<>> /\ cursor'[t][i] = 0
        BY <2>1, <3>1 DEF NothingFound, AtStart
      <4>2. kept'[t] = cloud[account[t]] /\ seen'[t] = cloud[account[t]] /\ i \in busy'[t]
        BY <1>1, <2>1, <2>3, <3>2 DEF Start, TypeOK, Real
      <4>3. \A n \in kept'[t][i] : ~ (n <= 0)
        BY <4>2 DEF TypeOK, Names
      <4>. QED
        BY <2>1, <4>1, <4>2, <4>3 DEF ListInv
    <3>. QED
      BY <3>1, <3>2
  <2>. QED
    BY <2>2, <2>3
<1>2. ASSUME NEW s \in Seeds, Gather(s) PROVE Goal
  <2>1. UNCHANGED <<account, cloud, busy, kept, seen>> /\ phase' = [phase EXCEPT ![s] = "insert"]
        /\ \A r \in Seeds \ {s} : cursor'[r] = cursor[r] /\ found'[r] = found[r]
    BY <1>2 DEF Gather, TypeOK, history
  <2>. QED
    BY <2>1, FetchStays DEF TypeOK
<1>3. ASSUME NEW s \in Seeds, ExecRow(s) \/ Stamp(s) \/ Record(s) PROVE Goal
  <2>1. UNCHANGED <<account, cloud, busy, cursor, found, kept, seen>>
        /\ \/ UNCHANGED phase
           \/ \E p \in {"stamped", "done"} : phase' = [phase EXCEPT ![s] = p]
    BY <1>3 DEF ExecRow, Stamp, Record, fetching, history
  <2>. QED
    BY <2>1, FetchStays DEF TypeOK
<1>4. ASSUME NEW s \in Seeds, Exits(s), UNCHANGED <<account, cloud>> PROVE Goal
  <2>1. phase' = [phase EXCEPT ![s] = "failed"]
        /\ \A r \in Seeds \ {s} : /\ cursor'[r] = cursor[r] /\ found'[r] = found[r] /\ busy'[r] = busy[r]
                                  /\ kept'[r] = kept[r] /\ seen'[r] = seen[r]
    BY <1>4 DEF Exits, TypeOK
  <2>. QED
    BY <1>4, <2>1, FetchStays DEF TypeOK
<1>5. ASSUME NEW s \in Seeds, Commit(s) PROVE Goal
  <2>1. CASE Exits(s)
    BY <1>4, <1>5, <2>1 DEF Commit
  <2>2. CASE phase' = [phase EXCEPT ![s] = "snapshot"] /\ UNCHANGED <<fetching, history>>
    BY <1>5, <2>2, FetchStays DEF Commit, TypeOK, fetching, history
  <2>. QED
    BY <1>5, <2>1, <2>2 DEF Commit
<1>6. ASSUME NEW s \in Seeds, InsertFails(s) \/ Dies(s) PROVE Goal
  BY <1>4, <1>6 DEF InsertFails, Dies
<1>7. ASSUME NEW s \in Seeds, NEW i \in Slots, ReadPage(s, i) \/ RequestFails(s, i) \/ Expire(s, i) PROVE Goal
  <2>1. UNCHANGED <<phase, account, cloud, kept, seen>>
    BY <1>7 DEF ReadPage, RequestFails, Expire, history
  <2>2. /\ \A r \in Seeds \ {s} : cursor'[r] = cursor[r] /\ found'[r] = found[r] /\ busy'[r] = busy[r]
        /\ \A j \in Slots \ {i} : /\ found'[s][j] = found[s][j] /\ cursor'[s][j] = cursor[s][j]
                                  /\ j \in busy'[s] <=> j \in busy[s]
    <3>1. CASE ReadPage(s, i)
      BY <3>1 DEF ReadPage, TypeOK
    <3>2. CASE Discard(s, i)
      BY <3>2 DEF Discard, TypeOK
    <3>3. CASE SkipServer(s, i)
      BY <3>3 DEF SkipServer, TypeOK
    <3>4. CASE SkipServers(s, i)
      BY <3>4 DEF SkipServers, TypeOK
    <3>. QED
      BY <1>7, <3>1, <3>2, <3>3, <3>4 DEF RequestFails, Expire
  <2>3. CASE t # s
    BY <2>1, <2>2, <2>3, FetchStays
  <2>4. CASE t = s
    <3>1. phase[t] # "idle" /\ phase'[t] = phase[t]
      BY <1>7, <2>1, <2>4 DEF ReadPage, RequestFails, Expire, FetchInv
    <3>2. Real(t)' <=> Real(t)
      BY <2>1 DEF Real
    <3>3. ASSUME phase[t] = "fetch", Real(t), NEW j \in Slots PROVE ListInv(t, j)'
      <4>1. ListInv(t, j)
        BY <3>3 DEF FetchInv
      <4>2. CASE j = i
        BY <1>7, <2>4, <4>1, <4>2, ReadPageLists, FetcherEndsLists
      <4>3. CASE j # i
        <5>1. /\ found'[s][j] = found[s][j] /\ cursor'[s][j] = cursor[s][j]
              /\ (j \in busy'[s] <=> j \in busy[s])
          BY <2>2, <4>3
        <5>2. /\ UNCHANGED account /\ cloud'[account[t]] = cloud[account[t]]
              /\ kept'[t] = kept[t] /\ seen'[t] = seen[t]
          BY <2>1
        <5>. QED
          BY <2>4, <4>1, <5>1, <5>2, ListStays
      <4>. QED
        BY <4>2, <4>3
    <3>. QED
      BY <3>1, <3>2, <3>3
  <2>. QED
    BY <2>3, <2>4
<1>8. ASSUME NEW c \in Churn, Change(c[1], c[2], c[3]) PROVE Goal
  <2>1. c[1] \in Accounts /\ c[2] \in Slots /\ c[3] \in Names
    OBVIOUS
  <2>2. UNCHANGED <<phase, account, busy, cursor, found>>
    BY <1>8 DEF Change, fetching
  <2>3. Real(t)' <=> Real(t)
    BY <2>2 DEF Real
  <2>4. ASSUME phase[t] = "fetch", Real(t), NEW i \in Slots PROVE ListInv(t, i)'
    <3>1. ListInv(t, i)
      BY <2>4 DEF FetchInv
    <3>. QED
      BY <1>8, <2>1, <2>4, <3>1, ChangeLists
  <2>. QED
    BY <2>2, <2>3, <2>4 DEF FetchInv
<1>9. CASE UNCHANGED vars
  BY <1>9, FetchStays DEF vars, fetching, history
<1>. QED
  BY <1>1, <1>2, <1>3, <1>5, <1>6, <1>7, <1>8, <1>9 DEF Next, Deadlock, AllEnded

\* A listing has each name once, none that was never there, and all that
\* stayed unless it failed (FetchResources and its fetchers).
THEOREM ListingsHold == Spec => []ListingsTell
<1>1. Init => FetchInv
  BY DEF Init, FetchInv
<1>2. TypeOK /\ FetchInv => ListingsTell
  <2> SUFFICES ASSUME TypeOK, FetchInv, NEW s \in Seeds, NEW i \in Slots, phase[s] = "fetch", Real(s)
               PROVE  /\ \A k \in DOMAIN found[s][i] : found[s][i][k] \in seen[s][i]
                      /\ \A j, k \in DOMAIN found[s][i] : found[s][i][j] = found[s][i][k] => j = k
                      /\ i \notin busy[s] /\ found[s][i] # <<>> /\ ~ ByServer(s, i)
                            => kept[s][i] \subseteq Range(found[s][i])
    BY DEF ListingsTell
  <2>1. ListInv(s, i) /\ DOMAIN found[s][i] = 1..Len(found[s][i])
    BY DEF FetchInv, TypeOK
  <2>. QED
    BY <2>1 DEF ListInv, Range
<1>. QED
  BY <1>1, <1>2, InitType, NextType, FetchStep, PTL DEF Spec

-----------------------------------------------------------------------------
(***************************************************************************)
(* What the snapshots tell of the clouds and of the lists.                 *)
(***************************************************************************)

\* What a service's places in a list of a real provider say of its fetcher.
SliceTells(s, i) ==
    LET its == Of(all[s], Services(account[s])[i])
    IN  /\ \A k \in its : all[s][k].id \in seen[s][i]
        /\ \A j, k \in its : all[s][j].id = all[s][k].id => j = k
        /\ its # {} /\ ~ ByServer(s, i) => \A n \in kept[s][i] : \E k \in its : all[s][k].id = n

\* A list is told of as long as it is there.
ListedInv ==
    \A s \in Seeds : phase[s] \in {"insert", "snapshot", "stamped", "done"} /\ Real(s) =>
        \A i \in Slots : SliceTells(s, i)

\* Snapshots are of the lists of seeds that have ended well.
TakenInv ==
    /\ \A s \in Seeds : stamp[s] <= clock
    /\ \A r \in snapshots :
          /\ r.by \in Seeds /\ phase[r.by] = "done"
          /\ r = Snapshot(r.by, r.service)
          /\ \E k \in DOMAIN all[r.by] : all[r.by][k].service = r.service

\* The four services of a provider are different.
LEMMA ServicesDiffer ==
    ASSUME NEW a \in Accounts, NEW i \in Slots, NEW j \in Slots, Services(a)[i] = Services(a)[j]
    PROVE  i = j
<1>1. i \in {1, 2, 3, 4} /\ j \in {1, 2, 3, 4}
  BY DEF Slots
<1>2. CASE ProviderOf[a] = "gcp"
  BY <1>1, <1>2 DEF Services
<1>3. CASE ProviderOf[a] = "azure"
  BY <1>1, <1>3 DEF Services
<1>4. CASE ProviderOf[a] \notin {"gcp", "azure"}
  BY <1>1, <1>4 DEF Services
<1>. QED
  BY <1>2, <1>3, <1>4

\* Where the names of a fetcher begin in the list of all.
Before(s, i) ==
    CASE i = 1 -> 0
      [] i = 2 -> Len(found[s][1])
      [] i = 3 -> Len(found[s][1]) + Len(found[s][2])
      [] i = 4 -> Len(found[s][1]) + Len(found[s][2]) + Len(found[s][3])

\* The list of all has the names of each fetcher, one after the other.
LEMMA ListedParts ==
    ASSUME TypeOK, NEW s \in Seeds
    PROVE  /\ \A i \in Slots : Before(s, i) \in Nat /\ Len(found[s][i]) \in Nat
           /\ \A i \in Slots : \A m \in 1..Len(found[s][i]) :
                 /\ Before(s, i) + m \in DOMAIN Listed(s)
                 /\ Listed(s)[Before(s, i) + m] = Resource(found[s][i][m], account[s], i, 0)
           /\ \A k \in DOMAIN Listed(s) : \E i \in Slots : \E m \in 1..Len(found[s][i]) : k = Before(s, i) + m
<1> DEFINE part(i) == [k \in DOMAIN found[s][i] |-> Resource(found[s][i][k], account[s], i, 0)]
           n(i) == Len(found[s][i])
<1>1. \A i \in Slots : /\ n(i) \in Nat /\ DOMAIN found[s][i] = 1..n(i)
                       /\ \A k \in 1..n(i) : found[s][i][k] \in Names
  BY DEF TypeOK
<1>2. ASSUME NEW i \in Slots
      PROVE  /\ part(i) \in Seq(Resources) /\ Len(part(i)) = n(i)
             /\ \A m \in 1..n(i) : part(i)[m] = Resource(found[s][i][m], account[s], i, 0)
  <2>1. \A m \in Nat : \A f \in [1..m -> Resources] : Len(f) = m /\ f \in Seq(Resources)
    OBVIOUS
  <2>2. \A k \in 1..n(i) : Resource(found[s][i][k], account[s], i, 0) \in Resources
    BY <1>1, ResourceType DEF TypeOK
  <2>3. part(i) \in [1..n(i) -> Resources]
    BY <1>1, <2>2
  <2>. QED
    BY <1>1, <2>1, <2>3
<1>3. Listed(s) = part(1) \o part(2) \o part(3) \o part(4)
  BY DEF Listed
<1>4. 1 \in Slots /\ 2 \in Slots /\ 3 \in Slots /\ 4 \in Slots /\ Slots = {1, 2, 3, 4}
  BY DEF Slots
<1>5. Before(s, 1) = 0 /\ Before(s, 2) = n(1) /\ Before(s, 3) = n(1) + n(2) /\ Before(s, 4) = n(1) + n(2) + n(3)
  BY DEF Before
<1> HIDE DEF part, n
<1>6. /\ n(1) \in Nat /\ n(2) \in Nat /\ n(3) \in Nat /\ n(4) \in Nat
      /\ part(1) \in Seq(Resources) /\ part(2) \in Seq(Resources)
      /\ part(3) \in Seq(Resources) /\ part(4) \in Seq(Resources)
      /\ n(1) = Len(part(1)) /\ n(2) = Len(part(2)) /\ n(3) = Len(part(3)) /\ n(4) = Len(part(4))
  BY <1>1, <1>2, <1>4 DEF n
<1>7. PICK a, b, c, d : a = part(1) /\ b = part(2) /\ c = part(3) /\ d = part(4)
  OBVIOUS
<1>8. PICK L : L = a \o b \o c \o d
  OBVIOUS
<1>9. L = Listed(s)
  BY <1>3, <1>7, <1>8, Zenon
<1>10. /\ L \in Seq(Resources)
       /\ Len(L) = Len(a) + Len(b) + Len(c) + Len(d)
       /\ \A k \in 1..Len(a) : L[k] = a[k]
       /\ \A k \in 1..Len(b) : L[Len(a) + k] = b[k]
       /\ \A k \in 1..Len(c) : L[Len(a) + Len(b) + k] = c[k]
       /\ \A k \in 1..Len(d) : L[Len(a) + Len(b) + Len(c) + k] = d[k]
  <2>1. a \in Seq(Resources) /\ b \in Seq(Resources) /\ c \in Seq(Resources) /\ d \in Seq(Resources)
    BY <1>6, <1>7, Zenon
  <2>. QED
    BY <1>8, <2>1
<1>11. Len(a) = n(1) /\ Len(b) = n(2) /\ Len(c) = n(3) /\ Len(d) = n(4)
  BY <1>6, <1>7, Zenon
<1>12. DOMAIN Listed(s) = 1..(n(1) + n(2) + n(3) + n(4))
  <2>1. DOMAIN L = 1..Len(L)
    BY <1>10
  <2>. QED
    BY <1>9, <1>10, <1>11, <2>1, Zenon
<1>13. ASSUME NEW i \in Slots, NEW m \in 1..n(i)
       PROVE  Before(s, i) + m \in DOMAIN Listed(s) /\ Listed(s)[Before(s, i) + m] = part(i)[m]
  <2>1. CASE i = 1
    <3>1. 0 + m = m /\ m \in 1..(n(1) + n(2) + n(3) + n(4))
      BY <1>6, <2>1
    <3>2. L[m] = part(1)[m]
      BY <1>7, <1>10, <1>11, <2>1, Zenon
    <3>. QED
      BY <1>5, <1>9, <1>12, <2>1, <3>1, <3>2
  <2>2. CASE i = 2
    <3>1. n(1) + m \in 1..(n(1) + n(2) + n(3) + n(4))
      BY <1>6, <2>2
    <3>2. L[n(1) + m] = part(2)[m]
      BY <1>7, <1>10, <1>11, <2>2, Zenon
    <3>. QED
      BY <1>5, <1>9, <1>12, <2>2, <3>1, <3>2, Zenon
  <2>3. CASE i = 3
    <3>1. n(1) + n(2) + m \in 1..(n(1) + n(2) + n(3) + n(4))
      BY <1>6, <2>3
    <3>2. L[n(1) + n(2) + m] = part(3)[m]
      BY <1>7, <1>10, <1>11, <2>3, Zenon
    <3>. QED
      BY <1>5, <1>9, <1>12, <2>3, <3>1, <3>2, Zenon
  <2>4. CASE i = 4
    <3>1. n(1) + n(2) + n(3) + m \in 1..(n(1) + n(2) + n(3) + n(4))
      BY <1>6, <2>4
    <3>2. L[n(1) + n(2) + n(3) + m] = part(4)[m]
      BY <1>7, <1>10, <1>11, <2>4, Zenon
    <3>. QED
      BY <1>5, <1>9, <1>12, <2>4, <3>1, <3>2, Zenon
  <2>. QED
    BY <1>4, <2>1, <2>2, <2>3, <2>4
<1>14. ASSUME NEW k \in DOMAIN Listed(s)
       PROVE  \E i \in Slots : \E m \in 1..n(i) : k = Before(s, i) + m
  <2>1. k \in 1..(n(1) + n(2) + n(3) + n(4))
    BY <1>12
  <2>2. CASE k <= n(1)
    <3>1. k \in 1..n(1) /\ k = Before(s, 1) + k
      BY <1>5, <1>6, <2>1, <2>2
    <3>. QED
      BY <1>4, <3>1
  <2>3. CASE n(1) < k /\ k <= n(1) + n(2)
    <3>1. k - n(1) \in 1..n(2) /\ k = Before(s, 2) + (k - n(1))
      BY <1>5, <1>6, <2>1, <2>3
    <3>. QED
      BY <1>4, <3>1
  <2>4. CASE n(1) + n(2) < k /\ k <= n(1) + n(2) + n(3)
    <3>1. k - (n(1) + n(2)) \in 1..n(3) /\ k = Before(s, 3) + (k - (n(1) + n(2)))
      BY <1>5, <1>6, <2>1, <2>4
    <3>. QED
      BY <1>4, <3>1
  <2>5. CASE n(1) + n(2) + n(3) < k
    <3>1. k - (n(1) + n(2) + n(3)) \in 1..n(4) /\ k = Before(s, 4) + (k - (n(1) + n(2) + n(3)))
      BY <1>5, <1>6, <2>1, <2>5
    <3>. QED
      BY <1>4, <3>1
  <2>. QED
    BY <1>6, <2>1, <2>2, <2>3, <2>4, <2>5
<1>15. \A i \in Slots : Before(s, i) \in Nat
  BY <1>4, <1>5, <1>6
<1>. QED
  BY <1>1, <1>2, <1>13, <1>14, <1>15 DEF n

\* What the fetchers have found when they end is what the list says.
LEMMA GatherTells ==
    ASSUME TypeOK, NEW s \in Seeds, NEW i \in Slots, \A j \in Slots : ListInv(s, j), busy[s] = {},
           all' = [all EXCEPT ![s] = Listed(s)], UNCHANGED <<account, kept, seen>>
    PROVE  SliceTells(s, i)'
<1> DEFINE v == Services(account[s])[i]
           L == Listed(s)
           its == Of(L, v)
<1>1. account[s] \in Accounts /\ all'[s] = L /\ (ByServer(s, i)' <=> ByServer(s, i))
  BY DEF TypeOK, ByServer
<1>2. /\ \A j \in Slots : Before(s, j) \in Nat /\ Len(found[s][j]) \in Nat
      /\ \A j \in Slots : \A m \in 1..Len(found[s][j]) :
            /\ Before(s, j) + m \in DOMAIN L
            /\ L[Before(s, j) + m] = Resource(found[s][j][m], account[s], j, 0)
      /\ \A k \in DOMAIN L : \E j \in Slots : \E m \in 1..Len(found[s][j]) : k = Before(s, j) + m
  BY ListedParts
<1> HIDE DEF L
<1>3. \A j \in Slots : \A m \in 1..Len(found[s][j]) :
          /\ L[Before(s, j) + m].id = found[s][j][m]
          /\ L[Before(s, j) + m].service = Services(account[s])[j]
  <2> TAKE j \in Slots
  <2> TAKE m \in 1..Len(found[s][j])
  <2>1. L[Before(s, j) + m] = Resource(found[s][j][m], account[s], j, 0)
    BY <1>2
  <2>. QED
    BY <2>1 DEF Resource
<1>4. ASSUME NEW k \in its
      PROVE  \E m \in 1..Len(found[s][i]) : k = Before(s, i) + m
  <2>1. PICK j \in Slots : \E m \in 1..Len(found[s][j]) : k = Before(s, j) + m
    BY <1>2 DEF Of
  <2>2. Services(account[s])[j] = Services(account[s])[i]
    BY <1>3, <2>1 DEF Of
  <2>3. j = i
    BY <1>1, <2>2, ServicesDiffer
  <2>. QED
    BY <2>1, <2>3
<1>5. \A m \in 1..Len(found[s][i]) : Before(s, i) + m \in its
  BY <1>2, <1>3 DEF Of
<1> HIDE DEF its
<1>6. \A k \in its : L[k].id \in seen[s][i]
  BY <1>3, <1>4 DEF ListInv
<1>7. \A j, k \in its : L[j].id = L[k].id => j = k
  BY <1>3, <1>4 DEF ListInv
<1>8. ASSUME its # {}, ~ ByServer(s, i), NEW n \in kept[s][i] PROVE \E k \in its : L[k].id = n
  <2>1. PICK k \in its : TRUE
    BY <1>8
  <2>2. PICK m \in 1..Len(found[s][i]) : k = Before(s, i) + m
    BY <1>4
  <2>3. found[s][i] # <<>>
    BY <2>2
  <2>4. PICK l \in 1..Len(found[s][i]) : found[s][i][l] = n
    BY <1>8, <2>3 DEF ListInv
  <2>. QED
    BY <1>3, <1>5, <2>4
<1>. QED
  BY <1>1, <1>6, <1>7, <1>8 DEF SliceTells, its, v

Gathered == {"insert", "snapshot", "stamped", "done"}

\* A list that has been gathered stays, with what was in the cloud meanwhile.
LEMMA ListIsKept ==
    ASSUME TypeOK, [Next]_vars, NEW t \in Seeds, phase'[t] \in Gathered
    PROVE  /\ account' = account
           /\ \/ Gather(t)
              \/ /\ phase[t] \in Gathered /\ all'[t] = all[t]
                 /\ kept'[t] = kept[t] /\ seen'[t] = seen[t]
<1> DEFINE Kept == /\ phase[t] \in Gathered /\ all'[t] = all[t]
                   /\ kept'[t] = kept[t] /\ seen'[t] = seen[t]
<1>1. ASSUME NEW s \in Seeds, Start(s) PROVE account' = account /\ Kept
  BY <1>1 DEF Start, TypeOK, Gathered
<1>2. ASSUME NEW s \in Seeds, Gather(s) PROVE account' = account /\ (Gather(t) \/ Kept)
  <2>1. CASE s = t
    BY <1>2, <2>1 DEF Gather
  <2>2. CASE s # t
    BY <1>2, <2>2 DEF Gather, TypeOK, Gathered, history
  <2>. QED
    BY <2>1, <2>2
<1>3. ASSUME NEW s \in Seeds, ExecRow(s) \/ Stamp(s) \/ Record(s) PROVE account' = account /\ Kept
  <2>1. UNCHANGED <<account, all, kept, seen>>
    BY <1>3 DEF ExecRow, Stamp, Record, history
  <2>2. phase[s] \in Gathered /\ \A r \in Seeds \ {s} : phase'[r] = phase[r]
    BY <1>3 DEF ExecRow, Stamp, Record, Gathered, TypeOK
  <2>. QED
    BY <2>1, <2>2
<1>4. ASSUME NEW s \in Seeds, Exits(s), UNCHANGED account PROVE account' = account /\ Kept
  <2>1. s # t /\ \A r \in Seeds \ {s} : phase'[r] = phase[r] /\ all'[r] = all[r] /\ kept'[r] = kept[r] /\ seen'[r] = seen[r]
    BY <1>4 DEF Exits, TypeOK, Gathered
  <2>. QED
    BY <1>4, <2>1
<1>5. ASSUME NEW s \in Seeds, Commit(s) PROVE account' = account /\ Kept
  <2>1. CASE Exits(s)
    BY <1>4, <1>5, <2>1 DEF Commit
  <2>2. CASE phase' = [phase EXCEPT ![s] = "snapshot"] /\ UNCHANGED <<all, history>>
    BY <1>5, <2>2 DEF Commit, TypeOK, Gathered, history
  <2>. QED
    BY <1>5, <2>1, <2>2 DEF Commit
<1>6. ASSUME NEW s \in Seeds, InsertFails(s) \/ Dies(s) PROVE account' = account /\ Kept
  BY <1>4, <1>6 DEF InsertFails, Dies
<1>7. ASSUME NEW s \in Seeds, NEW i \in Slots, ReadPage(s, i) \/ RequestFails(s, i) \/ Expire(s, i)
      PROVE  account' = account /\ Kept
  BY <1>7 DEF ReadPage, RequestFails, Expire, history
<1>8. ASSUME NEW c \in Churn, Change(c[1], c[2], c[3]) PROVE account' = account /\ Kept
  <2>1. UNCHANGED <<account, phase, all>> /\ phase[t] # "fetch"
    BY <1>8 DEF Change, Gathered
  <2>2. kept'[t] = kept[t] /\ seen'[t] = seen[t]
    BY <1>8, <2>1 DEF Change
  <2>. QED
    BY <2>1, <2>2
<1>9. CASE UNCHANGED vars
  BY <1>9 DEF vars, history
<1>. QED
  BY <1>1, <1>2, <1>3, <1>5, <1>6, <1>7, <1>8, <1>9 DEF Next, Deadlock, AllEnded

\* A seed that has ended well stays so; nobody else's stamp is touched.
LEMMA EndedStays ==
    ASSUME TypeOK, [Next]_vars, NEW t \in Seeds, phase[t] = "done"
    PROVE  phase'[t] = "done" /\ stamp'[t] = stamp[t] /\ all'[t] = all[t] /\ account' = account
<1> DEFINE Same == phase'[t] = "done" /\ stamp'[t] = stamp[t] /\ all'[t] = all[t] /\ account' = account
<1>1. ASSUME NEW s \in Seeds, Start(s) \/ Gather(s) \/ ExecRow(s) \/ Stamp(s) \/ Record(s) PROVE Same
  BY <1>1 DEF Start, Gather, ExecRow, Stamp, Record, TypeOK
<1>2. ASSUME NEW s \in Seeds, s # t, Exits(s), UNCHANGED <<account, stamp>> PROVE Same
  BY <1>2 DEF Exits, TypeOK
<1>3. ASSUME NEW s \in Seeds, Commit(s) PROVE Same
  BY <1>2, <1>3 DEF Commit, TypeOK
<1>4. ASSUME NEW s \in Seeds, InsertFails(s) \/ Dies(s) PROVE Same
  BY <1>2, <1>4 DEF InsertFails, Dies
<1>5. ASSUME NEW s \in Seeds, NEW i \in Slots, ReadPage(s, i) \/ RequestFails(s, i) \/ Expire(s, i) PROVE Same
  BY <1>5 DEF ReadPage, RequestFails, Expire
<1>6. ASSUME NEW c \in Churn, Change(c[1], c[2], c[3]) PROVE Same
  BY <1>6 DEF Change
<1>7. CASE UNCHANGED vars
  BY <1>7 DEF vars
<1>. QED
  BY <1>1, <1>3, <1>4, <1>5, <1>6, <1>7 DEF Next, Deadlock, AllEnded

\* The clock and the stamps, and who adds to the snapshots.
LEMMA ClockStep ==
    ASSUME TypeOK, [Next]_vars
    PROVE  /\ \/ clock' = clock /\ stamp' = stamp
              \/ clock' = clock + 1 /\ \E s \in Seeds : stamp' = [stamp EXCEPT ![s] = clock + 1]
           /\ snapshots' = snapshots \/ \E s \in Seeds : Record(s) /\ snapshots' # snapshots
<1>1. ASSUME NEW s \in Seeds, Stamp(s)
      PROVE  /\ \/ clock' = clock /\ stamp' = stamp
                \/ clock' = clock + 1 /\ stamp' = [stamp EXCEPT ![s] = clock + 1]
             /\ snapshots' = snapshots
  BY <1>1 DEF Stamp
<1>2. ASSUME NEW s \in Seeds, Record(s) PROVE clock' = clock /\ stamp' = stamp
  BY <1>2 DEF Record
<1>3. ASSUME NEW s \in Seeds,
             \/ Start(s) \/ Gather(s) \/ ExecRow(s) \/ InsertFails(s) \/ Commit(s) \/ Dies(s)
             \/ \E i \in Slots : ReadPage(s, i) \/ RequestFails(s, i) \/ Expire(s, i)
      PROVE  clock' = clock /\ stamp' = stamp /\ snapshots' = snapshots
  BY <1>3 DEF Start, Gather, ExecRow, InsertFails, Commit, Dies, ReadPage, RequestFails, Expire
<1>4. ASSUME NEW c \in Churn, Change(c[1], c[2], c[3])
      PROVE  clock' = clock /\ stamp' = stamp /\ snapshots' = snapshots
  BY <1>4 DEF Change
<1>5. CASE UNCHANGED vars
  BY <1>5 DEF vars
<1>. QED
  BY <1>1, <1>2, <1>3, <1>4, <1>5 DEF Next, Deadlock, AllEnded

LEMMA ListedStep == TypeOK /\ FetchInv /\ ListedInv /\ [Next]_vars => ListedInv'
<1> SUFFICES ASSUME TypeOK, FetchInv, ListedInv, [Next]_vars,
                    NEW t \in Seeds, phase'[t] \in Gathered, Real(t)', NEW i \in Slots
             PROVE  SliceTells(t, i)'
  BY DEF ListedInv, Gathered
<1>1. account' = account /\ Real(t)
  BY ListIsKept DEF Real
<1>2. CASE Gather(t)
  <2>1. phase[t] = "fetch" /\ busy[t] = {} /\ all' = [all EXCEPT ![t] = Listed(t)]
        /\ UNCHANGED <<account, kept, seen>>
    BY <1>1, <1>2 DEF Gather, history
  <2>2. \A j \in Slots : ListInv(t, j)
    BY <1>1, <2>1 DEF FetchInv
  <2>. QED
    BY <2>1, <2>2, GatherTells
<1>3. CASE /\ phase[t] \in Gathered /\ all'[t] = all[t]
           /\ kept'[t] = kept[t] /\ seen'[t] = seen[t]
  <2>1. SliceTells(t, i)
    BY <1>1, <1>3 DEF ListedInv, Gathered
  <2>2. ByServer(t, i)' <=> ByServer(t, i)
    BY <1>1 DEF ByServer
  <2>. QED
    BY <1>1, <1>3, <2>1, <2>2 DEF SliceTells
<1>. QED
  BY <1>2, <1>3, ListIsKept

LEMMA TakenStep == TypeOK /\ TakenInv /\ [Next]_vars => TakenInv'
<1> SUFFICES ASSUME TypeOK, TakenInv, [Next]_vars PROVE TakenInv'
  OBVIOUS
<1>1. \A s \in Seeds : stamp'[s] <= clock'
  <2>1. \A s \in Seeds : stamp[s] \in Nat /\ stamp[s] <= clock
    BY DEF TypeOK, TakenInv
  <2>2. stamp \in [Seeds -> Nat] /\ clock \in Nat
    BY DEF TypeOK
  <2>3. CASE clock' = clock /\ stamp' = stamp
    BY <2>1, <2>3
  <2>4. ASSUME NEW s \in Seeds, clock' = clock + 1, stamp' = [stamp EXCEPT ![s] = clock + 1]
        PROVE  \A t \in Seeds : stamp'[t] <= clock'
    <3> TAKE t \in Seeds
    <3>1. CASE t = s
      BY <2>2, <2>4, <3>1
    <3>2. CASE t # s
      BY <2>1, <2>2, <2>4, <3>2
    <3>. QED
      BY <3>1, <3>2
  <2>. QED
    BY <2>3, <2>4, ClockStep
<1>2. ASSUME NEW r \in snapshots
      PROVE  /\ r.by \in Seeds /\ phase'[r.by] = "done"
             /\ r = Snapshot(r.by, r.service)'
             /\ \E k \in DOMAIN all'[r.by] : all'[r.by][k].service = r.service
  <2>1. /\ r.by \in Seeds /\ phase[r.by] = "done"
        /\ r = Snapshot(r.by, r.service)
        /\ \E k \in DOMAIN all[r.by] : all[r.by][k].service = r.service
    BY DEF TakenInv
  <2>2. /\ phase'[r.by] = "done" /\ stamp'[r.by] = stamp[r.by] /\ all'[r.by] = all[r.by]
        /\ account' = account
    BY <2>1, EndedStays
  <2>. QED
    BY <2>1, <2>2 DEF Snapshot
<1>3. ASSUME NEW s \in Seeds, Record(s), NEW k \in DOMAIN all[s], NEW r, r = Snapshot(s, all[s][k].service)
      PROVE  /\ r.by \in Seeds /\ phase'[r.by] = "done"
             /\ r = Snapshot(r.by, r.service)'
             /\ \E l \in DOMAIN all'[r.by] : all'[r.by][l].service = r.service
  <2>1. UNCHANGED <<account, all, stamp>> /\ phase'[s] = "done"
    BY <1>3 DEF Record, TypeOK
  <2>2. r.by = s /\ r.service = all[s][k].service
    BY <1>3 DEF Snapshot
  <2>. QED
    BY <1>3, <2>1, <2>2 DEF Snapshot
<1>4. \A r \in snapshots' : \/ r \in snapshots
                            \/ \E s \in Seeds : Record(s) /\ \E k \in DOMAIN all[s] : r = Snapshot(s, all[s][k].service)
  BY ClockStep DEF Record
<1>. QED
  BY <1>1, <1>2, <1>3, <1>4 DEF TakenInv

\* A snapshot never counts less than what stayed in the cloud all through the
\* fetch, nor more than what was there at some time of it (FetchResources,
\* CreateSnapshot), however large the clouds and however they change.
THEOREM SnapshotsHold == Spec => []SnapshotsTell
<1>1. Init => FetchInv /\ ListedInv /\ TakenInv
  BY DEF Init, FetchInv, ListedInv, TakenInv
<1>2. TypeOK /\ ListedInv /\ TakenInv => SnapshotsTell
  <2> SUFFICES ASSUME TypeOK, ListedInv, TakenInv, NEW r \in snapshots, NEW i \in Slots,
                      Real(r.by), Services(r.account)[i] = r.service
               PROVE  /\ r.count <= Cardinality(seen[r.by][i])
                      /\ ByServer(r.by, i) \/ Cardinality(kept[r.by][i]) <= r.count
    BY DEF SnapshotsTell
  <2> DEFINE s == r.by
             its == Of(all[s], r.service)
             id == [k \in its |-> all[s][k].id]
  <2>1. /\ s \in Seeds /\ phase[s] = "done" /\ r = Snapshot(s, r.service)
        /\ \E k \in DOMAIN all[s] : all[s][k].service = r.service
    BY DEF TakenInv
  <2>2. r.count = Cardinality(its) /\ r.account = account[s] /\ its # {}
    BY <2>1 DEF Snapshot, CountOf, Of
  <2>3. /\ \A k \in its : all[s][k].id \in seen[s][i]
        /\ \A j, k \in its : all[s][j].id = all[s][k].id => j = k
        /\ its # {} /\ ~ ByServer(s, i) => \A n \in kept[s][i] : \E k \in its : all[s][k].id = n
    <3>1. r.service = Services(account[s])[i] /\ Real(s)
      BY <2>2
    <3>2. SliceTells(s, i)
      BY <2>1, <3>1 DEF ListedInv
    <3>. QED
      BY <3>1, <3>2 DEF SliceTells
  <2>4. IsFiniteSet(its) /\ Cardinality(its) \in Nat
    <3>1. its \subseteq 1..Len(all[s]) /\ Len(all[s]) \in Nat
      BY <2>1 DEF Of, TypeOK
    <3>. QED
      <4>1. IsFiniteSet(1..Len(all[s]))
        BY <3>1, UpToFinite
      <4>2. IsFiniteSet(its)
        BY <3>1, <4>1, FS_Subset
      <4>. QED
        BY <4>2, FS_CardinalityType
  <2>5. /\ IsFiniteSet(seen[s][i]) /\ Cardinality(seen[s][i]) \in Nat
        /\ IsFiniteSet(kept[s][i]) /\ Cardinality(kept[s][i]) \in Nat
    BY <2>1, NamesFinite DEF TypeOK
  <2> HIDE DEF its
  <2>6. Cardinality(its) <= Cardinality(seen[s][i])
    <3>1. id \in [its -> seen[s][i]] /\ \A j, k \in its : id[j] = id[k] => j = k
      BY <2>3
    <3>2. id \in Injection(its, seen[s][i])
      BY <3>1 DEF Injection, IsInjective
    <3>. QED
      BY <2>4, <2>5, <3>2, FS_Injection
  <2>7. ASSUME ~ ByServer(s, i) PROVE Cardinality(kept[s][i]) <= Cardinality(its)
    <3> DEFINE place == [n \in kept[s][i] |-> CHOOSE k \in its : all[s][k].id = n]
    <3>1. \A n \in kept[s][i] : place[n] \in its /\ all[s][place[n]].id = n
      BY <2>2, <2>3, <2>7
    <3>2. place \in [kept[s][i] -> its] /\ \A m, n \in kept[s][i] : place[m] = place[n] => m = n
      BY <3>1
    <3>3. place \in Injection(kept[s][i], its)
      BY <3>2 DEF Injection, IsInjective
    <3>. QED
      BY <2>4, <2>5, <3>3, FS_Injection
  <2>. QED
    BY <2>2, <2>6, <2>7
<1>. QED
  BY <1>1, <1>2, InitType, NextType, FetchStep, ListedStep, TakenStep, PTL DEF Spec

\* The trend of a day shows what the last snapshot of a service counted, however
\* many seeds overlapped (ListTrends).
THEOREM TrendsHold == Spec => []TrendsTell
<1>1. Init => TakenInv
  BY DEF Init, TakenInv
<1>2. TypeOK /\ TakenInv => TrendsTell
  <2> SUFFICES ASSUME TypeOK, TakenInv, NEW days \in 1..2, NEW d \in 0..DateOf(clock), NEW v \in AllServices
               PROVE  LET by == {r.by : r \in Shots(days, d, v)}
                      IN  IF by = {} THEN Cell(days, d, v) = NoRow
                          ELSE \E s \in by : /\ \A t \in by : stamp[t] <= stamp[s]
                                             /\ Cell(days, d, v) = Snapshot(s, v)
    BY DEF TrendsTell
  <2> DEFINE rows == Shots(days, d, v)
             dates == {r.taken : r \in rows}
  <2>1. CASE rows = {}
    BY <2>1 DEF Cell
  <2>2. CASE rows # {}
    <3>1. \A r \in rows : /\ r.by \in Seeds /\ r = Snapshot(r.by, v) /\ r.taken = stamp[r.by]
                          /\ r.taken \in Nat /\ r.taken <= clock
      <4> TAKE r \in rows
      <4>1. r \in snapshots /\ r.service = v
        BY DEF Shots, InWindow
      <4>2. r.by \in Seeds /\ r = Snapshot(r.by, v)
        BY <4>1 DEF TakenInv
      <4>3. r.taken = stamp[r.by]
        BY <4>2 DEF Snapshot
      <4>. QED
        BY <4>2, <4>3 DEF TypeOK, TakenInv
    <3> HIDE DEF rows
    <3>2. dates \in SUBSET Nat /\ dates # {} /\ \A x \in dates : x <= clock
      BY <2>2, <3>1
    <3>3. PICK m \in dates : \A y \in dates : m >= y
      BY <3>2, GreatestOfBounded DEF TypeOK
    <3>4. \E r \in rows : \A q \in rows : q.taken <= r.taken
      BY <3>1, <3>2, <3>3
    <3>5. Cell(days, d, v) \in rows /\ \A q \in rows : q.taken <= Cell(days, d, v).taken
      BY <2>2, <3>4 DEF Cell, rows
    <3>6. PICK r : r = Cell(days, d, v)
      OBVIOUS
    <3>7. r \in rows /\ r = Snapshot(r.by, v) /\ \A q \in rows : stamp[q.by] <= stamp[r.by]
      BY <3>1, <3>5, <3>6
    <3> DEFINE by == {q.by : q \in rows}
    <3>8. r.by \in by /\ by # {} /\ \A t \in by : stamp[t] <= stamp[r.by]
      BY <3>7
    <3>9. \E s \in by : (\A t \in by : stamp[t] <= stamp[s]) /\ r = Snapshot(s, v)
      BY <3>7, <3>8
    <3>. QED
      BY <3>6, <3>8, <3>9 DEF rows
  <2>. QED
    BY <2>1, <2>2
<1>. QED
  BY <1>1, <1>2, InitType, NextType, TakenStep, PTL DEF Spec
=============================================================================
