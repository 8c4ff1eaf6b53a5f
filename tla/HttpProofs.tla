------------------------------ MODULE HttpProofs ------------------------------
(***************************************************************************)
(* Safety of both sides of HTTP, for every value of the constants: of the  *)
(* server's endpoints and of the agent's tools over them, and of the       *)
(* retrying round tripper and a call of a language model on top of it.     *)
(*                                                                         *)
(* The endpoints read the tables each in its own way.  What they owe each  *)
(* other follows from an invariant on the state (ApiInv): the table has    *)
(* one row of each id, snapshots are of the past, and every answer that is *)
(* remembered is one its handler gives of these tables at the moment the   *)
(* answer was given, whatever the clock says by now.                       *)
(***************************************************************************)
EXTENDS AgentTools, LLMProvider, NumberFacts, TLAPS

-----------------------------------------------------------------------------
(* The invariant of the tables and the answers, and its steps.             *)

\* The rows of resources: one of each id, with the cost and the service of a
\* listed one.
Row(r) == r.id \in Nat /\ r.cost \in Nat /\ r.born \in Int /\ r.service \in Range(Names)
TableHolds == /\ IsFiniteSet(table)
              /\ \A r \in table : Row(r)
              /\ \A r, x \in table : r.id = x.id => r = x

SnapshotsHold == /\ clock \in Nat
                 /\ IsFiniteSet(snapshots)
                 /\ \A s \in snapshots : s.taken \in 0..clock /\ s.cost \in Nat

SeedHolds == unsaved \in Scans \cup {{}}
SourceHolds == source \in Sources \cup {"snapshots"}

DataHold == TableHolds /\ SnapshotsHold /\ SeedHolds /\ SourceHolds

\* What is remembered of a request is an answer to it at its moment.
Valid(q) == WellFormed(q) /\ Invalid(q) = {}
Right(a) == Valid(a.request) /\ a.answer \in Handled(a.request, a.at)
AnswersHold == \A a \in Served : a.at \in 0..clock /\ Right(a)

ApiInv == DataHold /\ AnswersHold

\* A scan's resources.
LEMMA ScanHolds ==
    ASSUME NEW scan \in Scans
    PROVE  IsFiniteSet(scan) /\ (\A r \in scan : Row(r)) /\ \A r, x \in scan : r.id = x.id => r = x
BY CostApiAssumption DEF CostApiAssumption, Row

\* What rows cost is a natural.
LEMMA CostIsNatural ==
    ASSUME NEW S, IsFiniteSet(S), \A r \in S : r.cost \in Nat
    PROVE  CostOf(S) \in Nat
<1>1. [r \in S |-> r.cost] \in [S -> Nat]
  OBVIOUS
<1>. QED
  BY <1>1, SumOfNaturals DEF CostOf

\* Upserting a scan keeps one row of each id.
LEMMA UpsertKeeps ==
    ASSUME NEW scan \in Scans, TableHolds, Upsert(scan)
    PROVE  TableHolds'
<1> DEFINE kept == {row \in table : \A r \in scan : r.id # row.id}
           f == [r \in scan |-> Upserted(r)]
           new == {f[r] : r \in scan}
<1>1. table' = kept \cup new
  BY DEF Upsert
<1>2. IsFiniteSet(table) /\ (\A r \in table : Row(r)) /\ (\A r, x \in table : r.id = x.id => r = x)
  BY DEF TableHolds
<1>3. \A r \in scan : Row(r)
  BY ScanHolds
<1>4. ASSUME NEW r \in scan PROVE Row(Upserted(r)) /\ Upserted(r).id = r.id
  <2>1. CASE Find(r.id) = {}
    BY <1>3, <2>1 DEF Upserted
  <2>2. CASE Find(r.id) # {}
    <3>1. PICK row : row = CHOOSE w \in Find(r.id) : TRUE
      OBVIOUS
    <3>2. row \in table /\ row.id = r.id
      BY <2>2, <3>1 DEF Find
    <3>3. Upserted(r) = [id |-> row.id, account |-> row.account, service |-> row.service,
                         cost |-> r.cost, idle |-> r.idle, born |-> row.born, large |-> row.large]
      BY <2>2, <3>1 DEF Upserted
    <3>4. Row(r) /\ Row(row)
      BY <1>2, <1>3, <3>2
    <3>. QED
      BY <3>2, <3>3, <3>4 DEF Row
  <2>. QED
    BY <2>1, <2>2
<1>5. IsFiniteSet(kept) /\ IsFiniteSet(new)
  <2>1. IsFiniteSet(scan)
    BY ScanHolds
  <2>2. IsFiniteSet(kept)
    BY <1>2, FS_Subset
  <2>. HIDE DEF f
  <2>3. IsFiniteSet(new)
    BY <2>1, ImageIsFinite
  <2>. QED
    BY <2>2, <2>3
<1>6. IsFiniteSet(table')
  BY <1>1, <1>5, FS_Union
<1>7. \A r \in scan : f[r] = Upserted(r)
  OBVIOUS
<1>. HIDE DEF f
<1>8. \A r \in table' : Row(r)
  BY <1>1, <1>2, <1>4, <1>7
<1>9. \A r, x \in scan : r.id = x.id => r = x
  BY ScanHolds
<1>10. \A r, x \in table' : r.id = x.id => r = x
  <2>1. \A r \in new : \E x \in scan : r = f[x] /\ r.id = x.id
    BY <1>4, <1>7
  <2>2. \A r \in kept, x \in new : r.id # x.id
    BY <2>1
  <2>3. \A r, x \in new : r.id = x.id => r = x
    BY <1>9, <2>1
  <2>4. \A r, x \in kept : r.id = x.id => r = x
    BY <1>2
  <2>. HIDE DEF kept, new
  <2>. QED
    BY <1>1, <2>2, <2>3, <2>4
<1>. QED
  BY <1>6, <1>8, <1>10 DEF TableHolds, Row

\* Recording what the seed costs keeps the snapshots in the past.
LEMMA RecordKeeps ==
    ASSUME SnapshotsHold, SeedHolds, Record
    PROVE  SnapshotsHold'
<1>1. unsaved \in Scans /\ clock' = clock + 1 /\ snapshots' = snapshots \cup Snapshot(unsaved)
  BY DEF SeedHolds, Record
<1>2. IsFiniteSet(unsaved) /\ \A r \in unsaved : Row(r)
  BY <1>1, ScanHolds
<1>3. clock \in Nat /\ IsFiniteSet(snapshots) /\ \A s \in snapshots : s.taken \in 0..clock /\ s.cost \in Nat
  BY DEF SnapshotsHold
<1> DEFINE spent(r) == CostOf({x \in unsaved : x.service = r.service})
           f == [r \in unsaved |-> [taken |-> clock, account |-> r.account, service |-> r.service,
                     cost |-> spent(r)]]
           new == {f[r] : r \in unsaved}
<1>4. ASSUME NEW r \in unsaved PROVE spent(r) \in Nat
  <2>1. IsFiniteSet({x \in unsaved : x.service = r.service})
    BY <1>2, FS_Subset
  <2>. QED
    BY <1>2, <2>1, CostIsNatural DEF Row
<1>5. Snapshot(unsaved) = new
  BY DEF Snapshot
<1>. HIDE DEF spent
<1>6. \A s \in new : s.taken = clock /\ s.cost \in Nat
  BY <1>4
<1>7. IsFiniteSet(new)
  <2>. HIDE DEF f
  <2>. QED
    BY <1>2, ImageIsFinite
<1>. HIDE DEF new
<1>8. IsFiniteSet(snapshots')
  BY <1>1, <1>3, <1>5, <1>7, FS_Union
<1>9. \A s \in snapshots' : s.taken \in 0..clock' /\ s.cost \in Nat
  BY <1>1, <1>3, <1>5, <1>6
<1>. QED
  BY <1>1, <1>3, <1>8, <1>9 DEF SnapshotsHold

-----------------------------------------------------------------------------
\* As long as the tables stay, so does every answer of a moment.
LEMMA FindingsStay ==
    ASSUME UNCHANGED table, NEW moment
    PROVE  Findings(moment)' = Findings(moment) /\ Analyze(moment)' = Analyze(moment)
<1>1. Findings(moment)' = Findings(moment)
  BY DEF Findings
<1>2. Analyze(moment)' = Analyze(moment)
  BY <1>1 DEF Analyze, Arranged
<1>. QED
  BY <1>1, <1>2

\* The lists of resources depend on the table and the moment alone,
LEMMA ListsStay ==
    ASSUME UNCHANGED table, NEW q, NEW moment
    PROVE  /\ handleResources' = handleResources
           /\ handleFindings(q, moment)' = handleFindings(q, moment)
           /\ handleSummary(moment)' = handleSummary(moment)
           /\ handleRecommendations(q, moment)' = handleRecommendations(q, moment)
           /\ handleInventory(q)' = handleInventory(q)
<1>1. handleResources' = handleResources
  BY DEF handleResources
<1>2. handleFindings(q, moment)' = handleFindings(q, moment)
  BY FindingsStay DEF handleFindings, Sorted
<1>3. handleSummary(moment)' = handleSummary(moment)
  BY FindingsStay DEF handleSummary
<1>4. handleRecommendations(q, moment)' = handleRecommendations(q, moment)
  <2>1. Findings(moment)' = Findings(moment)
    BY FindingsStay
  <2>. QED
    BY <2>1 DEF handleRecommendations, Arranged
<1>5. handleInventory(q)' = handleInventory(q)
  BY DEF handleInventory, Arranged
<1>. QED
  BY <1>1, <1>2, <1>3, <1>4, <1>5

\* the trends on the snapshots and the moment,
LEMMA TrendsStay ==
    ASSUME UNCHANGED snapshots, NEW q, NEW moment
    PROVE  handleTrends(q, moment)' = handleTrends(q, moment) /\ handleCostTrends(q, moment)' = handleCostTrends(q, moment)
<1>1. \A from : ListTrends(from)' = ListTrends(from)
  BY DEF ListTrends, Recent
<1>2. handleTrends(q, moment)' = handleTrends(q, moment)
  BY <1>1 DEF handleTrends, PointsOf
<1>3. CostPoints(q, moment)' = CostPoints(q, moment)
  BY <1>1 DEF CostPoints, PointsOf
<1>4. handleCostTrends(q, moment)' = handleCostTrends(q, moment)
  BY <1>3 DEF handleCostTrends
<1>. QED
  BY <1>2, <1>4

\* the costs on the source and the snapshots,
LEMMA CostsStay ==
    ASSUME UNCHANGED <<source, snapshots>>, NEW q
    PROVE  handleCostSummary(q)' = handleCostSummary(q) /\ handleCostByService(q)' = handleCostByService(q)
<1>1. \A start, end : Costs(start, end)' = Costs(start, end)
  BY DEF Costs, SnapshotCosts, InPeriod, BilledCosts
<1>2. handleCostSummary(q)' = handleCostSummary(q)
  BY <1>1 DEF handleCostSummary
<1>3. handleCostByService(q)' = handleCostByService(q)
  BY <1>1 DEF handleCostByService, Arranged
<1>. QED
  BY <1>2, <1>3

\* and so does every answer on one of them.
LEMMA HandledStays ==
    ASSUME UNCHANGED <<source, table, snapshots>>, NEW q, NEW moment
    PROVE  Handled(q, moment)' = Handled(q, moment)
BY ListsStay, TrendsStay, CostsStay DEF Handled

\* The invariant holds of the empty tables.
LEMMA InitHolds == ASSUME ApiInit PROVE ApiInv
<1>1. TableHolds /\ SeedHolds /\ SourceHolds
  BY FS_EmptySet DEF ApiInit, TableHolds, SeedHolds, SourceHolds
<1>2. SnapshotsHold
  BY FS_EmptySet, CostApiAssumption DEF CostApiAssumption, ApiInit, SnapshotsHold
<1>3. AnswersHold
  BY DEF ApiInit, AnswersHold, Served
<1>. QED
  BY <1>1, <1>2, <1>3 DEF ApiInv, DataHold

\* The tables stay, and with them every answer there is; the clock may go on.
LEMMA AnswersStay ==
    ASSUME ApiInv, UNCHANGED <<source, table, unsaved, snapshots>>,
           clock' \in Nat, clock <= clock',
           \A a \in Served' : a \in Served \/ (a.at \in 0..clock' /\ Right(a))
    PROVE  ApiInv'
<1>1. clock \in Nat
  BY DEF ApiInv, DataHold, SnapshotsHold
<1>2. SnapshotsHold'
  BY <1>1 DEF ApiInv, DataHold, SnapshotsHold
<1>3. DataHold'
  BY <1>2 DEF ApiInv, DataHold, TableHolds, SeedHolds, SourceHolds
<1>4. AnswersHold'
  <2> SUFFICES ASSUME NEW a \in Served' PROVE a.at \in 0..clock' /\ Right(a)'
    BY DEF AnswersHold
  <2>1. a.at \in 0..clock' /\ Right(a)
    BY <1>1 DEF ApiInv, AnswersHold
  <2>2. Handled(a.request, a.at)' = Handled(a.request, a.at)
    BY HandledStays
  <2>. QED
    BY <2>1, <2>2 DEF Right, Valid, WellFormed, Invalid
<1>. QED
  BY <1>3, <1>4 DEF ApiInv

\* Nothing is remembered, and the tables hold.
LEMMA NothingRemembered ==
    ASSUME DataHold', answers' = {}
    PROVE  ApiInv'
BY DEF ApiInv, AnswersHold, Served

\* Every step keeps it: one step per action.
LEMMA StepHolds == ASSUME ApiInv, [ApiNext]_apiVars PROVE ApiInv'
<1>1. ASSUME NEW scan \in Scans, Upsert(scan) PROVE ApiInv'
  <2>1. TableHolds'
    BY <1>1, UpsertKeeps DEF ApiInv, DataHold
  <2>2. SnapshotsHold' /\ SeedHolds' /\ SourceHolds' /\ answers' = {}
    BY <1>1 DEF Upsert, ApiInv, DataHold, SnapshotsHold, SeedHolds, SourceHolds
  <2>. QED
    BY <2>1, <2>2, NothingRemembered DEF DataHold
<1>2. CASE Record
  <2>1. SnapshotsHold'
    BY <1>2, RecordKeeps DEF ApiInv, DataHold
  <2>2. TableHolds' /\ SeedHolds' /\ SourceHolds' /\ answers' = {}
    BY <1>2 DEF Record, ApiInv, DataHold, TableHolds, SeedHolds, SourceHolds
  <2>. QED
    BY <2>1, <2>2, NothingRemembered DEF DataHold
<1>3. CASE Pass
  <2>1. clock \in Nat
    BY DEF ApiInv, DataHold, SnapshotsHold
  <2>2. clock' \in Nat /\ clock <= clock' /\ Served' = Served
    BY <1>3, <2>1 DEF Pass, Served
  <2>. QED
    BY <1>3, <2>2, AnswersStay DEF Pass
<1>4. clock \in Nat /\ (UNCHANGED clock => clock' \in Nat /\ clock <= clock')
  BY DEF ApiInv, DataHold, SnapshotsHold
<1>5. ASSUME NEW session \in Sessions, NEW q \in session, Answered(q) PROVE ApiInv'
  <2>1. WellFormed(q)
    BY CostApiAssumption DEF CostApiAssumption
  <2>2. PICK answer \in Handled(q, clock) :
           answers' = Served \cup {[request |-> q, at |-> clock, answer |-> answer]}
    BY <1>5 DEF Answered
  <2>3. Invalid(q) = {} /\ UNCHANGED <<source, table, unsaved, snapshots, clock>>
    BY <1>5 DEF Answered
  <2>4. \A a \in Served' : a \in Served \/ a = [request |-> q, at |-> clock, answer |-> answer]
    BY <2>2 DEF Served
  <2>5. ASSUME NEW a \in Served', a \notin Served PROVE a.at \in 0..clock' /\ Right(a)
    <3>1. a.request = q /\ a.at = clock /\ a.answer = answer
      BY <2>4, <2>5
    <3>2. clock \in 0..clock'
      BY <1>4, <2>3
    <3>. QED
      BY <2>1, <2>2, <2>3, <3>1, <3>2 DEF Right, Valid
  <2>. QED
    BY <1>4, <2>3, <2>5, AnswersStay
<1>6. ASSUME NEW session \in Sessions, NEW q \in session, Refused(q) PROVE ApiInv'
  <2>1. Served' = {}
    BY <1>6 DEF Refused, Served
  <2>. QED
    BY <1>4, <1>6, <2>1, AnswersStay DEF Refused
<1>7. CASE Forget
  <2>1. Served' = {}
    BY <1>7 DEF Forget, Served
  <2>. QED
    BY <1>4, <1>7, <2>1, AnswersStay DEF Forget
<1>8. CASE UNCHANGED apiVars
  <2>1. Served' = Served
    BY <1>8 DEF apiVars, Served
  <2>. QED
    BY <1>4, <1>8, <2>1, AnswersStay DEF apiVars
<1>. QED
  BY <1>1, <1>2, <1>3, <1>5, <1>6, <1>7, <1>8 DEF ApiNext

\* Whatever the clock says by now, what the server remembers of a request is an
\* answer to it, of the tables there are, at the moment it was given; and the
\* tables hold one row of each resource.
THEOREM AnswersStand == ApiSpec => []ApiInv
BY InitHolds, StepHolds, PTL DEF ApiSpec

\* What the model is told of a call is what the call can come to.
Told == observed # NoCall => observed.call \in Calls /\ observed.of \in Observations(observed.call)

ToolsInv == ApiInv /\ Told

\* What a call can come to depends on the tables alone.
LEMMA ObservationsStay ==
    ASSUME UNCHANGED <<source, table, snapshots, clock>>, NEW c
    PROVE  Observations(c)' = Observations(c)
<1>1. Data(c)' = Data(c)
  BY HandledStays DEF Data
<1>. QED
  BY <1>1 DEF Observations

\* Calls keep the invariant, and the server's steps do.
LEMMA ToolsStepHolds == ASSUME ToolsInv, [ToolsNext]_toolVars PROVE ToolsInv'
<1>1. ASSUME NEW c \in Calls, ToolCall(c) PROVE ToolsInv'
  <2>1. ApiInv'
    BY <1>1, StepHolds DEF ToolCall, ToolsInv
  <2>2. UNCHANGED <<source, table, snapshots, clock>>
    BY <1>1 DEF ToolCall, apiVars
  <2>3. Observations(c)' = Observations(c)
    BY <2>2, ObservationsStay
  <2>4. PICK o \in Observations(c) : observed' = [call |-> c, of |-> o]
    BY <1>1 DEF ToolCall
  <2>5. observed'.call = c /\ observed'.of = o
    BY <2>4
  <2>. QED
    BY <2>1, <2>3, <2>5 DEF ToolsInv, Told
<1>2. CASE LookedAt
  <2>1. ApiInv'
    BY <1>2, StepHolds DEF LookedAt, ToolsInv
  <2>. QED
    BY <1>2, <2>1 DEF LookedAt, ToolsInv, Told
<1>3. CASE observed = NoCall /\ ApiNext /\ UNCHANGED observed
  <2>1. ApiInv'
    BY <1>3, StepHolds DEF ToolsInv
  <2>. QED
    BY <1>3, <2>1 DEF ToolsInv, Told
<1>4. CASE UNCHANGED toolVars
  <2>1. ApiInv'
    BY <1>4, StepHolds DEF ToolsInv, toolVars, apiVars
  <2>2. UNCHANGED <<source, table, snapshots, clock>> /\ UNCHANGED observed
    BY <1>4 DEF toolVars
  <2>3. Observations(observed.call)' = Observations(observed.call)
    <3> DEFINE c == observed.call
    <3>1. \A d : Observations(d)' = Observations(d)
      BY <2>2, ObservationsStay
    <3>. QED
      BY <2>2, <3>1
  <2>. QED
    BY <2>1, <2>2, <2>3 DEF ToolsInv, Told
<1>. QED
  BY <1>1, <1>2, <1>3, <1>4 DEF ToolsNext

\* A tool call asks and changes nothing: the server behaves as it does without.
THEOREM ToolsOnlyAsk == ToolsSpec => ApiSpec
<1>1. ToolsInit => ApiInit
  BY DEF ToolsInit
<1>2. [ToolsNext]_toolVars => [ApiNext]_apiVars
  BY DEF ToolsNext, ToolCall, LookedAt, toolVars, apiVars
<1>. QED
  BY <1>1, <1>2, PTL DEF ToolsSpec, ApiSpec

\* What the model is told of a call is one of the outcomes of that call.
THEOREM AnswersAreHandled == ToolsSpec => []ToolsInv
<1>1. ToolsInit => ToolsInv
  BY InitHolds DEF ToolsInit, ToolsInv, Told
<1>. QED
  BY <1>1, ToolsStepHolds, PTL DEF ToolsSpec

-----------------------------------------------------------------------------
(* Lists, findings and costs, and what a tool asks for.                    *)

\* c is the first k elements of s.
Begins(c, s, k, S) == c \in [1..k -> S] /\ Len(c) = k /\ \A i \in 1..k : c[i] = s[i]

\* What is cut from a list begins it.
LEMMA CutList ==
    ASSUME NEW n \in Nat, NEW S, NEW s \in [1..n -> S], NEW m \in Nat
    PROVE  Fewer(m, n) \in 0..n /\ Begins(FirstOf(s, m), s, Fewer(m, n), S)
<1>1. s \in Seq(S) /\ Len(s) = n
  OBVIOUS
<1>2. PICK k : k = Fewer(m, n)
  OBVIOUS
<1>3. k \in 0..n /\ FirstOf(s, m) = SubSeq(s, 1, k)
  BY <1>1, <1>2 DEF Fewer, FirstOf
<1>4. PICK c : c = SubSeq(s, 1, k)
  OBVIOUS
<1>5. c = [i \in 1..k |-> s[i]] /\ Len(c) = k
  BY <1>1, <1>3, <1>4
<1>6. \A i \in 1..k : s[i] \in S
  BY <1>3
<1>7. c \in [1..k -> S] /\ \A i \in 1..k : c[i] = s[i]
  BY <1>5, <1>6
<1>. QED
  BY <1>2, <1>3, <1>4, <1>5, <1>7 DEF Begins

\* The arrangements of a finite set hold each element once.
LEMMA ArrangementHolds ==
    ASSUME NEW S, IsFiniteSet(S), NEW s \in SetToSeqs(S)
    PROVE  /\ Cardinality(S) \in Nat
           /\ s \in [1..Cardinality(S) -> S]
           /\ \A i, j \in 1..Cardinality(S) : s[i] = s[j] => i = j
           /\ \A x \in S : \E k \in 1..Cardinality(S) : s[k] = x
<1>1. Cardinality(S) \in Nat
  BY FS_CardinalityType
<1>2. s \in [1..Cardinality(S) -> S] /\ \A i, j \in 1..Cardinality(S) : s[i] = s[j] => i = j
  BY DEF SetToSeqs
<1>3. s \in Injection(1..Cardinality(S), S)
  BY <1>2 DEF Injection, IsInjective
<1>4. IsFiniteSet(1..Cardinality(S)) /\ Cardinality(1..Cardinality(S)) = Cardinality(S)
  BY <1>1, UpTo
<1>5. s \in Surjection(1..Cardinality(S), S)
  BY <1>3, <1>4, FS_Injection
<1>. QED
  BY <1>1, <1>2, <1>5 DEF Surjection

\* A length is positive, and one within the limit is left as it is.
LEMMA ClampedHolds ==
    ASSUME NEW asked \in Int, NEW list \in Lists
    PROVE  /\ Clamped(asked, list) \in Nat \ {0}
           /\ asked \in 1..Limit[list] => Clamped(asked, list) = asked
<1>1. Default[list] \in Nat \ {0} /\ Limit[list] \in Nat \ {0}
  BY CostApiAssumption DEF CostApiAssumption
<1>. QED
  BY <1>1 DEF Clamped

-----------------------------------------------------------------------------
\* Findings, bills and costs are finitely many.
LEMMA FindingsFinite == ASSUME TableHolds, NEW moment PROVE IsFiniteSet(Findings(moment))
<1> DEFINE S == {x \in table : Flagged(x, moment)}
           f == [r \in S |-> Finding(r)]
<1>1. IsFiniteSet(S)
  BY FS_Subset DEF TableHolds
<1>2. Findings(moment) = {f[r] : r \in S}
  BY DEF Findings
<1>. HIDE DEF f, S
<1>. QED
  BY <1>1, <1>2, ImageIsFinite

\* Costs are finitely many, whatever the source.
LEMMA CostsFinite ==
    ASSUME DataHold, NEW start, NEW end
    PROVE  IsFiniteSet(Costs(start, end))
<1>1. CASE source = "snapshots"
  <2> DEFINE S == InPeriod(start, end)
             key == [s \in S |-> <<s.account, s.service>>]
             keys == {key[s] : s \in S}
             cloud(k) == providerForServiceAccount(k[2], k[1])
             amount(k) == (AverageOf(k[1], k[2], S) * periodDays(start, end)) \div 30
             cost == [k \in keys |-> [provider |-> cloud(k), service |-> k[2],
                        usd |-> SumFunction([l \in {m \in keys : cloud(m) = cloud(k) /\ m[2] = k[2]} |-> amount(l)])]]
  <2>1. keys = {<<s.account, s.service>> : s \in S}
    OBVIOUS
  <2>2. Costs(start, end) = {cost[k] : k \in keys}
    BY <1>1, <2>1 DEF Costs, SnapshotCosts
  <2>3. IsFiniteSet(S)
    BY FS_Subset DEF InPeriod, DataHold, SnapshotsHold
  <2>4. IsFiniteSet(keys)
    <3>. HIDE DEF S, key
    <3>. QED
      BY <2>3, ImageIsFinite
  <2>. HIDE DEF keys, cost
  <2>. QED
    BY <2>2, <2>4, ImageIsFinite
<1>2. CASE source # "snapshots"
  <2> DEFINE its == {line \in Bill[source] : line.day \in start..end}
             cost == [line \in its |-> [provider |-> source, service |-> line.service,
                        usd |-> CostOf({l \in its : l.service = line.service})]]
  <2>1. Costs(start, end) = {cost[line] : line \in its}
    BY <1>2 DEF Costs, BilledCosts
  <2>2. source \in Sources \cap Clouds
    BY <1>2, CostApiAssumption DEF CostApiAssumption, DataHold, SourceHolds
  <2>3. IsFiniteSet(its)
    BY <2>2, CostApiAssumption, FS_Subset DEF CostApiAssumption
  <2>. HIDE DEF its, cost
  <2>. QED
    BY <2>1, <2>3, ImageIsFinite
<1>. QED
  BY <1>1, <1>2

-----------------------------------------------------------------------------
\* What a tool accepts the server finds valid.
LEMMA FilterIsKnown ==
    ASSUME NEW name, NEW S, name # None => Normal(name) \in S
    PROVE  Filter(name) \in S \cup {Absent}
BY DEF Filter

\* Accepted arguments make a request with nothing invalid in it.
LEMMA AcceptedIsValid ==
    ASSUME NEW c \in Calls, Accepted(c)
    PROVE  Valid(Request(c))
<1>1. /\ c.tool \in Tools
      /\ c.tool \in {"cost_summary", "cost_by_service"} => c.start.day \in Int /\ c.end.day \in Int
      /\ c.tool = "cost_trends" => c.days \in Int
      /\ c.tool \in {"cost_by_service", "recommendations", "inventory"} => c.top \in Int
  BY AgentToolsAssumption DEF AgentToolsAssumption
<1>2. c.tool \in {"cost_summary", "cost_by_service"} => c.start.day <= c.end.day
  BY DEF Accepted, Dated, CallDates
<1>3. Known(c)
  BY DEF Accepted
<1>4. CASE c.tool = "cost_summary"
  <2>1. Request(c) = [to |-> "cost-summary", start |-> c.start.day, end |-> c.end.day,
                      providers |-> {Normal(p) : p \in c.providers}]
    BY <1>4 DEF Request
  <2>2. {Normal(p) : p \in c.providers} \subseteq Clouds
    BY <1>3, <1>4 DEF Known
  <2>. QED
    BY <1>1, <1>2, <1>4, <2>1, <2>2 DEF Valid, WellFormed, Invalid
<1>5. CASE c.tool = "cost_by_service"
  <2>1. Request(c) = [to |-> "cost-by-service", start |-> c.start.day, end |-> c.end.day,
                      provider |-> Normal(c.provider), top |-> c.top]
    BY <1>5 DEF Request
  <2>2. Normal(c.provider) \in Clouds
    BY <1>3, <1>5 DEF Known
  <2>. QED
    BY <1>1, <1>2, <1>5, <2>1, <2>2 DEF Valid, WellFormed, Invalid
<1>6. CASE c.tool = "recommendations"
  <2>1. Request(c) = [to |-> "recommendations", provider |-> Filter(c.provider),
                      severity |-> Filter(c.severity), top |-> c.top]
    BY <1>6 DEF Request
  <2>2. Filter(c.provider) \in Clouds \cup {Absent} /\ Filter(c.severity) \in Severities \cup {Absent}
    BY <1>3, <1>6, FilterIsKnown DEF Known
  <2>. QED
    BY <1>1, <1>6, <2>1, <2>2 DEF Valid, WellFormed, Invalid
<1>7. CASE c.tool = "cost_trends"
  <2>1. Request(c) = [to |-> "cost-trends", provider |-> Filter(c.provider), days |-> c.days]
    BY <1>7 DEF Request
  <2>2. Filter(c.provider) \in Clouds \cup {Absent}
    BY <1>3, <1>7, FilterIsKnown DEF Known
  <2>. QED
    BY <1>1, <1>7, <2>1, <2>2 DEF Valid, WellFormed, Invalid
<1>8. CASE c.tool = "inventory"
  <2>1. Request(c) = [to |-> "inventory", provider |-> Filter(c.provider), top |-> c.top]
    BY <1>8 DEF Request
  <2>2. Filter(c.provider) \in Clouds \cup {Absent}
    BY <1>3, <1>8, FilterIsKnown DEF Known
  <2>. QED
    BY <1>1, <1>8, <2>1, <2>2 DEF Valid, WellFormed, Invalid
<1>. QED
  BY <1>1, <1>4, <1>5, <1>6, <1>7, <1>8 DEF Tools

\* Numbers in order.
LEMMA InOrderHolds ==
    ASSUME NEW S, IsFiniteSet(S), S \subseteq Int
    PROVE  /\ Cardinality(S) \in Nat
           /\ InOrder(S) \in [1..Cardinality(S) -> S]
           /\ \A j, k \in 1..Cardinality(S) : j < k => InOrder(S)[j] < InOrder(S)[k]
           /\ \A x \in S : \E k \in 1..Cardinality(S) : InOrder(S)[k] = x
<1>1. /\ Cardinality(S) \in Nat
      /\ \A k \in 1..Cardinality(S) : Ranked(S, k) \in S
      /\ \A j, k \in 1..Cardinality(S) : j < k => Ranked(S, j) < Ranked(S, k)
      /\ \A x \in S : \E k \in 1..Cardinality(S) : Ranked(S, k) = x
  BY NumbersByRank
<1>2. InOrder(S) = [k \in 1..Cardinality(S) |-> Ranked(S, k)]
  BY DEF InOrder, Ranked
<1>. QED
  BY <1>1, <1>2

-----------------------------------------------------------------------------
\* Later ticks are on later days.
LEMMA DayHolds ==
    /\ \A t \in Nat : Day(t) \in Nat
    /\ \A s, t \in Nat : s <= t => Day(s) <= Day(t)
<1>1. TicksPerDay \in Nat /\ TicksPerDay > 0
  BY CostApiAssumption DEF CostApiAssumption
<1>2. ASSUME NEW t \in Nat PROVE /\ Day(t) \in Nat
                                 /\ Day(t) * TicksPerDay <= t
                                 /\ t < Day(t) * TicksPerDay + TicksPerDay
  BY <1>1 DEF Day
<1>3. ASSUME NEW s \in Nat, NEW t \in Nat, s <= t PROVE Day(s) <= Day(t)
  <2>1. PICK d, e : d = Day(s) /\ e = Day(t)
    OBVIOUS
  <2>2. d \in Nat /\ e \in Nat /\ d * TicksPerDay <= s /\ t < e * TicksPerDay + TicksPerDay
    BY <1>2, <2>1
  <2>3. CASE e < d
    <3>1. e + 1 <= d
      BY <2>2, <2>3
    <3>2. (e + 1) * TicksPerDay <= d * TicksPerDay
      BY <1>1, <2>2, <3>1
    <3>3. (e + 1) * TicksPerDay = e * TicksPerDay + TicksPerDay
      BY <1>1, <2>2
    <3>4. PICK p, r : p = d * TicksPerDay /\ r = e * TicksPerDay
      OBVIOUS
    <3>5. p \in Int /\ r \in Int
      BY <1>1, <2>2, <3>4
    <3>6. r + TicksPerDay <= p /\ p <= s /\ t < r + TicksPerDay
      BY <2>2, <3>2, <3>3, <3>4
    <3>. QED
      BY <1>1, <1>3, <3>5, <3>6
  <2>. QED
    BY <2>1, <2>2, <2>3
<1>. QED
  BY <1>2, <1>3

\* A day has a snapshot in the window if and only if it has a latest one.
LEMMA DaysOfTrends ==
    ASSUME SnapshotsHold, NEW from
    PROVE  /\ IsFiniteSet({Day(s.taken) : s \in ListTrends(from)})
           /\ {Day(s.taken) : s \in ListTrends(from)} \subseteq Nat
           /\ {Day(s.taken) : s \in ListTrends(from)} = {Day(s.taken) : s \in Recent(from)}
<1>1. IsFiniteSet(snapshots) /\ clock \in Nat /\ \A s \in snapshots : s.taken \in 0..clock
  BY DEF SnapshotsHold
<1>2. ListTrends(from) \subseteq Recent(from) /\ Recent(from) \subseteq snapshots
  BY DEF ListTrends, Recent
<1>3. IsFiniteSet({Day(s.taken) : s \in ListTrends(from)})
  <2> DEFINE S == ListTrends(from)
             f == [s \in S |-> Day(s.taken)]
  <2>1. IsFiniteSet(S)
    BY <1>1, <1>2, FS_Subset
  <2>2. {Day(s.taken) : s \in S} = {f[s] : s \in S}
    OBVIOUS
  <2>. HIDE DEF f, S
  <2>3. IsFiniteSet({f[s] : s \in S})
    BY <2>1, ImageIsFinite
  <2>. QED
    BY <2>2, <2>3 DEF S
<1>4. {Day(s.taken) : s \in ListTrends(from)} \subseteq Nat
  BY <1>1, <1>2, DayHolds
<1>5. ASSUME NEW s \in Recent(from) PROVE \E t \in ListTrends(from) : Day(t.taken) = Day(s.taken)
  <2> DEFINE Alike == {t \in Recent(from) : Day(t.taken) = Day(s.taken) /\ t.service = s.service}
             Ticks == {t.taken : t \in Alike}
  <2>1. Ticks \in SUBSET Nat /\ Ticks # {} /\ \A x \in Ticks : x <= clock
    BY <1>1, <1>2
  <2>2. PICK m \in Ticks : \A x \in Ticks : m >= x
    <3>. HIDE DEF Ticks
    <3>. QED
      BY <1>1, <2>1, GreatestOfBounded
  <2>3. PICK t \in Alike : t.taken = m
    OBVIOUS
  <2>4. \A x \in Alike : x.taken <= t.taken
    <3>1. \A x \in Alike : x.taken \in Ticks
      OBVIOUS
    <3>2. Ticks \subseteq Nat
      BY <2>1
    <3>. HIDE DEF Ticks, Alike
    <3>. QED
      BY <2>2, <2>3, <3>1, <3>2
  <2>5. t \in ListTrends(from)
    BY <2>3, <2>4 DEF ListTrends
  <2>. QED
    BY <2>3, <2>5
<1>. QED
  BY <1>2, <1>3, <1>4, <1>5

\* The points of a trend: one for each of its days, in order.
Dates(from) == InOrder({Day(s.taken) : s \in ListTrends(from)})
DayCount(from) == Cardinality({Day(s.taken) : s \in ListTrends(from)})
LatestOf(from, date) == {s \in ListTrends(from) : Day(s.taken) = date}
Its(S, filter) == {s \in S : Matches(providerForServiceAccount(s.service, Absent), filter)}

\* The dates of a trend are the days with a snapshot in the window, in order.
LEMMA DatesHold ==
    ASSUME SnapshotsHold, NEW from
    PROVE  /\ DayCount(from) \in Nat
           /\ DOMAIN Dates(from) = 1..DayCount(from)
           /\ \A i \in 1..DayCount(from) : Dates(from)[i] \in Nat
           /\ \A j, k \in 1..DayCount(from) : j < k => Dates(from)[j] < Dates(from)[k]
           /\ Range(Dates(from)) = {Day(s.taken) : s \in Recent(from)}
<1> DEFINE S == {Day(s.taken) : s \in ListTrends(from)}
<1>1. IsFiniteSet(S) /\ S \subseteq Nat /\ S \subseteq Int /\ S = {Day(s.taken) : s \in Recent(from)}
  BY DaysOfTrends
<1>. HIDE DEF S
<1>2. /\ Cardinality(S) \in Nat
      /\ InOrder(S) \in [1..Cardinality(S) -> S]
      /\ \A j, k \in 1..Cardinality(S) : j < k => InOrder(S)[j] < InOrder(S)[k]
      /\ \A x \in S : \E k \in 1..Cardinality(S) : InOrder(S)[k] = x
  BY <1>1, InOrderHolds
<1>3. Dates(from) = InOrder(S) /\ DayCount(from) = Cardinality(S)
  BY DEF Dates, DayCount, S
<1>4. Range(InOrder(S)) = S
  BY <1>2 DEF Range
<1>5. \A i \in 1..Cardinality(S) : InOrder(S)[i] \in Nat
  BY <1>1, <1>2
<1>6. DOMAIN InOrder(S) = 1..Cardinality(S)
  BY <1>2
<1>. QED
  BY <1>1, <1>2, <1>3, <1>4, <1>5, <1>6

\* A trend since some moment, of one cloud or of all.
TrendOf(from, filter) == PointsOf(from, LAMBDA S : roundCents(CostOf(Its(S, filter))))

\* What the agent is told of a trend.
LEMMA CostPointsAre ==
    ASSUME NEW q, NEW moment
    PROVE  CostPoints(q, moment) = TrendOf(Since(Window(q), moment), q.provider)
BY DEF CostPoints, PointsOf, TrendOf, Its

\* What a point of a trend tells.
LEMMA PointsAre ==
    ASSUME SnapshotsHold, NEW from, NEW filter
    PROVE  /\ DOMAIN TrendOf(from, filter) = 1..DayCount(from)
           /\ \A i \in 1..DayCount(from) :
                LET date == Dates(from)[i]
                    cost == roundCents(CostOf(Its(LatestOf(from, date), filter)))
                IN  /\ TrendOf(from, filter)[i] = [date |-> date, cost |-> cost]
                    /\ TrendOf(from, filter)[i].date = date
                    /\ TrendOf(from, filter)[i].cost = cost
<1> DEFINE dates == Dates(from)
           cost(i) == roundCents(CostOf(Its(LatestOf(from, dates[i]), filter)))
<1>1. TrendOf(from, filter) = [i \in DOMAIN dates |-> [date |-> dates[i], cost |-> cost(i)]]
  BY DEF TrendOf, PointsOf, Dates, LatestOf
<1>2. DOMAIN dates = 1..DayCount(from)
  BY DatesHold
<1>. HIDE DEF dates, cost
<1>3. /\ DOMAIN TrendOf(from, filter) = 1..DayCount(from)
      /\ \A i \in 1..DayCount(from) : /\ TrendOf(from, filter)[i] = [date |-> dates[i], cost |-> cost(i)]
                                      /\ TrendOf(from, filter)[i].date = dates[i]
                                      /\ TrendOf(from, filter)[i].cost = cost(i)
  BY <1>1, <1>2
<1>. QED
  BY <1>3 DEF dates, cost

\* What a request is to have in common with a call.
LEMMA LimitsHold ==
    ASSUME NEW asked, NEW list \in Lists, InRange(asked, list)
    PROVE  asked \in Nat /\ asked \in 1..Limit[list] /\ Clamped(asked, list) = asked
<1>1. ToolLimit[list] \in Nat /\ ToolLimit[list] <= Limit[list]
  BY AgentToolsAssumption DEF AgentToolsAssumption
<1>2. Limit[list] \in Nat
  BY CostApiAssumption DEF CostApiAssumption
<1>3. asked \in Int /\ asked \in 1..Limit[list]
  BY <1>1, <1>2 DEF InRange
<1>. QED
  BY <1>3, ClampedHolds

\* The lengths of the lists that are cut from arrangements.
LEMMA CutLength ==
    ASSUME NEW S, IsFiniteSet(S), NEW s \in SetToSeqs(S), NEW m \in Nat
    PROVE  Len(FirstOf(s, m)) = Fewer(m, Cardinality(S))
<1>1. Cardinality(S) \in Nat /\ s \in [1..Cardinality(S) -> S]
  BY ArrangementHolds
<1>. QED
  BY <1>1, CutList DEF Begins

\* A cost summary has no cloud but those asked for.
LEMMA SummaryAsAsked ==
    ASSUME NEW c, Accepted(c), c.tool = "cost_summary", NEW d \in Handled(Request(c), clock)
    PROVE  JustAsAsked(c, d)
<1> DEFINE q == Request(c)
           its == {rec \in Costs(q.start, q.end) : q.providers = {} \/ rec.provider \in q.providers}
<1>1. q.to = "cost-summary" /\ q.providers = {Normal(p) : p \in c.providers}
  BY DEF Request
<1>2. d \in handleCostSummary(q)
  BY <1>1 DEF Handled
<1>3. d.providers = [p \in {rec.provider : rec \in its} |-> roundCents(UsdOf({rec \in its : rec.provider = p}))]
  BY <1>2 DEF handleCostSummary
<1>4. DOMAIN d.providers = {rec.provider : rec \in its}
  BY <1>3
<1>5. c.providers # {} => {rec.provider : rec \in its} \subseteq {Normal(p) : p \in c.providers}
  BY <1>1
<1>. QED
  BY <1>4, <1>5 DEF JustAsAsked

\* A list of services is as long as asked for, or whole.
LEMMA ServicesAsAsked ==
    ASSUME DataHold, NEW c, Accepted(c), c.tool = "cost_by_service", NEW d \in Handled(Request(c), clock)
    PROVE  JustAsAsked(c, d)
<1> DEFINE q == Request(c)
           its == {rec \in Costs(q.start, q.end) : rec.provider = q.provider}
<1>1. /\ q.to = "cost-by-service" /\ q.start = c.start.day /\ q.end = c.end.day
      /\ q.provider = Normal(c.provider) /\ q.top = c.top
  BY DEF Request
<1>2. InRange(c.top, "services")
  BY DEF Accepted, Bounded
<1>3. c.top \in Nat /\ c.top \in 1..Limit["services"] /\ Clamped(c.top, "services") = c.top
  BY <1>2, LimitsHold DEF Lists
<1>4. Limit["services"] \in Nat
  BY CostApiAssumption DEF CostApiAssumption, Lists
<1>5. (IF q.top > Limit["services"] THEN Default["services"] ELSE Clamped(q.top, "services")) = c.top
  BY <1>1, <1>3, <1>4
<1>6. d \in handleCostByService(q)
  BY <1>1 DEF Handled
<1>7. PICK list \in SetToSeqs(its) : d.list = FirstOf(list, c.top)
  <2>. HIDE DEF q
  <2>. QED
    BY <1>5, <1>6 DEF handleCostByService, Arranged
<1>8. IsFiniteSet(its)
  BY CostsFinite, FS_Subset
<1>9. Len(d.list) = Fewer(c.top, Cardinality(its))
  <2>. HIDE DEF its
  <2>. QED
    BY <1>3, <1>7, <1>8, CutLength
<1>. QED
  BY <1>1, <1>9 DEF JustAsAsked

\* What an answer to a request for recommendations is.
Recommended(q, moment) ==
    {f \in Findings(moment) : /\ Matches(providerForServiceAccount(f.service, Absent), q.provider)
                              /\ Matches(f.severity, q.severity)}
Worth(f, g) == \/ roundCents(f.savings) > roundCents(g.savings)
               \/ roundCents(f.savings) = roundCents(g.savings) /\ f.id < g.id

\* An answer to a request for recommendations, and its arrangement.
LEMMA RecommendationsAre ==
    ASSUME NEW q, NEW moment, NEW x \in handleRecommendations(q, moment)
    PROVE  /\ x.count = Cardinality(Recommended(q, moment))
           /\ x.savings = roundCents(Savings(Recommended(q, moment)))
           /\ x.bySeverity = BySeverity(Recommended(q, moment))
           /\ \E items \in SetToSeqs(Recommended(q, moment)) :
                /\ x.list = FirstOf(items, Clamped(q.top, "recommendations"))
                /\ \A i, j \in DOMAIN items : i < j => ~ Worth(items[j], items[i])
BY DEF handleRecommendations, Arranged, Recommended, Worth

\* Recommendations are as many as asked for, or all.
LEMMA RecommendationsAsAsked ==
    ASSUME DataHold, NEW c, Accepted(c), c.tool = "recommendations", NEW d \in Handled(Request(c), clock)
    PROVE  JustAsAsked(c, d)
<1> DEFINE q == Request(c)
<1>1. q.to = "recommendations" /\ q.top = c.top
  BY DEF Request
<1>2. InRange(c.top, "recommendations")
  BY DEF Accepted, Bounded
<1>3. c.top \in Nat /\ Clamped(q.top, "recommendations") = c.top
  BY <1>1, <1>2, LimitsHold DEF Lists
<1>4. d \in handleRecommendations(q, clock)
  BY <1>1 DEF Handled
<1>. HIDE DEF q
<1>5. PICK items \in SetToSeqs(Recommended(q, clock)) : d.list = FirstOf(items, c.top)
  BY <1>3, <1>4, RecommendationsAre
<1>6. IsFiniteSet(Recommended(q, clock))
  BY FindingsFinite, FS_Subset DEF Recommended, DataHold
<1>7. Len(d.list) = Fewer(c.top, d.count)
  BY <1>3, <1>4, <1>5, <1>6, CutLength, RecommendationsAre
<1>. QED
  BY <1>7 DEF JustAsAsked

\* What an answer to a request for the inventory is.
Listed(q) == {r \in table : Matches(ProviderOf(r), q.provider)}
AlikeOf(q, r) == {x \in Listed(q) : ProviderOf(x) = ProviderOf(r) /\ x.service = r.service}
ServiceOf(q, r) == [provider |-> ProviderOf(r), service |-> r.service,
                    count |-> Cardinality(AlikeOf(q, r)), cost |-> roundCents(CostOf(AlikeOf(q, r)))]
Services(q) == {ServiceOf(q, r) : r \in Listed(q)}
Dearer(a, b) == a.cost > b.cost \/ (a.cost = b.cost /\ Rank(a.service) < Rank(b.service))
OfCloud(q, p) == {r \in Listed(q) : ProviderOf(r) = p}

\* An answer to a request for the inventory, and its arrangement.
LEMMA InventoryIs ==
    ASSUME NEW q, NEW x \in handleInventory(q)
    PROVE  /\ x.count = Cardinality(Listed(q))
           /\ x.cost = roundCents(CostOf(Listed(q)))
           /\ x.services = Cardinality(Services(q))
           /\ x.byProvider = [p \in Clouds |-> [count |-> Cardinality(OfCloud(q, p)),
                                                cost |-> roundCents(CostOf(OfCloud(q, p)))]]
           /\ \E list \in SetToSeqs(Services(q)) :
                /\ x.list = FirstOf(list, Clamped(q.top, "inventory"))
                /\ \A i, j \in DOMAIN list : i < j => ~ Dearer(list[j], list[i])
<1> DEFINE Lined == {s \in SetToSeqs(Services(q)) : \A i, j \in DOMAIN s : i < j => ~ Dearer(s[j], s[i])}
<1>1. handleInventory(q) =
         {[count |-> Cardinality(Listed(q)), cost |-> roundCents(CostOf(Listed(q))),
           services |-> Cardinality(Services(q)),
           byProvider |-> [p \in Clouds |-> [count |-> Cardinality(OfCloud(q, p)),
                                             cost |-> roundCents(CostOf(OfCloud(q, p)))]],
           list |-> FirstOf(list, Clamped(q.top, "inventory"))] : list \in Lined}
  BY Zenon DEF handleInventory, Arranged, Listed, AlikeOf, ServiceOf, Services, Dearer, OfCloud
<1>2. PICK list \in Lined : x =
          [count |-> Cardinality(Listed(q)), cost |-> roundCents(CostOf(Listed(q))),
           services |-> Cardinality(Services(q)),
           byProvider |-> [p \in Clouds |-> [count |-> Cardinality(OfCloud(q, p)),
                                             cost |-> roundCents(CostOf(OfCloud(q, p)))]],
           list |-> FirstOf(list, Clamped(q.top, "inventory"))]
  BY <1>1
<1>3. list \in SetToSeqs(Services(q)) /\ \A i, j \in DOMAIN list : i < j => ~ Dearer(list[j], list[i])
  OBVIOUS
<1>. HIDE DEF Lined
<1>. QED
  BY <1>2, <1>3

\* Inventories are finite.
LEMMA ServicesFinite == ASSUME TableHolds, NEW q PROVE IsFiniteSet(Listed(q)) /\ IsFiniteSet(Services(q))
<1> DEFINE f == [r \in Listed(q) |-> ServiceOf(q, r)]
<1>1. IsFiniteSet(Listed(q))
  BY FS_Subset DEF TableHolds, Listed
<1>2. Services(q) = {f[r] : r \in Listed(q)}
  BY DEF Services
<1>. HIDE DEF f
<1>. QED
  BY <1>1, <1>2, ImageIsFinite

\* An inventory is as long as asked for, or whole.
LEMMA InventoryAsAsked ==
    ASSUME DataHold, NEW c, Accepted(c), c.tool = "inventory", NEW d \in Handled(Request(c), clock)
    PROVE  JustAsAsked(c, d)
<1> DEFINE q == Request(c)
<1>1. q.to = "inventory" /\ q.top = c.top
  BY DEF Request
<1>2. InRange(c.top, "inventory")
  BY DEF Accepted, Bounded
<1>3. c.top \in Nat /\ Clamped(q.top, "inventory") = c.top
  BY <1>1, <1>2, LimitsHold DEF Lists
<1>4. d \in handleInventory(q)
  BY <1>1 DEF Handled
<1>. HIDE DEF q
<1>5. PICK list \in SetToSeqs(Services(q)) : d.list = FirstOf(list, c.top)
  BY <1>3, <1>4, InventoryIs
<1>6. IsFiniteSet(Services(q))
  BY ServicesFinite DEF DataHold
<1>7. Len(d.list) = Fewer(c.top, d.services)
  <2>1. d.services = Cardinality(Services(q))
    BY <1>4, InventoryIs
  <2>. QED
    BY <1>3, <1>5, <1>6, <2>1, CutLength
<1>. QED
  BY <1>7 DEF JustAsAsked

\* A trend has the days of the window asked for.
LEMMA TrendsAsAsked ==
    ASSUME DataHold, NEW c, Accepted(c), c.tool = "cost_trends", NEW d \in Handled(Request(c), clock)
    PROVE  JustAsAsked(c, d)
<1> DEFINE q == Request(c)
<1>0. SnapshotsHold
  BY DEF DataHold
<1>1. q.to = "cost-trends" /\ q.days = c.days
  BY DEF Request
<1>2. InRange(c.days, "trends")
  BY DEF Accepted, Bounded
<1>3. c.days \in Nat /\ Window(q) = c.days
  BY <1>1, <1>2, LimitsHold DEF Lists, Window
<1>4. d \in handleCostTrends(q, clock)
  BY <1>1 DEF Handled
<1>5. PICK from : from = Since(c.days, clock)
  OBVIOUS
<1>6. d.points = TrendOf(from, q.provider)
  <2>1. d.points = CostPoints(q, clock)
    BY <1>4 DEF handleCostTrends
  <2>. QED
    BY <1>3, <1>5, <2>1, CostPointsAre
<1>. HIDE DEF q
<1>7. DOMAIN d.points = DOMAIN Dates(from) /\ \A i \in DOMAIN d.points : d.points[i].date = Dates(from)[i]
  <2>1. DOMAIN Dates(from) = 1..DayCount(from)
    BY <1>0, DatesHold
  <2>2. DOMAIN TrendOf(from, q.provider) = 1..DayCount(from)
    BY <1>0, PointsAre
  <2>3. ASSUME NEW i \in 1..DayCount(from) PROVE TrendOf(from, q.provider)[i].date = Dates(from)[i]
    BY <1>0, PointsAre
  <2>4. DOMAIN d.points = 1..DayCount(from) /\ \A i \in 1..DayCount(from) : d.points[i].date = Dates(from)[i]
    BY <1>6, <2>2, <2>3
  <2>. QED
    BY <2>1, <2>4
<1>8. {p.date : p \in Range(d.points)} = Range(Dates(from))
  BY <1>7 DEF Range
<1>9. Recent(from) = {x \in snapshots : clock - x.taken <= c.days * TicksPerDay}
  <2>1. PICK w : w = c.days * TicksPerDay
    OBVIOUS
  <2>2. w \in Int /\ from = clock - w
    BY <1>3, <1>5, <2>1, CostApiAssumption DEF CostApiAssumption, Since
  <2>3. clock \in Int /\ \A x \in snapshots : x.taken \in Int
    BY <1>0 DEF SnapshotsHold
  <2>4. \A x \in snapshots : x.taken >= from <=> clock - x.taken <= w
    BY <2>2, <2>3
  <2>. QED
    BY <2>1, <2>4 DEF Recent
<1>10. Range(Dates(from)) = {Day(s.taken) : s \in Recent(from)}
  BY <1>0, DatesHold
<1>. QED
  BY <1>8, <1>9, <1>10 DEF JustAsAsked

\* The invariant has what the tools promise the model.
LEMMA InvIsWord == ToolsInv => TakenAtItsWord
<1> SUFFICES ASSUME ToolsInv, observed # NoCall,
                    NEW c, c = observed.call, NEW o, o = observed.of
             PROVE  /\ ("error" \in DOMAIN o /\ o.error \notin {"argument", "transport", "reply", "unauthorized", "query_failed"}) =>
                          o.error = "invalid_date_range" /\ Short(c)
                    /\ "data" \in DOMAIN o => JustAsAsked(c, o.data)
  BY DEF TakenAtItsWord
<1>1. DataHold /\ c \in Calls /\ o \in Observations(c)
  BY DEF ToolsInv, Told, ApiInv
<1>2. CASE ~ Accepted(c)
  BY <1>1, <1>2 DEF Observations
<1>3. CASE Accepted(c)
  <2>1. Valid(Request(c))
    BY <1>1, <1>3, AcceptedIsValid
  <2>2. o \in {[error |-> e] : e \in Failures(c)} \/ o \in {[data |-> d] : d \in Data(c)}
    BY <1>1, <1>3 DEF Observations
  <2>3. CASE o \in {[error |-> e] : e \in Failures(c)}
    <3>1. o.error \in Failures(c) /\ "data" \notin DOMAIN o
      BY <2>3
    <3>2. ~ Short(c) => Failures(c) \subseteq {"unauthorized", "query_failed", "transport", "reply"}
      BY <2>1 DEF Failures, Refusals, Codes, Valid
    <3>3. Short(c) => Failures(c) \subseteq {"unauthorized", "invalid_date_range", "transport", "reply"}
      BY DEF Failures, Refusals
    <3>. QED
      BY <3>1, <3>2, <3>3
  <2>4. CASE o \in {[data |-> d] : d \in Data(c)}
    <3>1. "error" \notin DOMAIN o /\ o.data \in Data(c)
      BY <2>4
    <3>2. o.data \in Handled(Request(c), clock)
      BY <3>1 DEF Data
    <3>3. c.tool \in Tools
      BY <1>1, AgentToolsAssumption DEF AgentToolsAssumption
    <3>4. JustAsAsked(c, o.data)
      BY <1>1, <1>3, <3>2, <3>3, SummaryAsAsked, ServicesAsAsked, RecommendationsAsAsked,
         InventoryAsAsked, TrendsAsAsked DEF Tools
    <3>. QED
      BY <3>1, <3>4
  <2>. QED
    BY <2>2, <2>3, <2>4
<1>. QED
  BY <1>2, <1>3

\* No argument that a tool accepts is refused, cut down or replaced by the server.
THEOREM ServerTakesTools == ToolsSpec => []TakenAtItsWord
BY AnswersAreHandled, InvIsWord, PTL

-----------------------------------------------------------------------------
(* The findings in the order of a request, page by page.                   *)

\* What a rule finds in a row.
LEMMA FindingHolds ==
    ASSUME TableHolds, NEW moment, NEW f \in Findings(moment)
    PROVE  /\ f.severity \in Severities
           /\ f.service \in Range(Names) \cap {"rds", "ebs", "ec2", "lambda"}
           /\ f.id \in Nat /\ f.cost \in Nat /\ f.savings \in Nat /\ f.savings <= f.cost
           /\ \E r \in table : /\ Flagged(r, moment) /\ f = Finding(r)
                              /\ f.id = r.id /\ f.service = r.service /\ f.cost = r.cost
<1>1. PICK r \in table : Flagged(r, moment) /\ f = Finding(r)
  BY DEF Findings
<1>2. r.id \in Nat /\ r.cost \in Nat /\ r.service \in Range(Names)
  BY DEF TableHolds, Row
<1>3. r.service \in {"rds", "ebs", "ec2", "lambda"}
  BY <1>1 DEF Flagged
<1>4. CASE r.service = "rds"
  <2>1. f = [id |-> r.id, service |-> r.service, severity |-> "medium", cost |-> r.cost, savings |-> r.cost \div 2]
    BY <1>1, <1>4 DEF Finding
  <2>2. r.cost \div 2 \in Nat /\ r.cost \div 2 <= r.cost
    BY <1>2
  <2>3. f.severity = "medium" /\ f.id = r.id /\ f.service = r.service /\ f.cost = r.cost /\ f.savings = r.cost \div 2
    BY <2>1
  <2>. QED
    BY <1>1, <1>2, <1>3, <2>2, <2>3 DEF Severities
<1>5. CASE r.service = "lambda"
  <2>1. f = [id |-> r.id, service |-> r.service, severity |-> "low", cost |-> r.cost, savings |-> (r.cost * 3) \div 10]
    BY <1>1, <1>5 DEF Finding
  <2>2. (r.cost * 3) \div 10 \in Nat /\ (r.cost * 3) \div 10 <= r.cost
    BY <1>2
  <2>3. f.severity = "low" /\ f.id = r.id /\ f.service = r.service /\ f.cost = r.cost /\ f.savings = (r.cost * 3) \div 10
    BY <2>1
  <2>. QED
    BY <1>1, <1>2, <1>3, <2>2, <2>3 DEF Severities
<1>6. CASE r.service \in {"ebs", "ec2"}
  <2>1. f = [id |-> r.id, service |-> r.service, severity |-> "high", cost |-> r.cost, savings |-> r.cost]
    BY <1>1, <1>6 DEF Finding
  <2>2. f.severity = "high" /\ f.id = r.id /\ f.service = r.service /\ f.cost = r.cost /\ f.savings = r.cost
    BY <2>1
  <2>. QED
    BY <1>1, <1>2, <1>3, <2>2 DEF Severities
<1>. QED
  BY <1>3, <1>4, <1>5, <1>6

\* Of a name the rank is a number, and its own.
LEMMA RankHolds ==
    /\ \A x \in Range(Names) : Rank(x) \in Int /\ Names[Rank(x)] = x
    /\ \A x, y \in Range(Names) : Rank(x) = Rank(y) => x = y
<1>1. Names \in Seq(Range(Names))
  BY CostApiAssumption DEF CostApiAssumption
<1>2. DOMAIN Names = 1..Len(Names) /\ Len(Names) \in Nat
  BY <1>1
<1>3. ASSUME NEW x \in Range(Names) PROVE Rank(x) \in Int /\ Names[Rank(x)] = x
  <2>1. \E i \in DOMAIN Names : Names[i] = x
    BY DEF Range
  <2>2. Rank(x) \in DOMAIN Names /\ Names[Rank(x)] = x
    BY <2>1 DEF Rank
  <2>. QED
    BY <1>2, <2>2
<1>. QED
  BY <1>3

-----------------------------------------------------------------------------
\* Any order by a number is one that a sort may use.
LEMMA KeysOrder ==
    ASSUME NEW S, NEW key \in [S -> Int], NEW R, \A x, y \in S : <<x, y>> \in R <=> key[x] > key[y]
    PROVE  WeakOrder(S, R)
BY DEF WeakOrder

AheadPairs(q, moment) == {p \in Findings(moment) \X Findings(moment) : Ahead(q, p[1], p[2])}
RulesPairs(moment) == {p \in Findings(moment) \X Findings(moment) : Cents(p[1].savings) > Cents(p[2].savings)}

\* A request's order is one that a sort may use; it orders nothing without a column.
LEMMA AheadIsOrder ==
    ASSUME TableHolds, NEW moment, NEW q
    PROVE  /\ WeakOrder(Findings(moment), AheadPairs(q, moment))
           /\ \A f, g \in Findings(moment) : <<f, g>> \in AheadPairs(q, moment) <=> Ahead(q, f, g)
           /\ q.sort = Absent => \A f, g \in Findings(moment) : ~ Ahead(q, f, g)
<1>1. \A f, g \in Findings(moment) : <<f, g>> \in AheadPairs(q, moment) <=> Ahead(q, f, g)
  BY DEF AheadPairs
<1>2. ASSUME NEW f \in Findings(moment) PROVE SortKey(f, q.sort) \in Int
  <2>1. f.severity \in Severities /\ f.service \in Range(Names) /\ f.cost \in Nat /\ f.savings \in Nat
    BY FindingHolds
  <2>2. SeverityRank[f.severity] \in Int
    BY <2>1 DEF Severities, SeverityRank
  <2>3. Rank(f.service) \in Int
    BY <2>1, RankHolds
  <2>. QED
    BY <2>1, <2>2, <2>3 DEF SortKey
<1> DEFINE key == [f \in Findings(moment) |-> IF q.order = "asc" THEN - SortKey(f, q.sort) ELSE SortKey(f, q.sort)]
<1>3. key \in [Findings(moment) -> Int]
  BY <1>2
<1>4. \A f, g \in Findings(moment) : Ahead(q, f, g) <=> key[f] > key[g]
  BY <1>2 DEF Ahead
<1>. HIDE DEF key
<1>5. WeakOrder(Findings(moment), AheadPairs(q, moment))
  BY <1>1, <1>3, <1>4, KeysOrder
<1>6. ASSUME q.sort = Absent, NEW f \in Findings(moment), NEW g \in Findings(moment) PROVE ~ Ahead(q, f, g)
  <2>1. Absent \notin {"severity", "service", "cost", "savings"}
    BY Zenon DEF Absent
  <2>2. SortKey(f, Absent) = 0 /\ SortKey(g, Absent) = 0
    BY <2>1 DEF SortKey
  <2>. QED
    BY <1>6, <2>2 DEF Ahead
<1>. QED
  BY <1>1, <1>5, <1>6

\* So is the order in which the rules leave the findings.
LEMMA RulesOrder ==
    ASSUME TableHolds, NEW moment
    PROVE  /\ WeakOrder(Findings(moment), RulesPairs(moment))
           /\ \A f, g \in Findings(moment) : <<f, g>> \in RulesPairs(moment) <=> Cents(f.savings) > Cents(g.savings)
           /\ \A f \in Findings(moment) : Cents(f.savings) \in Int
<1>1. \A f, g \in Findings(moment) : <<f, g>> \in RulesPairs(moment) <=> Cents(f.savings) > Cents(g.savings)
  BY DEF RulesPairs
<1>2. \A f \in Findings(moment) : Cents(f.savings) \in Int
  BY FindingHolds DEF Cents
<1> DEFINE key == [f \in Findings(moment) |-> Cents(f.savings)]
<1>3. key \in [Findings(moment) -> Int] /\ \A f, g \in Findings(moment) : <<f, g>> \in RulesPairs(moment) <=> key[f] > key[g]
  BY <1>1, <1>2
<1>. HIDE DEF key
<1>. QED
  BY <1>1, <1>2, <1>3, KeysOrder

\* The sorted findings of a request.
Arrangement(r, R, moment) ==
    LET n == Cardinality(Findings(moment))
    IN  /\ r \in [1..n -> Findings(moment)]
        /\ \A j, k \in 1..n : r[j] = r[k] => j = k
        /\ \A f \in Findings(moment) : \E k \in 1..n : r[k] = f
        /\ \A j, k \in 1..n : j < k => <<r[k], r[j]>> \notin R

\* The analyzer lists each finding once, by savings.
LEMMA AnalyzeArranges ==
    ASSUME TableHolds, NEW moment, NEW found \in Analyze(moment)
    PROVE  Cardinality(Findings(moment)) \in Nat /\ Arrangement(found, RulesPairs(moment), moment)
<1>1. found \in SetToSeqs(Findings(moment))
  BY DEF Analyze, Arranged
<1>2. \A i, j \in DOMAIN found : i < j => ~ (Cents(found[j].savings) > Cents(found[i].savings))
  BY DEF Analyze, Arranged
<1>3. /\ Cardinality(Findings(moment)) \in Nat
      /\ found \in [1..Cardinality(Findings(moment)) -> Findings(moment)]
      /\ \A i, j \in 1..Cardinality(Findings(moment)) : found[i] = found[j] => i = j
      /\ \A x \in Findings(moment) : \E k \in 1..Cardinality(Findings(moment)) : found[k] = x
  BY <1>1, ArrangementHolds, FindingsFinite
<1>4. \A j, k \in 1..Cardinality(Findings(moment)) : j < k => <<found[k], found[j]>> \notin RulesPairs(moment)
  BY <1>2, <1>3, RulesOrder
<1>. QED
  BY <1>3, <1>4 DEF Arrangement

\* A sorted answer lists each finding once, in the order of the request.
LEMMA SortedArranges ==
    ASSUME TableHolds, NEW moment, NEW q, NEW x \in handleFindings(q, moment)
    PROVE  \E r : /\ x = PageOf(q, r)
                  /\ Arrangement(r, AheadPairs(q, moment), moment)
                  /\ q.sort = Absent => Arrangement(r, RulesPairs(moment), moment)
<1> DEFINE n == Cardinality(Findings(moment))
           R == AheadPairs(q, moment)
<1>1. PICK found \in Analyze(moment) : x = PageOf(q, Sorted(found, LAMBDA f, g : Ahead(q, f, g)))
  BY DEF handleFindings
<1>2. n \in Nat /\ Arrangement(found, RulesPairs(moment), moment)
  BY AnalyzeArranges
<1>3. found \in [1..n -> Findings(moment)] /\ DOMAIN found = 1..n
  BY <1>2 DEF Arrangement
<1>4. WeakOrder(Findings(moment), R) /\ \A f, g \in Findings(moment) : <<f, g>> \in R <=> Ahead(q, f, g)
  BY AheadIsOrder
<1>5. PICK r : r = StablySorted(found, R)
  OBVIOUS
<1>6. \A j, k \in DOMAIN found : Ahead(q, found[j], found[k]) <=> <<found[j], found[k]>> \in R
  BY <1>3, <1>4
<1>7. Sorted(found, LAMBDA f, g : Ahead(q, f, g)) = r
  <2> DEFINE D == DOMAIN found
             at(i) == Cardinality({j \in D :
                        Ahead(q, found[j], found[i]) \/ (j <= i /\ ~ Ahead(q, found[i], found[j]))})
  <2>1. Sorted(found, LAMBDA f, g : Ahead(q, f, g)) = [k \in D |-> found[CHOOSE i \in D : at(i) = k]]
    BY Zenon DEF Sorted
  <2>2. \A i \in D : at(i) = StablePlace(found, R)[i]
    <3> SUFFICES ASSUME NEW i \in D PROVE at(i) = StablePlace(found, R)[i]
      OBVIOUS
    <3>. HIDE DEF D, R
    <3>1. {j \in D : Ahead(q, found[j], found[i]) \/ (j <= i /\ ~ Ahead(q, found[i], found[j]))}
            = {j \in D : <<found[j], found[i]>> \in R \/ (j <= i /\ <<found[i], found[j]>> \notin R)}
      BY <1>6 DEF D
    <3>2. StablePlace(found, R)[i] = Cardinality({j \in D :
                        <<found[j], found[i]>> \in R \/ (j <= i /\ <<found[i], found[j]>> \notin R)})
      BY DEF StablePlace, D
    <3>. QED
      BY <3>1, <3>2
  <2>. HIDE DEF at, R
  <2>3. \A k \in D : (CHOOSE i \in D : at(i) = k) = (CHOOSE i \in D : StablePlace(found, R)[i] = k)
    BY <2>2
  <2>4. r = [k \in D |-> found[CHOOSE i \in D : StablePlace(found, R)[i] = k]]
    BY <1>5 DEF StablySorted
  <2>. HIDE DEF D
  <2>. QED
    BY <2>1, <2>3, <2>4
<1>. HIDE DEF n, R
<1>8. /\ \E p : Permutes(p, n, found, r)
      /\ r \in [1..n -> Findings(moment)]
      /\ \A j, k \in 1..n : j < k => <<r[k], r[j]>> \notin R
      /\ (\A f, g \in Findings(moment) : <<f, g>> \notin R) => r = found
  <2>1. n \in Nat /\ found \in [1..n -> Findings(moment)] /\ WeakOrder(Findings(moment), R)
    BY <1>2, <1>3, <1>4
  <2>. QED
    BY <1>5, <2>1, StableSort
<1>9. PICK p \in [1..n -> 1..n] : Permutes(p, n, found, r)
  BY <1>8 DEF Permutes
<1>10. \A j, k \in 1..n : found[j] = found[k] => j = k
  BY <1>2 DEF Arrangement, n
<1>11. \A f \in Findings(moment) : \E k \in 1..n : found[k] = f
  BY <1>2 DEF Arrangement, n
<1>12. Arrangement(r, R, moment)
  <2>1. \A j, k \in 1..n : r[j] = r[k] => j = k
    <3> SUFFICES ASSUME NEW j \in 1..n, NEW k \in 1..n, r[j] = r[k] PROVE j = k
      OBVIOUS
    <3>1. p[j] \in 1..n /\ p[k] \in 1..n /\ found[p[j]] = found[p[k]]
      BY <1>9 DEF Permutes
    <3>. QED
      BY <1>10, <1>9, <3>1 DEF Permutes
  <2>2. \A f \in Findings(moment) : \E k \in 1..n : r[k] = f
    BY <1>11, <1>9 DEF Permutes
  <2>. QED
    BY <1>8, <2>1, <2>2 DEF Arrangement, n
<1>13. q.sort = Absent => Arrangement(r, RulesPairs(moment), moment)
  <2>1. q.sort = Absent => r = found
    BY <1>4, <1>8, AheadIsOrder
  <2>. QED
    BY <1>2, <2>1
<1>. QED
  BY <1>1, <1>7, <1>12, <1>13 DEF R

\* As many pages of a size as it takes.
PagesFor(n, size) == IF n = 0 THEN 1 ELSE (n + size - 1) \div size

\* The pages have room for everything, and the last one is not empty.
LEMMA PagesHold ==
    ASSUME NEW n \in Nat, NEW size \in Nat \ {0}
    PROVE  LET pages == PagesFor(n, size)
           IN  /\ pages \in Nat \ {0}
               /\ n <= pages * size
               /\ n = 0 => pages = 1
               /\ n # 0 => (pages - 1) * size < n
<1>0. PICK pages : pages = PagesFor(n, size)
  OBVIOUS
<1>1. CASE n = 0
  BY <1>0, <1>1 DEF PagesFor
<1>2. CASE n # 0
  <2>1. n + size - 1 \in Nat /\ pages = (n + size - 1) \div size
    BY <1>0, <1>2 DEF PagesFor
  <2>2. /\ pages \in Nat
        /\ pages * size <= n + size - 1
        /\ n + size - 1 < pages * size + size
    BY <2>1
  <2>3. PICK m : m = pages * size
    OBVIOUS
  <2>4. m \in Int /\ m <= n + size - 1 /\ n + size - 1 < m + size
    BY <2>2, <2>3
  <2>5. n <= m /\ m - size < n
    BY <2>4
  <2>6. pages # 0
    <3> SUFFICES ASSUME pages = 0 PROVE FALSE
      OBVIOUS
    <3>1. m = 0
      BY <2>3
    <3>. QED
      BY <1>2, <2>5, <3>1
  <2>7. (pages - 1) * size = m - size
    BY <2>2, <2>3
  <2>. QED
    BY <1>0, <1>2, <2>2, <2>3, <2>5, <2>6, <2>7
<1>. QED
  BY <1>1, <1>2

\* The page of a list: where it begins, how long it is and what is on it.
PageFacts(x, q, r, n) ==
    /\ x.count = n /\ x.savings = Savings(Range(r))
    /\ x.size = Clamped(q.size, "findings") /\ x.size \in Nat \ {0}
    /\ x.pages = PagesFor(n, x.size)
    /\ x.pages \in Nat \ {0} /\ x.page \in 1..x.pages
    /\ Len(x.list) = IF x.page < x.pages THEN x.size ELSE n - (x.pages - 1) * x.size
    /\ \A f \in Range(x.list) : \E k \in 1..n :
          f = r[k] /\ (x.page - 1) * x.size < k /\ k <= x.page * x.size

\* What a page is, of a list of any length.
LEMMA PageHolds ==
    ASSUME NEW n \in Nat, NEW S, NEW r \in [1..n -> S], NEW q, WellFormed(q), q.to = "findings"
    PROVE  PageFacts(PageOf(q, r), q, r, n)
<1>0. PICK x : x = PageOf(q, r)
  OBVIOUS
<1>1. PICK size : size = Clamped(q.size, "findings")
  OBVIOUS
<1>2. PICK pages : pages = PagesFor(n, size)
  OBVIOUS
<1>3. PICK page : page = IF q.page > pages THEN pages ELSE IF q.page <= 0 THEN 1 ELSE q.page
  OBVIOUS
<1>4. Len(r) = n /\ r \in Seq(S) /\ (r = <<>> <=> n = 0)
  OBVIOUS
<1>5. PICK list : list = FirstOf(SubSeq(r, FirstOn(page, size), n), size)
  OBVIOUS
<1>6. x = [count |-> n, savings |-> Savings(Range(r)), size |-> size,
           page |-> page, pages |-> pages, list |-> list]
  BY <1>0, <1>1, <1>2, <1>3, <1>4, <1>5 DEF PageOf, PagesFor
<1>7. x.count = n /\ x.savings = Savings(Range(r)) /\ x.size = size /\ x.page = page /\ x.pages = pages /\ x.list = list
  BY <1>6
<1>8. size \in Nat \ {0}
  BY <1>1, ClampedHolds DEF WellFormed, Lists
<1>9. /\ pages \in Nat \ {0}
      /\ n <= pages * size
      /\ n = 0 => pages = 1
      /\ n # 0 => (pages - 1) * size < n
  BY <1>2, <1>8, PagesHold
<1>10. page \in 1..pages
  <2>1. q.page \in Int
    BY DEF WellFormed
  <2>. QED
    BY <1>3, <1>9, <2>1
<1>11. PICK past : past = (page - 1) * size
  OBVIOUS
<1>12. page \in Int /\ pages \in Int /\ size \in Int
  BY <1>8, <1>9, <1>10
<1>13. past \in Nat /\ page * size = past + size
  <2>1. page - 1 \in Nat
    BY <1>10, <1>12
  <2>2. past \in Nat
    BY <1>8, <1>11, <2>1
  <2>3. page * size = (page - 1) * size + size
    BY <1>12
  <2>. QED
    BY <1>11, <2>2, <2>3
<1>14. page < pages => past + size < n
  <2> SUFFICES ASSUME page < pages PROVE past + size < n
    OBVIOUS
  <2>1. n # 0
    BY <1>9, <1>10, <1>12
  <2>2. page <= pages - 1
    BY <1>12
  <2>3. page * size <= (pages - 1) * size
    BY <1>8, <1>12, <2>2
  <2>4. PICK m : m = (pages - 1) * size
    OBVIOUS
  <2>5. m \in Int /\ past + size <= m /\ m < n
    BY <1>9, <1>12, <1>13, <2>1, <2>3, <2>4
  <2>. QED
    BY <1>8, <1>13, <2>5
<1>15. page = pages => past <= n /\ n <= past + size
  <2> SUFFICES ASSUME page = pages PROVE past <= n /\ n <= past + size
    OBVIOUS
  <2>1. n <= past + size
    BY <1>9, <1>13
  <2>2. CASE n = 0
    BY <1>9, <1>11, <1>12, <2>1, <2>2
  <2>3. CASE n # 0
    BY <1>9, <1>11, <1>13, <2>1, <2>3
  <2>. QED
    BY <2>2, <2>3
<1>16. past <= n
  BY <1>8, <1>10, <1>12, <1>13, <1>14, <1>15
<1>17. PICK rest : rest = SubSeq(r, FirstOn(page, size), n)
  OBVIOUS
<1>18. FirstOn(page, size) = past + 1
  BY <1>11 DEF FirstOn
<1>19. /\ n - past \in Nat
       /\ rest \in [1..(n - past) -> S]
       /\ \A i \in 1..(n - past) : rest[i] = r[past + i]
  <2>1. rest = SubSeq(r, past + 1, n)
    BY <1>17, <1>18
  <2>2. rest = [i \in 1..(n - past) |-> r[past + i]]
    BY <1>4, <1>13, <1>16, <2>1
  <2>3. \A i \in 1..(n - past) : r[past + i] \in S
    BY <1>13, <1>16
  <2>. QED
    BY <1>13, <1>16, <2>2, <2>3
<1>20. /\ Fewer(size, n - past) \in 0..(n - past)
       /\ list \in [1..Fewer(size, n - past) -> S]
       /\ \A i \in 1..Fewer(size, n - past) : list[i] = rest[i]
       /\ Len(list) = Fewer(size, n - past)
  <2>1. list = FirstOf(rest, size)
    BY <1>5, <1>17
  <2>2. PICK m : m = n - past
    OBVIOUS
  <2>3. m \in Nat /\ rest \in [1..m -> S] /\ size \in Nat
    BY <1>8, <1>19, <2>2
  <2>4. Fewer(size, m) \in 0..m /\ Begins(list, rest, Fewer(size, m), S)
    <3>1. Fewer(size, m) \in 0..m /\ Begins(FirstOf(rest, size), rest, Fewer(size, m), S)
      BY <2>3, CutList
    <3>. QED
      BY <2>1, <3>1
  <2>5. /\ Fewer(size, m) \in 0..m
        /\ list \in [1..Fewer(size, m) -> S]
        /\ \A i \in 1..Fewer(size, m) : list[i] = rest[i]
        /\ Len(list) = Fewer(size, m)
    BY <2>4 DEF Begins
  <2>. QED
    BY <2>2, <2>5
<1>21. Len(list) = IF page < pages THEN size ELSE n - (pages - 1) * size
  <2>1. CASE page < pages
    BY <1>8, <1>13, <1>14, <1>20, <2>1 DEF Fewer
  <2>2. CASE page = pages
    <3>1. (pages - 1) * size = past
      BY <1>11, <2>2
    <3>2. Fewer(size, n - past) = n - past
      BY <1>8, <1>13, <1>15, <2>2 DEF Fewer
    <3>. QED
      BY <1>12, <1>20, <2>2, <3>1, <3>2
  <2>. QED
    BY <1>10, <1>12, <2>1, <2>2
<1>22. ASSUME NEW f \in Range(list)
       PROVE  \E k \in 1..n : f = r[k] /\ past < k /\ k <= past + size
  <2>1. PICK i \in 1..Fewer(size, n - past) : f = list[i]
    BY <1>20 DEF Range
  <2>2. i \in 1..(n - past) /\ i \in Nat /\ i <= size
    BY <1>8, <1>13, <1>20 DEF Fewer
  <2>3. f = r[past + i]
    BY <1>19, <1>20, <2>1, <2>2
  <2>4. past + i \in 1..n /\ past < past + i /\ past + i <= past + size
    BY <1>8, <1>13, <1>16, <2>2
  <2>. QED
    BY <2>3, <2>4
<1>23. x.pages = PagesFor(n, x.size)
  BY <1>2, <1>7
<1>24. \A f \in Range(x.list) : \E k \in 1..n : f = r[k] /\ (x.page - 1) * x.size < k /\ k <= x.page * x.size
  BY <1>7, <1>11, <1>13, <1>22
<1>. QED
  BY <1>0, <1>1, <1>7, <1>8, <1>9, <1>10, <1>21, <1>23, <1>24 DEF PageFacts

\* Whatever is on a later page of a list does not precede what is on an earlier
\* page of the same or another list in that order.
LEMMA LaterPages ==
    ASSUME NEW moment, NEW R, WeakOrder(Findings(moment), R), NEW n, n = Cardinality(Findings(moment)), n \in Nat,
           NEW r, Arrangement(r, R, moment), NEW t, Arrangement(t, R, moment),
           NEW size \in Nat \ {0}, NEW early \in Nat, NEW late \in Nat, early < late,
           NEW i \in 1..n, i <= early * size, NEW j \in 1..n, (late - 1) * size < j
    PROVE  <<t[j], r[i]>> \notin R
<1>1. early <= late - 1
  OBVIOUS
<1>2. early * size <= (late - 1) * size
  BY <1>1
<1>3. PICK a, b : a = early * size /\ b = (late - 1) * size
  OBVIOUS
<1>4. a \in Int /\ b \in Int /\ i \in Int /\ j \in Int
  BY <1>3
<1>5. i <= j
  BY <1>2, <1>3, <1>4
<1>6. /\ r \in [1..n -> Findings(moment)]
      /\ \A l, k \in 1..n : r[l] = r[k] => l = k
      /\ \A f \in Findings(moment) : \E k \in 1..n : r[k] = f
      /\ \A l, k \in 1..n : l < k => <<r[k], r[l]>> \notin R
  BY DEF Arrangement
<1>7. /\ t \in [1..n -> Findings(moment)]
      /\ \A l, k \in 1..n : t[l] = t[k] => l = k
      /\ \A l, k \in 1..n : l < k => <<t[k], t[l]>> \notin R
  BY DEF Arrangement
<1>. QED
  BY <1>5, <1>6, <1>7, SamePlaces

\* What is remembered of a request.
LEMMA ServedIs ==
    ASSUME ApiInv, NEW a \in Served
    PROVE  /\ WellFormed(a.request) /\ Invalid(a.request) = {}
           /\ a.at \in Nat /\ a.answer \in Handled(a.request, a.at)
<1>1. clock \in Nat /\ a.at \in 0..clock /\ Right(a)
  BY DEF ApiInv, AnswersHold, DataHold, SnapshotsHold
<1>. QED
  BY <1>1 DEF Right, Valid

\* The invariant has the pages fit together.
LEMMA InvIsPages == ApiInv => PagesInOrder
<1> SUFFICES ASSUME ApiInv, NEW a \in Served, NEW b \in Served, NEW moment, moment = a.at, moment = b.at,
                    To(a, "findings"), To(b, "findings"), a.request.size = b.request.size,
                    a.request.sort = b.request.sort, a.request.order = b.request.order
             PROVE  /\ a.answer.page \in 1..a.answer.pages /\ a.answer.pages = b.answer.pages
                    /\ Len(a.answer.list) = IF a.answer.page < a.answer.pages THEN a.answer.size
                                            ELSE a.answer.count - (a.answer.pages - 1) * a.answer.size
                    /\ a.answer.page < b.answer.page =>
                          \A f \in Range(a.answer.list), g \in Range(b.answer.list) :
                              IF a.request.sort = Absent THEN Cents(f.savings) >= Cents(g.savings)
                              ELSE ~ Ahead(a.request, g, f)
  BY DEF PagesInOrder
<1> DEFINE n == Cardinality(Findings(moment))
<1>1. TableHolds
  BY DEF ApiInv, DataHold
<1>2. ASSUME NEW c \in Served, To(c, "findings"), c.at = moment
      PROVE  /\ WellFormed(c.request) /\ c.request.to = "findings"
             /\ \E r : /\ c.answer = PageOf(c.request, r)
                       /\ Arrangement(r, AheadPairs(c.request, moment), moment)
                       /\ c.request.sort = Absent => Arrangement(r, RulesPairs(moment), moment)
  <2>1. c.request.to = "findings" /\ WellFormed(c.request) /\ c.answer \in handleFindings(c.request, moment)
    BY <1>2, ServedIs DEF To, Handled
  <2>. QED
    BY <1>1, <2>1, SortedArranges
<1>3. PICK r : /\ a.answer = PageOf(a.request, r)
               /\ Arrangement(r, AheadPairs(a.request, moment), moment)
               /\ a.request.sort = Absent => Arrangement(r, RulesPairs(moment), moment)
  BY <1>2
<1>4. PICK t : /\ b.answer = PageOf(b.request, t)
               /\ Arrangement(t, AheadPairs(b.request, moment), moment)
               /\ b.request.sort = Absent => Arrangement(t, RulesPairs(moment), moment)
  BY <1>2
<1>5. n \in Nat
  BY <1>1, FindingsFinite, FS_CardinalityType
<1>6. r \in [1..n -> Findings(moment)] /\ t \in [1..n -> Findings(moment)]
  BY <1>3, <1>4 DEF Arrangement
<1>7. PICK x, y : x = a.answer /\ y = b.answer
  OBVIOUS
<1>. HIDE DEF n
<1>8. PageFacts(x, a.request, r, n)
  BY <1>2, <1>3, <1>5, <1>6, <1>7, PageHolds
<1>9. PageFacts(y, b.request, t, n)
  BY <1>2, <1>4, <1>5, <1>6, <1>7, PageHolds
<1>10. x.size = y.size /\ x.pages = y.pages
  BY <1>8, <1>9 DEF PageFacts
<1>11. ASSUME x.page < y.page, NEW f \in Range(x.list), NEW g \in Range(y.list)
       PROVE  IF a.request.sort = Absent THEN Cents(f.savings) >= Cents(g.savings)
              ELSE ~ Ahead(a.request, g, f)
  <2>1. PICK i \in 1..n : f = r[i] /\ i <= x.page * x.size
    BY <1>8 DEF PageFacts
  <2>2. PICK j \in 1..n : g = t[j] /\ (y.page - 1) * y.size < j
    BY <1>9 DEF PageFacts
  <2>3. x.page \in Nat /\ y.page \in Nat /\ x.size \in Nat \ {0}
    <3>1. x.pages \in Nat /\ x.page \in 1..x.pages /\ x.size \in Nat \ {0}
      BY <1>8 DEF PageFacts
    <3>2. y.pages \in Nat /\ y.page \in 1..y.pages
      BY <1>9 DEF PageFacts
    <3>. QED
      BY <3>1, <3>2
  <2>4. f \in Findings(moment) /\ g \in Findings(moment)
    BY <1>6, <2>1, <2>2
  <2>5. CASE a.request.sort = Absent
    <3>1. <<g, f>> \notin RulesPairs(moment)
      BY <1>1, <1>3, <1>4, <1>5, <1>10, <1>11, <2>1, <2>2, <2>3, <2>5, LaterPages, RulesOrder DEF n
    <3>. QED
      BY <1>1, <2>4, <2>5, <3>1, RulesOrder
  <2>6. CASE a.request.sort # Absent
    <3>1. AheadPairs(b.request, moment) = AheadPairs(a.request, moment)
      BY DEF AheadPairs, Ahead
    <3>2. WeakOrder(Findings(moment), AheadPairs(a.request, moment))
      BY <1>1, AheadIsOrder
    <3>3. <<g, f>> \notin AheadPairs(a.request, moment)
      BY <1>3, <1>4, <1>5, <1>10, <1>11, <2>1, <2>2, <2>3, <3>1, <3>2, LaterPages DEF n
    <3>. QED
      BY <1>1, <2>4, <2>6, <3>3, AheadIsOrder
  <2>. QED
    BY <2>5, <2>6
<1>. QED
  BY <1>7, <1>8, <1>10, <1>11 DEF PageFacts

\* Of two pages of the findings in one order at one moment each is full or the
\* last, and the earlier one holds nothing that belongs behind something on the
\* later one.
THEOREM PagesFitTogether == ApiSpec => []PagesInOrder
BY AnswersStand, InvIsPages, PTL

-----------------------------------------------------------------------------
(* What the endpoints say of the same resources and costs.                 *)

\* Rounding keeps the order.
LEMMA RoundingHolds ==
    /\ roundCents(0) = 0
    /\ \A m \in Int : roundCents(m) \in Int
    /\ \A m, n \in Int : m <= n => roundCents(m) <= roundCents(n)
BY DEF roundCents

\* Two sequences that agree as far as both go.
LEMMA PrefixOfOther ==
    ASSUME NEW m \in Nat, NEW k \in Nat, NEW T, NEW u \in [1..m -> T], NEW v \in [1..k -> T],
           \A i \in (1..m) \cap (1..k) : u[i] = v[i]
    PROVE  IsPrefix(u, v) \/ IsPrefix(v, u)
<1>1. u \in Seq(T) /\ v \in Seq(T) /\ Len(u) = m /\ Len(v) = k
  OBVIOUS
<1>2. CASE m <= k
  <2>1. SubSeq(u, 1, m) = [i \in 1..m |-> u[i]] /\ SubSeq(v, 1, m) = [i \in 1..m |-> v[i]]
    BY <1>1, <1>2
  <2>2. \A i \in 1..m : u[i] = v[i]
    BY <1>2
  <2>. QED
    BY <1>1, <1>2, <2>1, <2>2 DEF IsPrefix
<1>3. CASE k <= m
  <2>1. SubSeq(u, 1, k) = [i \in 1..k |-> u[i]] /\ SubSeq(v, 1, k) = [i \in 1..k |-> v[i]]
    BY <1>1, <1>3
  <2>2. \A i \in 1..k : u[i] = v[i]
    BY <1>3
  <2>. QED
    BY <1>1, <1>3, <2>1, <2>2 DEF IsPrefix
<1>. QED
  BY <1>2, <1>3

\* Lists cut from what agrees agree.
LEMMA CutsAgree ==
    ASSUME NEW n \in Nat, NEW T, NEW s \in [1..n -> T], NEW t \in [1..n -> T],
           \A i \in 1..n : s[i] = t[i], NEW m \in Nat, NEW k \in Nat
    PROVE  IsPrefix(FirstOf(s, m), FirstOf(t, k)) \/ IsPrefix(FirstOf(t, k), FirstOf(s, m))
<1>1. PICK a, b : a = Fewer(m, n) /\ b = Fewer(k, n)
  OBVIOUS
<1>2. a \in 0..n /\ Begins(FirstOf(s, m), s, a, T)
  BY <1>1, CutList
<1>3. b \in 0..n /\ Begins(FirstOf(t, k), t, b, T)
  BY <1>1, CutList
<1>4. PICK u, v : u = FirstOf(s, m) /\ v = FirstOf(t, k)
  OBVIOUS
<1>5. a \in Nat /\ b \in Nat /\ u \in [1..a -> T] /\ v \in [1..b -> T]
  BY <1>2, <1>3, <1>4 DEF Begins
<1>6. \A i \in (1..a) \cap (1..b) : u[i] = v[i]
  BY <1>2, <1>3, <1>4 DEF Begins
<1>7. IsPrefix(u, v) \/ IsPrefix(v, u)
  BY <1>5, <1>6, PrefixOfOther
<1>. QED
  BY <1>4, <1>7

-----------------------------------------------------------------------------
\* Every page tells the totals of all findings.
LEMMA PageSums ==
    ASSUME TableHolds, NEW moment, NEW q, WellFormed(q), q.to = "findings", NEW y \in handleFindings(q, moment)
    PROVE  y.count = Cardinality(Findings(moment)) /\ y.savings = Savings(Findings(moment))
<1> DEFINE n == Cardinality(Findings(moment))
<1>1. PICK r : y = PageOf(q, r) /\ Arrangement(r, AheadPairs(q, moment), moment)
  BY SortedArranges
<1>2. n \in Nat
  BY FindingsFinite, FS_CardinalityType
<1>3. r \in [1..n -> Findings(moment)] /\ \A f \in Findings(moment) : \E k \in 1..n : r[k] = f
  BY <1>1 DEF Arrangement
<1>4. Range(r) = Findings(moment)
  BY <1>3 DEF Range
<1>. HIDE DEF n
<1>5. PageFacts(PageOf(q, r), q, r, n)
  BY <1>2, <1>3, PageHolds
<1>. QED
  BY <1>1, <1>4, <1>5 DEF PageFacts, n

\* What the summary adds up.
LEMMA SummaryIs ==
    ASSUME NEW moment, NEW x \in handleSummary(moment)
    PROVE  /\ x.count = Cardinality(table) /\ x.cost = CostOf(table)
           /\ x.savings = Savings(Findings(moment)) /\ x.findings = Cardinality(Findings(moment))
           /\ x.bySeverity = BySeverity(Findings(moment))
           /\ \A p \in Clouds : /\ x.byProvider[p].count = Cardinality({r \in table : ProviderOf(r) = p})
                                /\ x.byProvider[p].cost = CostOf({r \in table : ProviderOf(r) = p})
BY DEF handleSummary

-----------------------------------------------------------------------------
(* Time: nothing that is found is lost as long as the table stays.         *)

\* What is found stays found.
LEMMA FindingsGrow ==
    ASSUME TableHolds, NEW s \in Int, NEW t \in Int, s <= t
    PROVE  Findings(s) \subseteq Findings(t)
<1>1. PICK k : k = 7 * TicksPerDay
  OBVIOUS
<1>2. k \in Int
  BY <1>1, CostApiAssumption DEF CostApiAssumption
<1>3. ASSUME NEW r \in table, Flagged(r, s) PROVE Flagged(r, t)
  <2>1. r.born \in Int
    BY DEF TableHolds, Row
  <2>2. s - r.born >= k => t - r.born >= k
    BY <1>2, <2>1
  <2>. QED
    BY <1>1, <1>3, <2>2 DEF Flagged
<1>. QED
  BY <1>3 DEF Findings

\* In number, savings and severities the findings D are no more than E.
NoMore(D, E) == /\ Cardinality(D) <= Cardinality(E)
                /\ Savings(D) <= Savings(E)
                /\ roundCents(Savings(D)) <= roundCents(Savings(E))
                /\ \A s \in Severities : BySeverity(D)[s] <= BySeverity(E)[s]

\* More findings, no less of anything.
LEMMA MoreFindings ==
    ASSUME TableHolds, NEW moment, NEW E \in SUBSET Findings(moment), NEW D \in SUBSET E
    PROVE  NoMore(D, E)
<1>1. IsFiniteSet(E) /\ IsFiniteSet(D) /\ Cardinality(D) <= Cardinality(E)
  BY FindingsFinite, FS_Subset
<1>2. PICK f, g, p : f = [x \in D |-> x.savings] /\ g = [x \in E |-> x.savings] /\ p = [x \in D |-> x]
  OBVIOUS
<1>3. \A x \in E : x.savings \in Nat
  BY FindingHolds
<1>4. /\ f \in [D -> Int] /\ g \in [E -> Nat] /\ g \in [E -> Int] /\ p \in [D -> E]
      /\ (\A x \in D : f[x] <= g[p[x]]) /\ \A x, y \in D : p[x] = p[y] => x = y
  BY <1>2, <1>3
<1>5. SumFunction(f) <= SumFunction(g)
  BY <1>1, <1>4, SumEmbeds
<1>6. SumFunction(f) \in Int /\ SumFunction(g) \in Int
  BY <1>1, <1>4, SumType
<1>7. Savings(D) = SumFunction(f) /\ Savings(E) = SumFunction(g)
  BY <1>2 DEF Savings
<1>8. Savings(D) <= Savings(E) /\ roundCents(Savings(D)) <= roundCents(Savings(E))
  BY <1>5, <1>6, <1>7, RoundingHolds
<1>9. ASSUME NEW s \in Severities PROVE BySeverity(D)[s] <= BySeverity(E)[s]
  <2>1. PICK d, e : d = {x \in D : x.severity = s} /\ e = {x \in E : x.severity = s}
    OBVIOUS
  <2>2. IsFiniteSet(e) /\ d \subseteq e
    BY <1>1, <2>1, FS_Subset
  <2>3. BySeverity(D)[s] = Cardinality(d) /\ BySeverity(E)[s] = Cardinality(e)
    BY <2>1 DEF BySeverity
  <2>. QED
    BY <2>2, <2>3, FS_Subset
<1>. QED
  BY <1>1, <1>8, <1>9 DEF NoMore

\* Later there are no fewer findings, nor recommendations of any kind.
LEMMA RecommendedGrow ==
    ASSUME TableHolds, NEW s \in Int, NEW t \in Int, s <= t, NEW q
    PROVE  NoMore(Findings(s), Findings(t)) /\ NoMore(Recommended(q, s), Recommended(q, t))
<1>1. Findings(s) \in SUBSET Findings(t) /\ Findings(t) \in SUBSET Findings(t)
  BY FindingsGrow
<1>2. Recommended(q, t) \in SUBSET Findings(t) /\ Recommended(q, s) \in SUBSET Recommended(q, t)
  BY <1>1 DEF Recommended
<1>. QED
  BY <1>1, <1>2, MoreFindings

\* What a and b tell of S and T grows as S and T do.
LEMMA GrownIs ==
    ASSUME NEW a, NEW b, NEW S, NEW T, a.at <= b.at => NoMore(S, T), b.at <= a.at => NoMore(T, S)
    PROVE  /\ Grown(a, Cardinality(S), b, Cardinality(T))
           /\ Grown(a, Savings(S), b, Savings(T))
           /\ Grown(a, roundCents(Savings(S)), b, roundCents(Savings(T)))
           /\ \A s \in Severities : Grown(a, BySeverity(S)[s], b, BySeverity(T)[s])
BY DEF Grown, NoMore

\* The resources of a cloud.
CloudsRows(p) == {r \in table : ProviderOf(r) = p}

\* A filter that lets a cloud pass leaves its part whole.
LEMMA OfCloudIs ==
    ASSUME NEW q, NEW p, Matches(p, q.provider)
    PROVE  OfCloud(q, p) = CloudsRows(p)
BY DEF OfCloud, Listed, Matches, CloudsRows

\* A finding is of a resource in AWS, which is all its service tells.
LEMMA FindingsAreAWS ==
    ASSUME TableHolds, NEW moment, NEW f \in Findings(moment)
    PROVE  /\ providerForServiceAccount(f.service, Absent) = "aws"
           /\ \E r \in table : f = Finding(r) /\ f.service = r.service /\ f.cost = r.cost /\ ProviderOf(r) = "aws"
<1>1. f.service \in {"rds", "ebs", "ec2", "lambda"}
  BY FindingHolds
<1>2. \A account : providerForServiceAccount(f.service, account) = "aws"
  BY <1>1 DEF providerForServiceAccount
<1>3. PICK r \in table : f = Finding(r) /\ f.service = r.service /\ f.cost = r.cost
  BY FindingHolds
<1>. QED
  BY <1>2, <1>3 DEF ProviderOf

\* What is recommended for a cloud is among its resources, and costs no more.
LEMMA RecommendedIsListed ==
    ASSUME TableHolds, NEW moment, NEW q, q.provider \in Clouds
    PROVE  /\ Cardinality(Recommended(q, moment)) <= Cardinality(CloudsRows(q.provider))
           /\ roundCents(Savings(Recommended(q, moment))) <= roundCents(CostOf(CloudsRows(q.provider)))
<1> DEFINE D == Recommended(q, moment)
           E == CloudsRows(q.provider)
           p == [f \in D |-> CHOOSE r \in table : f = Finding(r) /\ f.service = r.service /\ f.cost = r.cost
                                                  /\ ProviderOf(r) = "aws"]
<1>1. D \subseteq Findings(moment) /\ E = {r \in table : ProviderOf(r) = q.provider}
  BY DEF Recommended, CloudsRows
<1>2. IsFiniteSet(D) /\ IsFiniteSet(E)
  <2>1. IsFiniteSet(D)
    BY <1>1, FindingsFinite, FS_Subset
  <2>2. IsFiniteSet(E)
    BY <1>1, FS_Subset DEF TableHolds
  <2>. QED
    BY <2>1, <2>2
<1>3. ASSUME NEW f \in D
      PROVE  p[f] \in table /\ f = Finding(p[f]) /\ f.cost = p[f].cost /\ ProviderOf(p[f]) = "aws"
  <2>1. \E r \in table : f = Finding(r) /\ f.service = r.service /\ f.cost = r.cost /\ ProviderOf(r) = "aws"
    BY <1>1, FindingsAreAWS
  <2>. QED
    BY <2>1
<1>5. DOMAIN p = D
  OBVIOUS
<1>. HIDE DEF p
<1>4. ASSUME NEW f \in D PROVE q.provider = "aws"
  <2>1. Matches("aws", q.provider)
    BY <1>1, FindingsAreAWS DEF Recommended
  <2>2. Absent \notin Clouds
    BY Zenon DEF Absent, Clouds
  <2>. QED
    BY <2>1, <2>2 DEF Matches
<1>6. p \in [D -> E] /\ \A f, g \in D : p[f] = p[g] => f = g
  <2>1. \A f \in D : p[f] \in E
    BY <1>1, <1>3, <1>4
  <2>2. p = [f \in D |-> p[f]]
    BY DEF p
  <2>. HIDE DEF D, E
  <2>. QED
    BY <1>3, <2>1, <2>2
<1>7. Cardinality(D) <= Cardinality(E)
  <2>1. p \in Injection(D, E)
    BY <1>6 DEF Injection, IsInjective
  <2>. HIDE DEF D, E
  <2>. QED
    BY <1>2, <2>1, FS_Injection
<1>8. [f \in D |-> f.savings] \in [D -> Int] /\ \A f \in D : f.savings <= f.cost
  BY <1>1, FindingHolds
<1>9. [r \in E |-> r.cost] \in [E -> Nat]
  BY <1>1 DEF TableHolds, Row
<1>10. \A f \in D : [g \in D |-> g.savings][f] <= [r \in E |-> r.cost][p[f]]
  BY <1>3, <1>6, <1>8
<1>. HIDE DEF D, E
<1>11. SumFunction([f \in D |-> f.savings]) <= SumFunction([r \in E |-> r.cost])
  <2>1. PICK fs, gs : fs = [f \in D |-> f.savings] /\ gs = [r \in E |-> r.cost]
    OBVIOUS
  <2>2. fs \in [D -> Int] /\ gs \in [E -> Nat] /\ \A f \in D : fs[f] <= gs[p[f]]
    BY <1>8, <1>9, <1>10, <2>1
  <2>3. SumFunction(fs) <= SumFunction(gs)
    BY <1>2, <1>6, <2>2, SumEmbeds
  <2>. QED
    BY <2>1, <2>3
<1>12. SumFunction([f \in D |-> f.savings]) \in Int /\ SumFunction([r \in E |-> r.cost]) \in Int
  <2>1. [r \in E |-> r.cost] \in [E -> Int]
    BY <1>9
  <2>. QED
    BY <1>2, <1>8, <2>1, SumType
<1>13. Savings(D) \in Int /\ CostOf(E) \in Int /\ Savings(D) <= CostOf(E)
  BY <1>11, <1>12 DEF Savings, CostOf
<1>14. roundCents(Savings(D)) <= roundCents(CostOf(E))
  BY <1>13, RoundingHolds
<1>. QED
  BY <1>7, <1>14 DEF D, E

\* The summary agrees with the resources, findings, recommendations and inventory.
LEMMA SummariesAgree ==
    ASSUME ApiInv, NEW a \in Served, NEW b \in Served
    PROVE  SummaryAgrees(a, b)
<1> SUFFICES ASSUME To(a, "summary")
             PROVE  SummaryAgrees(a, b)
  BY DEF SummaryAgrees
<1>0. TableHolds
  BY DEF ApiInv, DataHold
<1>1. PICK x, y, u, s, t : x = a.answer /\ y = b.answer /\ u = b.request /\ s = a.at /\ t = b.at
  OBVIOUS
<1>2. s \in Int /\ t \in Int /\ x \in handleSummary(s)
  BY <1>1, ServedIs DEF To, Handled
<1>3. PICK S, T : S = Findings(s) /\ T = Findings(t)
  OBVIOUS
<1>4. /\ x.count = Cardinality(table) /\ x.cost = CostOf(table)
      /\ x.savings = Savings(S) /\ x.findings = Cardinality(S) /\ x.bySeverity = BySeverity(S)
      /\ \A p \in Clouds : x.byProvider[p].count = Cardinality(CloudsRows(p))
                           /\ x.byProvider[p].cost = CostOf(CloudsRows(p))
  BY <1>2, <1>3, SummaryIs DEF CloudsRows
<1>5. /\ Grown(a, Cardinality(S), b, Cardinality(T))
      /\ Grown(a, Savings(S), b, Savings(T))
      /\ Grown(a, roundCents(Savings(S)), b, roundCents(Savings(T)))
      /\ \A v \in Severities : Grown(a, BySeverity(S)[v], b, BySeverity(T)[v])
  <2>1. s <= t => NoMore(S, T)
    BY <1>0, <1>2, <1>3, RecommendedGrow
  <2>2. t <= s => NoMore(T, S)
    BY <1>0, <1>2, <1>3, RecommendedGrow
  <2>. QED
    BY <1>1, <2>1, <2>2, GrownIs
<1>6. ASSUME To(b, "resources") PROVE x.count = y.count /\ x.cost = y.cost
  <2>1. y \in handleResources
    BY <1>1, <1>6, ServedIs DEF To, Handled
  <2>2. y.count = Cardinality(table) /\ y.cost = CostOf(table)
    BY <2>1 DEF handleResources
  <2>. QED
    BY <1>4, <2>2
<1>7. ASSUME To(b, "findings") PROVE Grown(a, x.findings, b, y.count) /\ Grown(a, x.savings, b, y.savings)
  <2>1. y \in handleFindings(u, t) /\ WellFormed(u) /\ u.to = "findings"
    BY <1>1, <1>7, ServedIs DEF To, Handled
  <2>2. y.count = Cardinality(T) /\ y.savings = Savings(T)
    BY <1>0, <1>3, <2>1, PageSums
  <2>. QED
    BY <1>4, <1>5, <2>2
<1>8. ASSUME To(b, "recommendations"), ~ Filtered(u), u.severity = Absent
      PROVE  /\ \A v \in Severities : Grown(a, x.bySeverity[v], b, y.bySeverity[v])
             /\ Grown(a, x.findings, b, y.count)
             /\ Grown(a, roundCents(x.savings), b, y.savings)
  <2>1. y \in handleRecommendations(u, t)
    BY <1>1, <1>8, ServedIs DEF To, Handled
  <2>2. Recommended(u, t) = T
    BY <1>3, <1>8 DEF Recommended, Filtered, Matches
  <2>3. y.count = Cardinality(T) /\ y.savings = roundCents(Savings(T)) /\ y.bySeverity = BySeverity(T)
    BY <2>1, <2>2, RecommendationsAre
  <2>. QED
    BY <1>4, <1>5, <2>3
<1>9. ASSUME To(b, "recommendations"), Filtered(u)
      PROVE  y.count <= x.byProvider[u.provider].count /\ y.savings <= roundCents(x.byProvider[u.provider].cost)
  <2>1. y \in handleRecommendations(u, t) /\ u.to = "recommendations" /\ Invalid(u) = {}
    BY <1>1, <1>9, ServedIs DEF To, Handled
  <2>2. u.provider \in Clouds
    BY <1>9, <2>1 DEF Invalid, Filtered
  <2>3. y.count = Cardinality(Recommended(u, t)) /\ y.savings = roundCents(Savings(Recommended(u, t)))
    BY <2>1, RecommendationsAre
  <2>4. /\ Cardinality(Recommended(u, t)) <= Cardinality(CloudsRows(u.provider))
        /\ roundCents(Savings(Recommended(u, t))) <= roundCents(CostOf(CloudsRows(u.provider)))
    BY <1>0, <2>2, RecommendedIsListed
  <2>. QED
    BY <1>4, <2>2, <2>3, <2>4
<1>10. ASSUME To(b, "inventory"), NEW p \in Clouds, Matches(p, u.provider)
       PROVE  x.byProvider[p].count = y.byProvider[p].count /\ roundCents(x.byProvider[p].cost) = y.byProvider[p].cost
  <2>1. y \in handleInventory(u)
    BY <1>1, <1>10, ServedIs DEF To, Handled
  <2>2. y.byProvider = [c \in Clouds |-> [count |-> Cardinality(OfCloud(u, c)),
                                          cost |-> roundCents(CostOf(OfCloud(u, c)))]]
    BY <2>1, InventoryIs
  <2>3. /\ y.byProvider[p].count = Cardinality(CloudsRows(p))
        /\ y.byProvider[p].cost = roundCents(CostOf(CloudsRows(p)))
    BY <1>10, <2>2, OfCloudIs
  <2>. QED
    BY <1>4, <2>3
<1>. QED
  BY <1>1, <1>6, <1>7, <1>8, <1>9, <1>10 DEF SummaryAgrees

WorthPairs(q, moment) == {p \in Recommended(q, moment) \X Recommended(q, moment) : Worth(p[1], p[2])}

\* The order of recommendations leaves nothing open.
LEMMA WorthIsOrder ==
    ASSUME TableHolds, NEW moment, NEW q
    PROVE  /\ WeakOrder(Recommended(q, moment), WorthPairs(q, moment))
           /\ \A f, g \in Recommended(q, moment) : <<f, g>> \in WorthPairs(q, moment) <=> Worth(f, g)
           /\ \A f, g \in Recommended(q, moment) : ~ Worth(f, g) /\ ~ Worth(g, f) => f = g
<1> DEFINE S == Recommended(q, moment)
           R == WorthPairs(q, moment)
           val == [f \in S |-> roundCents(f.savings)]
           id == [f \in S |-> f.id]
<1>1. S \subseteq Findings(moment)
  BY DEF Recommended
<1>2. val \in [S -> Int] /\ id \in [S -> Int]
  <2>1. \A f \in S : f.savings \in Int /\ f.id \in Int
    BY <1>1, FindingHolds
  <2>2. \A f \in S : roundCents(f.savings) \in Int
    BY <2>1, RoundingHolds
  <2>. QED
    BY <2>1, <2>2
<1>3. \A f, g \in S : <<f, g>> \in R <=> Worth(f, g)
  BY DEF WorthPairs
<1>4. \A f, g \in S : Worth(f, g) <=> val[f] > val[g] \/ (val[f] = val[g] /\ id[f] < id[g])
  BY DEF Worth
<1>5. ASSUME NEW f \in S, NEW g \in S, id[f] = id[g] PROVE f = g
  <2>1. PICK r \in table : f = Finding(r) /\ f.id = r.id
    BY <1>1, FindingHolds
  <2>2. PICK x \in table : g = Finding(x) /\ g.id = x.id
    BY <1>1, FindingHolds
  <2>3. r = x
    BY <1>5, <2>1, <2>2 DEF TableHolds
  <2>. QED
    BY <2>1, <2>2, <2>3
<1>. HIDE DEF S, R, val, id
<1>6. WeakOrder(S, R)
  BY <1>2, <1>3, <1>4 DEF WeakOrder
<1>7. \A f, g \in S : ~ Worth(f, g) /\ ~ Worth(g, f) => f = g
  <2> SUFFICES ASSUME NEW f \in S, NEW g \in S, ~ Worth(f, g), ~ Worth(g, f) PROVE f = g
    OBVIOUS
  <2>1. id[f] = id[g]
    BY <1>2, <1>4
  <2>. QED
    BY <1>5, <2>1
<1>. QED
  BY <1>3, <1>6, <1>7 DEF S, R

\* Two arrangements of the same recommendations are the same.
LEMMA OneRanking ==
    ASSUME TableHolds, NEW moment, NEW q, NEW s \in SetToSeqs(Recommended(q, moment)), NEW t \in SetToSeqs(Recommended(q, moment)),
           \A i, j \in DOMAIN s : i < j => ~ Worth(s[j], s[i]),
           \A i, j \in DOMAIN t : i < j => ~ Worth(t[j], t[i])
    PROVE  LET n == Cardinality(Recommended(q, moment))
           IN  /\ n \in Nat /\ s \in [1..n -> Recommended(q, moment)] /\ t \in [1..n -> Recommended(q, moment)]
               /\ \A i \in 1..n : s[i] = t[i]
<1> DEFINE S == Recommended(q, moment)
           R == WorthPairs(q, moment)
           n == Cardinality(S)
<1>1. IsFiniteSet(S)
  BY FindingsFinite, FS_Subset DEF Recommended
<1>2. /\ WeakOrder(S, R)
      /\ \A f, g \in S : <<f, g>> \in R <=> Worth(f, g)
      /\ \A f, g \in S : ~ Worth(f, g) /\ ~ Worth(g, f) => f = g
  BY WorthIsOrder
<1>. HIDE DEF S, R
<1>3. /\ n \in Nat
      /\ s \in [1..n -> S] /\ (\A i, j \in 1..n : s[i] = s[j] => i = j) /\ (\A x \in S : \E k \in 1..n : s[k] = x)
      /\ t \in [1..n -> S] /\ (\A i, j \in 1..n : t[i] = t[j] => i = j) /\ (\A x \in S : \E k \in 1..n : t[k] = x)
  BY <1>1, ArrangementHolds DEF S
<1>. HIDE DEF n
<1>4. /\ \A j, k \in 1..n : j < k => <<s[k], s[j]>> \notin R
      /\ \A j, k \in 1..n : j < k => <<t[k], t[j]>> \notin R
  BY <1>2, <1>3
<1>5. ASSUME NEW i \in 1..n PROVE s[i] = t[i]
  <2>0. i <= i
    BY <1>3
  <2>1. <<t[i], s[i]>> \notin R
    BY <1>2, <1>3, <1>4, <2>0, SamePlaces
  <2>2. <<s[i], t[i]>> \notin R
    BY <1>2, <1>3, <1>4, <2>0, SamePlaces
  <2>3. s[i] \in S /\ t[i] \in S
    BY <1>3
  <2>. QED
    BY <1>2, <2>1, <2>2, <2>3
<1>. QED
  BY <1>3, <1>5 DEF S, n

\* What was listed by one order, cut twice.
LEMMA RankingsAgree ==
    ASSUME TableHolds, NEW moment, NEW q, NEW u, Recommended(u, moment) = Recommended(q, moment), q.top \in Int, u.top \in Int,
           NEW x \in handleRecommendations(q, moment), NEW y \in handleRecommendations(u, moment)
    PROVE  /\ x.count = y.count /\ x.savings = y.savings
           /\ IsPrefix(x.list, y.list) \/ IsPrefix(y.list, x.list)
<1>1. x.count = y.count /\ x.savings = y.savings
  BY RecommendationsAre
<1>2. PICK s \in SetToSeqs(Recommended(q, moment)) :
         /\ x.list = FirstOf(s, Clamped(q.top, "recommendations"))
         /\ \A i, j \in DOMAIN s : i < j => ~ Worth(s[j], s[i])
  BY RecommendationsAre
<1>3. PICK t \in SetToSeqs(Recommended(q, moment)) :
         /\ y.list = FirstOf(t, Clamped(u.top, "recommendations"))
         /\ \A i, j \in DOMAIN t : i < j => ~ Worth(t[j], t[i])
  BY RecommendationsAre
<1>4. PICK n : n = Cardinality(Recommended(q, moment))
  OBVIOUS
<1>5. /\ n \in Nat /\ s \in [1..n -> Recommended(q, moment)] /\ t \in [1..n -> Recommended(q, moment)]
      /\ \A i \in 1..n : s[i] = t[i]
  BY <1>2, <1>3, <1>4, OneRanking
<1>6. PICK m, k : m = Clamped(q.top, "recommendations") /\ k = Clamped(u.top, "recommendations")
  OBVIOUS
<1>7. m \in Nat /\ k \in Nat
  BY <1>6, ClampedHolds DEF Lists
<1>8. IsPrefix(FirstOf(s, m), FirstOf(t, k)) \/ IsPrefix(FirstOf(t, k), FirstOf(s, m))
  BY <1>5, <1>7, CutsAgree
<1>. QED
  BY <1>1, <1>2, <1>3, <1>6, <1>8

\* Whatever is on a list of recommendations is recommended.
LEMMA ListedIsRecommended ==
    ASSUME TableHolds, NEW moment, NEW q, q.top \in Int, NEW x \in handleRecommendations(q, moment)
    PROVE  \A f \in Range(x.list) : f \in Recommended(q, moment)
<1>1. PICK items \in SetToSeqs(Recommended(q, moment)) :
         x.list = FirstOf(items, Clamped(q.top, "recommendations"))
  BY RecommendationsAre
<1>2. PICK S, n, m : /\ S = Recommended(q, moment) /\ n = Cardinality(S)
                     /\ m = Clamped(q.top, "recommendations")
  OBVIOUS
<1>3. IsFiniteSet(S)
  BY <1>2, FindingsFinite, FS_Subset DEF Recommended
<1>4. n \in Nat /\ items \in [1..n -> S]
  BY <1>1, <1>2, <1>3, ArrangementHolds
<1>5. m \in Nat
  BY <1>2, ClampedHolds DEF Lists
<1>6. PICK k : k = Fewer(m, n)
  OBVIOUS
<1>7. k \in 0..n /\ Begins(x.list, items, k, S)
  BY <1>1, <1>2, <1>4, <1>5, <1>6, CutList
<1>8. PICK list : list = x.list
  OBVIOUS
<1>9. list \in [1..k -> S]
  BY <1>7, <1>8 DEF Begins
<1>10. \A f \in Range(list) : f \in S
  BY <1>9 DEF Range
<1>. QED
  BY <1>2, <1>8, <1>10

\* An inventory that is not cut has every service.
LEMMA WholeInventory ==
    ASSUME TableHolds, NEW u, u.top \in Int, NEW y \in handleInventory(u), Len(y.list) = y.services
    PROVE  \A v \in Services(u) : v \in Range(y.list)
<1>1. PICK list \in SetToSeqs(Services(u)) : y.list = FirstOf(list, Clamped(u.top, "inventory"))
  BY InventoryIs
<1>2. PICK S, n, m : S = Services(u) /\ n = Cardinality(S) /\ m = Clamped(u.top, "inventory")
  OBVIOUS
<1>3. y.services = n
  BY <1>2, InventoryIs
<1>4. /\ n \in Nat /\ list \in [1..n -> S]
      /\ \A v \in S : \E i \in 1..n : list[i] = v
  BY <1>1, <1>2, ServicesFinite, ArrangementHolds
<1>5. m \in Nat
  BY <1>2, ClampedHolds DEF Lists
<1>6. Begins(y.list, list, Fewer(m, n), S)
  BY <1>1, <1>2, <1>4, <1>5, CutList
<1>7. Fewer(m, n) = n
  BY <1>3, <1>6 DEF Begins
<1>8. y.list \in [1..n -> S] /\ \A i \in 1..n : y.list[i] = list[i]
  BY <1>6, <1>7 DEF Begins
<1>. QED
  BY <1>2, <1>4, <1>8 DEF Range

\* Recommendations agree with each other and with the inventory.
LEMMA RecommendationsAgreeAlways ==
    ASSUME ApiInv, NEW a \in Served, NEW b \in Served
    PROVE  RecommendationsAgree(a, b)
<1> SUFFICES ASSUME To(a, "recommendations")
             PROVE  RecommendationsAgree(a, b)
  BY DEF RecommendationsAgree
<1>0. TableHolds
  BY DEF ApiInv, DataHold
<1>1. PICK x, y, q, u, s, t : /\ x = a.answer /\ q = a.request /\ s = a.at
                              /\ y = b.answer /\ u = b.request /\ t = b.at
  OBVIOUS
<1>2. /\ q.to = "recommendations" /\ q.top \in Int /\ x \in handleRecommendations(q, s)
      /\ s \in Int /\ t \in Int
  BY <1>1, ServedIs DEF To, Handled, WellFormed
<1>3. q.provider \in Clouds \cup {Absent} /\ q.severity \in Severities \cup {Absent}
  <2>1. Invalid(q) = {}
    BY <1>1, ServedIs
  <2>. QED
    BY <1>2, <2>1 DEF Invalid
<1>4. x.count = Cardinality(Recommended(q, s)) /\ x.savings = roundCents(Savings(Recommended(q, s)))
  BY <1>2, RecommendationsAre
<1>5. ASSUME u.to = "recommendations", q.provider = u.provider, q.severity = u.severity
      PROVE  /\ Grown(a, x.count, b, y.count) /\ Grown(a, x.savings, b, y.savings)
             /\ s = t => IsPrefix(x.list, y.list) \/ IsPrefix(y.list, x.list)
  <2>1. u.top \in Int /\ y \in handleRecommendations(u, t)
    BY <1>1, <1>5, ServedIs DEF Handled, WellFormed
  <2>2. \A moment : Recommended(u, moment) = Recommended(q, moment)
    BY <1>5 DEF Recommended
  <2>3. PICK S, T : S = Recommended(q, s) /\ T = Recommended(q, t)
    OBVIOUS
  <2>4. y.count = Cardinality(T) /\ y.savings = roundCents(Savings(T))
    BY <2>1, <2>2, <2>3, RecommendationsAre
  <2>5. s <= t => NoMore(S, T)
    BY <1>0, <1>2, <2>3, RecommendedGrow
  <2>6. t <= s => NoMore(T, S)
    BY <1>0, <1>2, <2>3, RecommendedGrow
  <2>7. /\ Grown(a, Cardinality(S), b, Cardinality(T))
        /\ Grown(a, roundCents(Savings(S)), b, roundCents(Savings(T)))
    BY <1>1, <2>5, <2>6, GrownIs
  <2>8. s = t => IsPrefix(x.list, y.list) \/ IsPrefix(y.list, x.list)
    BY <1>0, <1>2, <2>1, <2>2, RankingsAgree
  <2>. QED
    BY <1>4, <2>3, <2>4, <2>7, <2>8
<1>6. ASSUME u.to = "recommendations", q.provider = u.provider, q.severity # Absent, u.severity = Absent
      PROVE  Grown(a, x.count, b, y.bySeverity[q.severity])
  <2>1. y \in handleRecommendations(u, t)
    BY <1>1, <1>6, ServedIs DEF Handled
  <2>2. Recommended(q, s) = {f \in Recommended(u, s) : f.severity = q.severity}
    BY <1>6 DEF Recommended, Matches
  <2>3. q.severity \in Severities
    BY <1>3, <1>6
  <2>4. PICK S, T : S = Recommended(u, s) /\ T = Recommended(u, t)
    OBVIOUS
  <2>5. x.count = BySeverity(S)[q.severity]
    BY <1>4, <2>2, <2>3, <2>4 DEF BySeverity
  <2>6. y.bySeverity = BySeverity(T)
    BY <2>1, <2>4, RecommendationsAre
  <2>7. s <= t => NoMore(S, T)
    BY <1>0, <1>2, <2>4, RecommendedGrow
  <2>8. t <= s => NoMore(T, S)
    BY <1>0, <1>2, <2>4, RecommendedGrow
  <2>9. Grown(a, BySeverity(S)[q.severity], b, BySeverity(T)[q.severity])
    BY <1>1, <2>3, <2>7, <2>8, GrownIs
  <2>. QED
    BY <2>5, <2>6, <2>9
<1>7. ASSUME u.to = "inventory", q.provider # Absent, Matches(q.provider, u.provider)
      PROVE  /\ x.count <= y.byProvider[q.provider].count
             /\ x.savings <= y.byProvider[q.provider].cost
  <2>1. y \in handleInventory(u)
    BY <1>1, <1>7, ServedIs DEF Handled
  <2>2. q.provider \in Clouds
    BY <1>3, <1>7
  <2>3. y.byProvider = [p \in Clouds |-> [count |-> Cardinality(OfCloud(u, p)),
                                          cost |-> roundCents(CostOf(OfCloud(u, p)))]]
    BY <2>1, InventoryIs
  <2>4. /\ y.byProvider[q.provider].count = Cardinality(CloudsRows(q.provider))
        /\ y.byProvider[q.provider].cost = roundCents(CostOf(CloudsRows(q.provider)))
    BY <1>7, <2>2, <2>3, OfCloudIs
  <2>5. /\ Cardinality(Recommended(q, s)) <= Cardinality(CloudsRows(q.provider))
        /\ roundCents(Savings(Recommended(q, s))) <= roundCents(CostOf(CloudsRows(q.provider)))
    BY <1>0, <2>2, RecommendedIsListed
  <2>. QED
    BY <1>4, <2>4, <2>5
<1>8. ASSUME u.to = "inventory", Len(y.list) = y.services, NEW f \in Range(x.list),
             NEW cloud, cloud = providerForServiceAccount(f.service, Absent), Matches(cloud, u.provider)
      PROVE  \E v \in Range(y.list) : v.service = f.service /\ v.provider = cloud
  <2>1. y \in handleInventory(u) /\ u.top \in Int
    BY <1>1, <1>8, ServedIs DEF Handled, WellFormed
  <2>2. f \in Findings(s)
    BY <1>0, <1>2, <1>8, ListedIsRecommended DEF Recommended
  <2>3. cloud = "aws" /\ \E r \in table : f.service = r.service /\ ProviderOf(r) = "aws"
    BY <1>0, <1>8, <2>2, FindingsAreAWS
  <2>4. PICK r \in table : f.service = r.service /\ ProviderOf(r) = cloud
    BY <2>3
  <2>5. r \in Listed(u)
    BY <1>8, <2>4 DEF Listed
  <2>6. PICK v : v = ServiceOf(u, r)
    OBVIOUS
  <2>7. v \in Services(u)
    BY <2>5, <2>6 DEF Services
  <2>8. v.service = f.service /\ v.provider = cloud
    BY <2>4, <2>6 DEF ServiceOf
  <2>9. v \in Range(y.list)
    BY <1>0, <1>8, <2>1, <2>7, WholeInventory
  <2>. QED
    BY <2>8, <2>9
<1>. QED
  BY <1>1, <1>5, <1>6, <1>7, <1>8 DEF RecommendationsAgree, To, Filtered

DearerPairs(q) == {p \in Services(q) \X Services(q) : Dearer(p[1], p[2])}

\* A service of the inventory has a known name and an integral cost.
LEMMA ServiceHolds ==
    ASSUME TableHolds, NEW q, NEW v \in Services(q)
    PROVE  v.service \in Range(Names) /\ v.cost \in Int
<1>1. PICK r \in Listed(q) : v = ServiceOf(q, r)
  BY DEF Services
<1>2. r \in table /\ Row(r)
  BY DEF TableHolds, Listed
<1>3. v.service = r.service /\ v.cost = roundCents(CostOf(AlikeOf(q, r)))
  BY <1>1 DEF ServiceOf
<1>4. CostOf(AlikeOf(q, r)) \in Nat
  <2>1. IsFiniteSet(AlikeOf(q, r))
    BY ServicesFinite, FS_Subset DEF AlikeOf
  <2>2. \A x \in AlikeOf(q, r) : x.cost \in Nat
    BY DEF AlikeOf, Listed, TableHolds, Row
  <2>. QED
    BY <2>1, <2>2, CostIsNatural
<1>. QED
  BY <1>2, <1>3, <1>4, RoundingHolds DEF Row

\* The order of the inventory's services leaves open those of one name and cost.
LEMMA DearerIsOrder ==
    ASSUME TableHolds, NEW q
    PROVE  /\ WeakOrder(Services(q), DearerPairs(q))
           /\ \A v, w \in Services(q) : <<v, w>> \in DearerPairs(q) <=> Dearer(v, w)
           /\ \A v, w \in Services(q) : ~ Dearer(v, w) /\ ~ Dearer(w, v) =>
                  v.cost = w.cost /\ v.service = w.service
<1> DEFINE S == Services(q)
           R == DearerPairs(q)
           cost == [v \in S |-> v.cost]
           rank == [v \in S |-> Rank(v.service)]
<1>1. cost \in [S -> Int] /\ rank \in [S -> Int]
  <2>1. \A v \in S : v.cost \in Int /\ Rank(v.service) \in Int
    BY ServiceHolds, RankHolds
  <2>. QED
    BY <2>1
<1>2. \A v, w \in S : <<v, w>> \in R <=> Dearer(v, w)
  BY DEF DearerPairs
<1>3. \A v, w \in S : Dearer(v, w) <=> cost[v] > cost[w] \/ (cost[v] = cost[w] /\ rank[v] < rank[w])
  BY DEF Dearer
<1>4. \A v, w \in S : cost[v] = cost[w] /\ rank[v] = rank[w] => v.cost = w.cost /\ v.service = w.service
  BY ServiceHolds, RankHolds
<1>. HIDE DEF S, R, cost, rank
<1>5. WeakOrder(S, R)
  BY <1>1, <1>2, <1>3 DEF WeakOrder
<1>6. \A v, w \in S : ~ Dearer(v, w) /\ ~ Dearer(w, v) => cost[v] = cost[w] /\ rank[v] = rank[w]
  BY <1>1, <1>3
<1>. QED
  BY <1>2, <1>4, <1>5, <1>6 DEF S, R

\* Two arrangements of the same services tell the same names and costs.
LEMMA OneInventory ==
    ASSUME TableHolds, NEW q, NEW s \in SetToSeqs(Services(q)), NEW t \in SetToSeqs(Services(q)),
           \A i, j \in DOMAIN s : i < j => ~ Dearer(s[j], s[i]),
           \A i, j \in DOMAIN t : i < j => ~ Dearer(t[j], t[i])
    PROVE  LET n == Cardinality(Services(q))
           IN  /\ n \in Nat /\ s \in [1..n -> Services(q)] /\ t \in [1..n -> Services(q)]
               /\ \A i \in 1..n : s[i].cost = t[i].cost /\ s[i].service = t[i].service
<1> DEFINE S == Services(q)
           R == DearerPairs(q)
           n == Cardinality(S)
<1>1. IsFiniteSet(S)
  BY ServicesFinite
<1>2. /\ WeakOrder(S, R)
      /\ \A v, w \in S : <<v, w>> \in R <=> Dearer(v, w)
      /\ \A v, w \in S : ~ Dearer(v, w) /\ ~ Dearer(w, v) => v.cost = w.cost /\ v.service = w.service
  BY DearerIsOrder
<1>. HIDE DEF S, R
<1>3. /\ n \in Nat
      /\ s \in [1..n -> S] /\ (\A i, j \in 1..n : s[i] = s[j] => i = j) /\ (\A x \in S : \E k \in 1..n : s[k] = x)
      /\ t \in [1..n -> S] /\ (\A i, j \in 1..n : t[i] = t[j] => i = j) /\ (\A x \in S : \E k \in 1..n : t[k] = x)
  BY <1>1, ArrangementHolds DEF S
<1>. HIDE DEF n
<1>4. /\ \A j, k \in 1..n : j < k => <<s[k], s[j]>> \notin R
      /\ \A j, k \in 1..n : j < k => <<t[k], t[j]>> \notin R
  BY <1>2, <1>3
<1>6. WeakOrder(S, R)
  BY <1>2
<1>5. ASSUME NEW i \in 1..n PROVE s[i].cost = t[i].cost /\ s[i].service = t[i].service
  <2>0. i <= i
    BY <1>3
  <2>1. <<t[i], s[i]>> \notin R
    BY <1>3, <1>4, <1>6, <2>0, SamePlaces
  <2>2. <<s[i], t[i]>> \notin R
    BY <1>3, <1>4, <1>6, <2>0, SamePlaces
  <2>3. s[i] \in S /\ t[i] \in S
    BY <1>3
  <2>. QED
    BY <1>2, <2>1, <2>2, <2>3
<1>. QED
  BY <1>3, <1>5 DEF S, n

KeysOf(list) == [i \in DOMAIN list |-> <<list[i].service, list[i].cost>>]

\* Inventories of the same services, cut anywhere, list the same names and costs.
LEMMA InventoryKeysAgree ==
    ASSUME TableHolds, NEW q, NEW u, Services(u) = Services(q), q.top \in Int, u.top \in Int,
           NEW x \in handleInventory(q), NEW y \in handleInventory(u)
    PROVE  IsPrefix(KeysOf(x.list), KeysOf(y.list)) \/ IsPrefix(KeysOf(y.list), KeysOf(x.list))
<1>1. PICK s \in SetToSeqs(Services(q)) :
         /\ x.list = FirstOf(s, Clamped(q.top, "inventory"))
         /\ \A i, j \in DOMAIN s : i < j => ~ Dearer(s[j], s[i])
  BY InventoryIs
<1>2. PICK t \in SetToSeqs(Services(q)) :
         /\ y.list = FirstOf(t, Clamped(u.top, "inventory"))
         /\ \A i, j \in DOMAIN t : i < j => ~ Dearer(t[j], t[i])
  BY InventoryIs
<1>3. PICK n : n = Cardinality(Services(q))
  OBVIOUS
<1>4. /\ n \in Nat /\ s \in [1..n -> Services(q)] /\ t \in [1..n -> Services(q)]
      /\ \A i \in 1..n : s[i].cost = t[i].cost /\ s[i].service = t[i].service
  BY <1>1, <1>2, <1>3, OneInventory
<1>5. PICK m, k : m = Clamped(q.top, "inventory") /\ k = Clamped(u.top, "inventory")
  OBVIOUS
<1>6. m \in Nat /\ k \in Nat
  BY <1>5, ClampedHolds DEF Lists
<1>7. PICK a, b : a = Fewer(m, n) /\ b = Fewer(k, n)
  OBVIOUS
<1>8. a \in 0..n /\ Begins(x.list, s, a, Services(q))
  BY <1>1, <1>4, <1>5, <1>6, <1>7, CutList
<1>9. b \in 0..n /\ Begins(y.list, t, b, Services(q))
  BY <1>2, <1>4, <1>5, <1>6, <1>7, CutList
<1>10. PICK v, w : v = x.list /\ w = y.list
  OBVIOUS
<1>11. /\ v \in [1..a -> Services(q)] /\ w \in [1..b -> Services(q)]
       /\ (\A i \in 1..a : v[i] = s[i]) /\ \A i \in 1..b : w[i] = t[i]
  BY <1>8, <1>9, <1>10 DEF Begins
<1> DEFINE T == Range(Names) \X Int
<1>12. KeysOf(v) \in [1..a -> T] /\ \A i \in 1..a : KeysOf(v)[i] = <<v[i].service, v[i].cost>>
  BY <1>11, ServiceHolds DEF KeysOf
<1>13. KeysOf(w) \in [1..b -> T] /\ \A i \in 1..b : KeysOf(w)[i] = <<w[i].service, w[i].cost>>
  BY <1>11, ServiceHolds DEF KeysOf
<1>14. \A i \in (1..a) \cap (1..b) : KeysOf(v)[i] = KeysOf(w)[i]
  <2>1. \A i \in (1..a) \cap (1..b) : i \in 1..n
    BY <1>4, <1>8
  <2> SUFFICES ASSUME NEW i \in (1..a) \cap (1..b) PROVE KeysOf(v)[i] = KeysOf(w)[i]
    OBVIOUS
  <2>2. v[i] = s[i] /\ w[i] = t[i]
    BY <1>11
  <2>3. s[i].cost = t[i].cost /\ s[i].service = t[i].service
    BY <1>4, <2>1
  <2>4. KeysOf(v)[i] = <<v[i].service, v[i].cost>>
    BY <1>12
  <2>5. KeysOf(w)[i] = <<w[i].service, w[i].cost>>
    BY <1>13
  <2>. QED
    BY <2>2, <2>3, <2>4, <2>5
<1>15. a \in Nat /\ b \in Nat
  BY <1>4, <1>8, <1>9
<1>. HIDE DEF T
<1>16. PICK f, g : f = KeysOf(v) /\ g = KeysOf(w)
  OBVIOUS
<1>17. IsPrefix(f, g) \/ IsPrefix(g, f)
  BY <1>12, <1>13, <1>14, <1>15, <1>16, PrefixOfOther
<1>. QED
  BY <1>10, <1>16, <1>17

\* Inventories agree with each other.
LEMMA InventoriesAgreeAlways ==
    ASSUME ApiInv, NEW a \in Served, NEW b \in Served
    PROVE  InventoriesAgree(a, b)
<1> SUFFICES ASSUME To(a, "inventory"), To(b, "inventory")
             PROVE  InventoriesAgree(a, b)
  BY DEF InventoriesAgree
<1>0. TableHolds
  BY DEF ApiInv, DataHold
<1>1. PICK x, y, q, u : x = a.answer /\ y = b.answer /\ q = a.request /\ u = b.request
  OBVIOUS
<1>2. q.top \in Int /\ x \in handleInventory(q) /\ u.top \in Int /\ y \in handleInventory(u)
  BY <1>1, ServedIs DEF To, Handled, WellFormed
<1>3. q.provider \in Clouds \cup {Absent}
  <2>1. Invalid(q) = {}
    BY <1>1, ServedIs
  <2>. QED
    BY <1>1, <2>1 DEF Invalid, To
<1>4. ASSUME q.provider # Absent, u.provider = Absent
      PROVE  /\ x.count = y.byProvider[q.provider].count
             /\ x.cost = y.byProvider[q.provider].cost
  <2>1. q.provider \in Clouds
    BY <1>3, <1>4
  <2>2. y.byProvider = [p \in Clouds |-> [count |-> Cardinality(OfCloud(u, p)),
                                          cost |-> roundCents(CostOf(OfCloud(u, p)))]]
    BY <1>2, InventoryIs
  <2>3. /\ y.byProvider[q.provider].count = Cardinality(OfCloud(u, q.provider))
        /\ y.byProvider[q.provider].cost = roundCents(CostOf(OfCloud(u, q.provider)))
    BY <2>1, <2>2
  <2>4. Listed(q) = OfCloud(u, q.provider)
    BY <1>4 DEF OfCloud, Listed, Matches
  <2>5. x.count = Cardinality(Listed(q)) /\ x.cost = roundCents(CostOf(Listed(q)))
    BY <1>2, InventoryIs
  <2>. QED
    BY <2>3, <2>4, <2>5
<1>5. ASSUME q.provider = u.provider
      PROVE  /\ x.services = y.services /\ x.cost = y.cost
             /\ IsPrefix(KeysOf(x.list), KeysOf(y.list)) \/ IsPrefix(KeysOf(y.list), KeysOf(x.list))
  <2>1. Listed(u) = Listed(q)
    BY <1>5 DEF Listed
  <2>2. Services(u) = Services(q)
    BY <2>1 DEF Services, ServiceOf, AlikeOf
  <2>3. /\ x.services = Cardinality(Services(q)) /\ x.cost = roundCents(CostOf(Listed(q)))
        /\ y.services = Cardinality(Services(u)) /\ y.cost = roundCents(CostOf(Listed(u)))
    BY <1>2, InventoryIs
  <2>4. IsPrefix(KeysOf(x.list), KeysOf(y.list)) \/ IsPrefix(KeysOf(y.list), KeysOf(x.list))
    BY <1>0, <1>2, <2>2, InventoryKeysAgree
  <2>. QED
    BY <2>1, <2>2, <2>3, <2>4
<1>. QED
  BY <1>1, <1>4, <1>5 DEF InventoriesAgree, Filtered, KeysOf

-----------------------------------------------------------------------------
\* The services of a cloud add up to what the cost summary says of it.
LEMMA CostsAgreeAlways ==
    ASSUME ApiInv, NEW a \in Served, NEW b \in Served
    PROVE  CostsAgree(a, b)
<1>1. PICK x, y, q, u : x = a.answer /\ y = b.answer /\ q = a.request /\ u = b.request
  OBVIOUS
<1> SUFFICES ASSUME q.to = "cost-summary", u.to = "cost-by-service", q.start = u.start, q.end = u.end,
                    q.providers = {} \/ u.provider \in q.providers
             PROVE  y.total = IF u.provider \in DOMAIN x.providers THEN x.providers[u.provider] ELSE 0
  BY <1>1 DEF CostsAgree, To
<1> DEFINE all == Costs(q.start, q.end)
           its == {rec \in all : q.providers = {} \/ rec.provider \in q.providers}
           part(p) == {rec \in its : rec.provider = p}
<1>2. x \in handleCostSummary(q) /\ y \in handleCostByService(u)
  BY <1>1, ServedIs DEF Handled
<1>3. x.providers = [p \in {rec.provider : rec \in its} |-> roundCents(UsdOf(part(p)))]
  <2>1. PICK f : f = [p \in {rec.provider : rec \in its} |-> roundCents(UsdOf(part(p)))]
    OBVIOUS
  <2>2. x = [grand |-> roundCents(UsdOf(its)), providers |-> f]
    BY <1>2, <2>1, Zenon DEF handleCostSummary
  <2>. QED
    BY <2>1, <2>2
<1>4. y.total = roundCents(UsdOf({rec \in all : rec.provider = u.provider}))
  <2>1. PICK total : total = roundCents(UsdOf({rec \in all : rec.provider = u.provider}))
    OBVIOUS
  <2>2. \E list : y = [total |-> total, list |-> list]
    <3>1. Costs(u.start, u.end) = all
      OBVIOUS
    <3>. HIDE DEF all
    <3>. QED
      BY <1>2, <2>1, <3>1 DEF handleCostByService
  <2>. QED
    BY <2>1, <2>2
<1>5. {rec \in all : rec.provider = u.provider} = part(u.provider)
  OBVIOUS
<1>6. CASE u.provider \in {rec.provider : rec \in its}
  BY <1>3, <1>4, <1>5, <1>6
<1>7. CASE u.provider \notin {rec.provider : rec \in its}
  <2>1. part(u.provider) = {}
    BY <1>7
  <2>2. UsdOf({}) = 0
    BY SumOfNone DEF UsdOf
  <2>3. y.total = 0
    BY <1>4, <1>5, <2>1, <2>2, RoundingHolds
  <2>4. u.provider \notin DOMAIN x.providers
    BY <1>3, <1>7
  <2>. QED
    BY <2>3, <2>4
<1>. QED
  BY <1>6, <1>7

\* More rows, no less cost.
LEMMA CostGrows ==
    ASSUME NEW E, IsFiniteSet(E), \A s \in E : s.cost \in Nat, NEW D \in SUBSET E
    PROVE  CostOf(D) \in Nat /\ CostOf(E) \in Nat /\ CostOf(D) <= CostOf(E)
<1>1. IsFiniteSet(D)
  BY FS_Subset
<1>2. PICK f, g, p : f = [s \in D |-> s.cost] /\ g = [s \in E |-> s.cost] /\ p = [s \in D |-> s]
  OBVIOUS
<1>3. /\ f \in [D -> Int] /\ g \in [E -> Nat] /\ p \in [D -> E]
      /\ (\A s \in D : f[s] <= g[p[s]]) /\ \A s, t \in D : p[s] = p[t] => s = t
  BY <1>2
<1>4. SumFunction(f) <= SumFunction(g)
  BY <1>1, <1>3, SumEmbeds
<1>5. CostOf(D) \in Nat /\ CostOf(E) \in Nat
  BY <1>1, CostIsNatural
<1>. QED
  BY <1>2, <1>4, <1>5 DEF CostOf

\* What a day of a trend costs is a natural, and no less than one cloud's part.
LEMMA DayCosts ==
    ASSUME SnapshotsHold, NEW from, NEW date, NEW filter
    PROVE  /\ CostOf(LatestOf(from, date)) \in Nat
           /\ CostOf(Its(LatestOf(from, date), filter)) \in Nat
           /\ CostOf(Its(LatestOf(from, date), filter)) <= CostOf(LatestOf(from, date))
           /\ Its(LatestOf(from, date), Absent) = LatestOf(from, date)
<1>1. PICK E : E = LatestOf(from, date)
  OBVIOUS
<1>2. E \subseteq snapshots
  BY <1>1 DEF LatestOf, ListTrends, Recent
<1>3. IsFiniteSet(E) /\ \A s \in E : s.cost \in Nat
  BY <1>2, FS_Subset DEF SnapshotsHold
<1>4. Its(E, filter) \in SUBSET E /\ Its(E, Absent) = E
  BY DEF Its, Matches
<1>. QED
  BY <1>1, <1>3, <1>4, CostGrows

Point == [date : Nat, cost : Int]

\* A trend is a sequence with a point for each of its dates.
LEMMA PointsHold ==
    ASSUME SnapshotsHold, NEW from, NEW filter
    PROVE  /\ TrendOf(from, filter) \in [1..DayCount(from) -> Point]
           /\ Len(TrendOf(from, filter)) = DayCount(from)
<1>1. PICK n, f : n = DayCount(from) /\ f = TrendOf(from, filter)
  OBVIOUS
<1>2. n \in Nat /\ \A i \in 1..n : Dates(from)[i] \in Nat
  BY <1>1, DatesHold
<1>3. DOMAIN f = 1..n
  BY <1>1, PointsAre
<1>4. ASSUME NEW i \in 1..n PROVE f[i] \in Point
  <2>1. PICK date, cost : date = Dates(from)[i] /\ cost = roundCents(CostOf(Its(LatestOf(from, date), filter)))
    OBVIOUS
  <2>2. f[i] = [date |-> date, cost |-> cost]
    BY <1>1, <2>1, PointsAre
  <2>3. CostOf(Its(LatestOf(from, date), filter)) \in Int
    BY DayCosts
  <2>4. cost \in Int
    BY <2>1, <2>3, RoundingHolds
  <2>. QED
    BY <1>2, <2>1, <2>2, <2>4 DEF Point
<1>5. f = [i \in DOMAIN f |-> f[i]]
  BY <1>1 DEF TrendOf, PointsOf
<1>6. f \in [1..n -> Point]
  BY <1>3, <1>4, <1>5
<1>7. Len(f) = n
  <2>. HIDE DEF Point
  <2>. QED
    BY <1>2, <1>6
<1>. QED
  BY <1>1, <1>6, <1>7

\* After the day a window begins in, one that begins earlier shows the same.
LEMMA EarlierWindow ==
    ASSUME SnapshotsHold, NEW v \in Int, NEW w \in Int, w <= v,
           NEW i \in 1..DayCount(v), i # 1
    PROVE  /\ LatestOf(w, Dates(v)[i]) = LatestOf(v, Dates(v)[i])
           /\ \E j \in 1..DayCount(w) : Dates(w)[j] = Dates(v)[i]
<1>1. PICK first, date : first = Dates(v)[1] /\ date = Dates(v)[i]
  OBVIOUS
<1>2. /\ DayCount(v) \in Nat /\ DOMAIN Dates(v) = 1..DayCount(v)
      /\ \A k \in 1..DayCount(v) : Dates(v)[k] \in Nat
      /\ \A j, k \in 1..DayCount(v) : j < k => Dates(v)[j] < Dates(v)[k]
      /\ Range(Dates(v)) = {Day(s.taken) : s \in Recent(v)}
  BY DatesHold
<1>3. 1 \in 1..DayCount(v) /\ 1 < i
  BY <1>2
<1>4. first < date /\ first \in Nat /\ date \in Nat
  BY <1>1, <1>2, <1>3
<1>5. PICK s \in Recent(v) : Day(s.taken) = first
  <2>1. first \in Range(Dates(v))
    BY <1>1, <1>2, <1>3 DEF Range
  <2>. QED
    BY <1>2, <2>1
<1>6. PICK r \in Recent(v) : Day(r.taken) = date
  <2>1. date \in Range(Dates(v))
    BY <1>1, <1>2 DEF Range
  <2>. QED
    BY <1>2, <2>1
<1>9. \A t \in snapshots : t.taken \in Nat
  BY DEF SnapshotsHold
<1>10. \A t \in snapshots : t \in Recent(v) => t \in Recent(w)
  BY <1>9 DEF Recent
<1>11. \A t \in snapshots : Day(t.taken) = date => t \in Recent(v)
  <2> SUFFICES ASSUME NEW t \in snapshots, Day(t.taken) = date PROVE t \in Recent(v)
    OBVIOUS
  <2>1. s.taken \in Nat /\ t.taken \in Nat
    BY <1>5, <1>9 DEF Recent
  <2>2. ~ (t.taken <= s.taken)
    <3> SUFFICES ASSUME t.taken <= s.taken PROVE FALSE
      OBVIOUS
    <3>1. Day(t.taken) <= Day(s.taken)
      BY <2>1, DayHolds
    <3>. QED
      BY <1>4, <1>5, <3>1
  <2>3. s.taken >= v
    BY <1>5 DEF Recent
  <2>4. t.taken >= v
    BY <2>1, <2>2, <2>3
  <2>. QED
    BY <2>4 DEF Recent
<1>12. Recent(v) \subseteq snapshots /\ Recent(w) \subseteq snapshots
  BY DEF Recent
<1>13. LatestOf(w, date) = LatestOf(v, date)
  BY <1>10, <1>11, <1>12 DEF LatestOf, ListTrends
<1>14. \E j \in 1..DayCount(w) : Dates(w)[j] = date
  <2>1. r \in Recent(w)
    BY <1>6, <1>10, <1>12
  <2>2. date \in Range(Dates(w))
    BY <1>6, <2>1, DatesHold
  <2>3. DOMAIN Dates(w) = 1..DayCount(w)
    BY DatesHold
  <2>. QED
    BY <2>2, <2>3 DEF Range
<1>. QED
  BY <1>1, <1>13, <1>14

\* In one window a cloud has a point for each of the days, and no more cost.
LEMMA OneWindow ==
    ASSUME SnapshotsHold, NEW from, NEW filter
    PROVE  /\ Len(TrendOf(from, filter)) = Len(TrendOf(from, Absent))
           /\ \A i \in DOMAIN TrendOf(from, filter) :
                /\ TrendOf(from, filter)[i].date = TrendOf(from, Absent)[i].date
                /\ TrendOf(from, filter)[i].cost <= TrendOf(from, Absent)[i].cost
<1>1. PICK n, f, g : n = DayCount(from) /\ f = TrendOf(from, filter) /\ g = TrendOf(from, Absent)
  OBVIOUS
<1>2. Len(f) = n /\ Len(g) = n /\ DOMAIN f = 1..n
  BY <1>1, PointsHold, PointsAre
<1>3. ASSUME NEW i \in 1..n
      PROVE  f[i].date = g[i].date /\ f[i].cost <= g[i].cost
  <2>1. PICK date : date = Dates(from)[i]
    OBVIOUS
  <2>2. PICK c, d : c = CostOf(Its(LatestOf(from, date), filter)) /\ d = CostOf(LatestOf(from, date))
    OBVIOUS
  <2>3. c \in Int /\ d \in Int /\ c <= d
    BY <2>2, DayCosts
  <2>4. roundCents(c) <= roundCents(d)
    BY <2>3, RoundingHolds
  <2>5. f[i].date = date /\ f[i].cost = roundCents(c)
    BY <1>1, <2>1, <2>2, PointsAre
  <2>6. g[i].date = date /\ g[i].cost = roundCents(CostOf(Its(LatestOf(from, date), Absent)))
    BY <1>1, <2>1, PointsAre
  <2>7. g[i].cost = roundCents(d)
    BY <2>2, <2>6, DayCosts
  <2>. QED
    BY <2>4, <2>5, <2>6, <2>7
<1>. QED
  BY <1>1, <1>2, <1>3

\* A later window repeats the earlier one but for its first day.
LEMMA TwoWindows ==
    ASSUME SnapshotsHold, NEW v \in Int, NEW w \in Int, w <= v, NEW filter,
           NEW i \in DOMAIN TrendOf(v, filter) \ {1}
    PROVE  TrendOf(v, filter)[i] \in Range(TrendOf(w, filter))
<1>1. i \in 1..DayCount(v) /\ i # 1
  BY PointsAre
<1>2. PICK date : date = Dates(v)[i]
  OBVIOUS
<1>3. LatestOf(w, date) = LatestOf(v, date) /\ \E j \in 1..DayCount(w) : Dates(w)[j] = date
  BY <1>1, <1>2, EarlierWindow
<1>4. PICK j \in 1..DayCount(w) : Dates(w)[j] = date
  BY <1>3
<1>5. TrendOf(v, filter)[i] = [date |-> date, cost |-> roundCents(CostOf(Its(LatestOf(v, date), filter)))]
  BY <1>1, <1>2, PointsAre
<1>6. TrendOf(w, filter)[j] = [date |-> date, cost |-> roundCents(CostOf(Its(LatestOf(w, date), filter)))]
  BY <1>4, PointsAre
<1>7. TrendOf(v, filter)[i] = TrendOf(w, filter)[j]
  BY <1>3, <1>5, <1>6
<1>8. j \in DOMAIN TrendOf(w, filter)
  BY <1>4, PointsAre
<1>. QED
  BY <1>7, <1>8 DEF Range

\* What the dashboard shows of a trend.
ShownOf(points) == [i \in DOMAIN points |-> roundCents(points[i].cost)]

\* The dashboard's trend, rounded, is the agent's since the same moment.
LEMMA DashboardShows ==
    ASSUME SnapshotsHold, NEW from, NEW points, points = PointsOf(from, CostOf)
    PROVE  /\ ShownOf(points) = [i \in DOMAIN TrendOf(from, Absent) |-> TrendOf(from, Absent)[i].cost]
           /\ Len(ShownOf(points)) = Len(TrendOf(from, Absent))
           /\ (ShownOf(points) = <<>>) <=> (TrendOf(from, Absent) = <<>>)
<1>1. PICK n, g : n = DayCount(from) /\ g = TrendOf(from, Absent)
  OBVIOUS
<1>2. n \in Nat /\ DOMAIN Dates(from) = 1..n
  BY <1>1, DatesHold
<1>5. points = [i \in 1..n |-> [date |-> Dates(from)[i], cost |-> CostOf(LatestOf(from, Dates(from)[i]))]]
  BY <1>2 DEF PointsOf, Dates, LatestOf
<1>6. ShownOf(points) = [i \in 1..n |-> roundCents(CostOf(LatestOf(from, Dates(from)[i])))]
  BY <1>5 DEF ShownOf
<1>7. DOMAIN g = 1..n
  BY <1>1, PointsAre
<1>8. ASSUME NEW i \in 1..n PROVE g[i].cost = roundCents(CostOf(LatestOf(from, Dates(from)[i])))
  <2>1. PICK date : date = Dates(from)[i]
    OBVIOUS
  <2>2. g[i].cost = roundCents(CostOf(Its(LatestOf(from, date), Absent)))
    BY <1>1, <2>1, PointsAre
  <2>3. Its(LatestOf(from, date), Absent) = LatestOf(from, date)
    BY DayCosts
  <2>. QED
    BY <2>1, <2>2, <2>3
<1>9. ShownOf(points) = [i \in DOMAIN g |-> g[i].cost]
  BY <1>6, <1>7, <1>8
<1>10. PICK shown : shown = ShownOf(points)
  OBVIOUS
<1>11. shown \in [1..n -> Int]
  <2>1. ASSUME NEW i \in 1..n PROVE roundCents(CostOf(LatestOf(from, Dates(from)[i]))) \in Int
    <3>1. CostOf(LatestOf(from, Dates(from)[i])) \in Int
      BY DayCosts
    <3>. QED
      BY <3>1, RoundingHolds
  <2>. QED
    BY <1>6, <1>10, <2>1
<1>12. Len(shown) = n /\ (shown = <<>> <=> n = 0)
  BY <1>2, <1>11
<1>13. Len(g) = n /\ (g = <<>> <=> n = 0)
  <2>1. g \in [1..n -> Point] /\ Len(g) = n
    BY <1>1, PointsHold
  <2>2. g = <<>> <=> n = 0
    BY <1>2, <2>1
  <2>. QED
    BY <2>1, <2>2
<1>. QED
  BY <1>1, <1>9, <1>10, <1>12, <1>13

\* What an answer of the agent's trends is.
ChangeOf(points) == IF points = <<>> THEN <<>> ELSE <<points[Len(points)].cost - points[1].cost>>

\* What the agent's trend tells, since its window began.
TrendTells(x) == LET points == TrendOf(Begin(x), x.request.provider)
                 IN  /\ Begin(x) \in Int
                     /\ x.answer.points = points /\ x.answer.change = ChangeOf(points)

\* An answer about a trend is the trend since the window began and its change.
LEMMA TrendIs ==
    ASSUME ApiInv, NEW x \in Served, To(x, "cost-trends")
    PROVE  TrendTells(x)
<1>1. PICK q, moment, y : q = x.request /\ moment = x.at /\ y = x.answer
  OBVIOUS
<1>2. y \in handleCostTrends(q, moment) /\ q.days \in Int /\ moment \in Nat
  BY <1>1, ServedIs DEF Handled, WellFormed, To
<1>3. y = [points |-> CostPoints(q, moment), change |-> ChangeOf(CostPoints(q, moment))]
  BY <1>2, Zenon DEF handleCostTrends, ChangeOf
<1>4. Window(q) \in Nat
  <2>1. "trends" \in Lists
    BY DEF Lists
  <2>. QED
    BY <1>2, <2>1, ClampedHolds DEF Window
<1>5. Since(Window(q), moment) \in Int
  BY <1>2, <1>4, CostApiAssumption DEF CostApiAssumption, Since
<1>6. CostPoints(q, moment) = TrendOf(Since(Window(q), moment), q.provider)
  BY CostPointsAre
<1>. QED
  BY <1>1, <1>3, <1>5, <1>6 DEF TrendTells, Begin

\* Trends agree with each other.
LEMMA TrendsAgreeAlways ==
    ASSUME ApiInv, NEW a \in Served, NEW b \in Served
    PROVE  TrendsAgree(a, b)
<1>0. SnapshotsHold
  BY DEF ApiInv, DataHold
<1>1. PICK v, w, p, r : v = Begin(a) /\ w = Begin(b) /\ p = a.request.provider /\ r = b.request.provider
  OBVIOUS
<1>2. PICK x, y : x = a.answer.points /\ y = b.answer.points
  OBVIOUS
<1>3. To(a, "cost-trends") => v \in Int /\ x = TrendOf(v, p)
  BY <1>1, <1>2, TrendIs DEF TrendTells
<1>4. To(b, "cost-trends") => w \in Int /\ y = TrendOf(w, r) /\ b.answer.change = ChangeOf(y)
  BY <1>1, <1>2, TrendIs DEF TrendTells
<1>5. ASSUME To(a, "cost-trends"), To(b, "cost-trends"), v = w, r = Absent
      PROVE  /\ Len(x) = Len(y)
             /\ \A i \in DOMAIN x : x[i].date = y[i].date /\ x[i].cost <= y[i].cost
  BY <1>0, <1>3, <1>4, <1>5, OneWindow
<1>6. ASSUME To(a, "cost-trends"), To(b, "cost-trends"), v >= w, p = r, NEW i \in DOMAIN x
      PROVE  x[i] \in Range(y) \/ (i = 1 /\ v > w)
  <2>1. CASE v = w
    BY <1>3, <1>4, <1>6, <2>1 DEF Range
  <2>2. CASE v > w /\ i # 1
    BY <1>0, <1>3, <1>4, <1>6, <2>2, TwoWindows
  <2>. QED
    BY <1>3, <1>4, <1>6, <2>1, <2>2
<1>7. ASSUME To(a, "trends"), To(b, "cost-trends"), r = Absent, Since(Shown(a.request), a.at) = w
      PROVE  LET shown == ShownOf(x)
                 told  == [i \in DOMAIN y |-> y[i].cost]
             IN  /\ shown = told
                 /\ b.answer.change = IF shown = <<>> THEN <<>> ELSE <<shown[Len(shown)] - shown[1]>>
  <2>1. a.answer \in handleTrends(a.request, a.at)
    BY <1>7, ServedIs DEF Handled, To
  <2>2. x = PointsOf(w, CostOf)
    BY <1>2, <1>7, <2>1 DEF handleTrends
  <2>3. PICK shown : shown = ShownOf(x)
    OBVIOUS
  <2>4. /\ shown = [i \in DOMAIN y |-> y[i].cost]
        /\ Len(shown) = Len(y)
        /\ (shown = <<>>) <=> (y = <<>>)
    BY <1>0, <1>4, <1>7, <2>2, <2>3, DashboardShows
  <2>5. b.answer.change = IF y = <<>> THEN <<>> ELSE <<y[Len(y)].cost - y[1].cost>>
    BY <1>4, <1>7 DEF ChangeOf
  <2>6. y # <<>> => shown[Len(shown)] = y[Len(y)].cost /\ shown[1] = y[1].cost
    <3>1. PICK n : n = DayCount(w)
      OBVIOUS
    <3>2. n \in Nat /\ y \in [1..n -> Point] /\ Len(y) = n
      BY <1>0, <1>4, <1>7, <3>1, DatesHold, PointsHold
    <3>3. y # <<>> => n # 0
      BY <3>2
    <3>4. y # <<>> => 1 \in DOMAIN y /\ n \in DOMAIN y
      BY <3>2, <3>3
    <3>. QED
      BY <2>4, <3>2, <3>4
  <2>. QED
    BY <2>3, <2>4, <2>5, <2>6
<1>. QED
  BY <1>1, <1>2, <1>5, <1>6, <1>7 DEF TrendsAgree, Filtered, ShownOf

\* Without a subscription's functions the cloud of a service is its account's.
LEMMA CloudsTrendAlways ==
    ASSUME ApiInv, NEW a \in Served
    PROVE  CloudsTrend(a)
<1> SUFFICES ASSUME To(a, "cost-trends"), Filtered(a.request)
             PROVE  CloudsTrend(a)
  BY DEF CloudsTrend
<1>0. SnapshotsHold
  BY DEF ApiInv, DataHold
<1>1. PICK from, filter, points : from = Begin(a) /\ filter = a.request.provider /\ points = a.answer.points
  OBVIOUS
<1>2. points = TrendOf(from, filter)
  BY <1>1, TrendIs DEF TrendTells
<1>3. filter # Absent
  BY <1>1 DEF Filtered
<1>4. ASSUME NEW i \in DOMAIN points, NEW latest, latest = {s \in ListTrends(from) : Day(s.taken) = points[i].date},
             \A s \in latest : s.service = "functions" => s.account \notin UUIDs
      PROVE  points[i].cost = roundCents(CostOf({s \in latest : ProviderOf(s) = filter}))
  <2>1. i \in 1..DayCount(from)
    BY <1>0, <1>2, PointsAre
  <2>2. PICK date : date = Dates(from)[i]
    OBVIOUS
  <2>3. /\ points[i].date = date
        /\ points[i].cost = roundCents(CostOf(Its(LatestOf(from, date), filter)))
    BY <1>0, <1>2, <2>1, <2>2, PointsAre
  <2>4. latest = LatestOf(from, date)
    BY <1>4, <2>3 DEF LatestOf
  <2>5. ASSUME NEW s \in latest
        PROVE  providerForServiceAccount(s.service, Absent) = ProviderOf(s)
    <3>1. Absent \notin UUIDs
      BY CostApiAssumption DEF CostApiAssumption
    <3>2. CASE s.service = "functions"
      <4>1. s.account \notin UUIDs
        BY <1>4, <3>2
      <4>. QED
        BY <3>1, <3>2, <4>1 DEF ProviderOf, providerForServiceAccount
    <3>3. CASE s.service # "functions"
      BY <3>3 DEF ProviderOf, providerForServiceAccount
    <3>. QED
      BY <3>2, <3>3
  <2>6. Its(latest, filter) = {s \in latest : ProviderOf(s) = filter}
    BY <1>3, <2>5 DEF Its, Matches
  <2>. QED
    BY <2>3, <2>4, <2>6
<1>. QED
  BY <1>1, <1>4 DEF CloudsTrend

\* The invariant has the answers agree.
LEMMA InvIsAgreement == ApiInv => AnswersAgree
BY SummariesAgree, RecommendationsAgreeAlways, InventoriesAgreeAlways, CostsAgreeAlways, TrendsAgreeAlways,
   CloudsTrendAlways DEF AnswersAgree

\* While the tables stay, and whenever they are asked, the endpoints agree on what
\* there is and on what it costs, and on what is found in it as time lets it grow;
\* a cloud's trend is of its accounts but for the functions of subscriptions.
THEOREM EndpointsAgree == ApiSpec => []AnswersAgree
BY AnswersStand, InvIsAgreement, PTL

-----------------------------------------------------------------------------
(* The retrying round tripper.                                             *)

USE RetryAssumption DEF RetryAssumption

\* Arithmetic on int64 stays in it.
LEMMA WrapType ==
    ASSUME NEW x \in Int
    PROVE  Wrap(x) \in (-MaxInt - 1)..MaxInt
<1>1. (x + MaxInt + 1) % (2 * (MaxInt + 1)) \in 0..(2 * (MaxInt + 1) - 1)
  OBVIOUS
<1>. QED
  BY <1>1 DEF Wrap

\* What a header asks for is an integer, and the cap caps it.
LEMMA WishType ==
    ASSUME NEW h \in HeaderForms
    PROVE  Capped(Wished(h)) \in Int /\ Capped(Wished(h)) <= MaxDelay
<1>1. h.value \in Int /\ h.value * Second \in Int
  BY DEF HeaderForms
<1>2. Wished(h) \in Int
  BY <1>1, WrapType DEF Wished
<1>. QED
  BY <1>2 DEF Capped

\* The backoff before jitter lies between nothing and the cap.
LEMMA BackoffType ==
    ASSUME NEW k \in Nat
    PROVE  Backoff(k) \in 1..MaxDelay
<1>1. BaseDelay * 2^k \in Int
  OBVIOUS
<1>. QED
  BY <1>1, WrapType DEF Backoff

\* Whatever is chosen, the wait is within its bounds.
LEMMA DelayBounds ==
    ASSUME NEW k \in Nat, NEW r \in [status : Statuses \cup {"none"}, after : Headers],
           NEW d \in Delays(k, r)
    PROVE  /\ d \in Int
           /\ d <= MaxDelay \/ d = Millisecond
           /\ r.after.form = "none" => d >= Millisecond
<1>1. r.after \in HeaderForms
  OBVIOUS
<1>2. CASE r.after.form # "none"
  BY <1>1, <1>2, WishType DEF Delays
<1>3. CASE r.after.form = "none"
  <2>1. PICK j \in 0..Backoff(k) : d = IF j < Millisecond THEN Millisecond ELSE j
    BY <1>3 DEF Delays
  <2>. QED
    BY <1>3, <2>1, BackoffType
<1>. QED
  BY <1>2, <1>3

-----------------------------------------------------------------------------
\* The loop variable counts the round trips; the body, the open responses and
\* the delay are what the place in the loop says.
LoopInv ==
    /\ pc = "send" => tries = attempt
    /\ pc \in {"sent", "decide", "wait"} => tries = attempt + 1 /\ outcome = "pending"
    /\ pc = "send" => outcome = "pending" /\ open = 0
    /\ pc = "sent" => open = 0
    /\ pc = "wait" => attempt < MaxRetries /\ Retryable
    /\ pc = "returned" => outcome # "pending"
    /\ outcome = "response" => resp # NoResponse
    /\ resp.status = "none" => resp = NoResponse
    /\ attempt <= MaxRetries

IInv == TypeOK /\ WithinWindow /\ LoopInv /\ TriesSpent /\ BodiesKept /\ DelayInBounds

\* The invariant holds initially.
LEMMA IInvInit == Init => IInv
BY DEF Init, IInv, TypeOK, LoopInv, TriesSpent, BodiesKept, DelayInBounds, WithinWindow,
       NoResponse, NoHeader, Statuses

\* Every step keeps the invariant.
LEMMA IInvStep == IInv /\ [Next]_vars => IInv'
<1> SUFFICES ASSUME IInv, [Next]_vars PROVE IInv'
  OBVIOUS
<1> USE DEF IInv, TypeOK, LoopInv, TriesSpent, BodiesKept, DelayInBounds,
            WithinWindow
<1>1. CASE Send
  BY <1>1 DEF Send, ResetBody
<1>2. CASE Respond
  <2>1. PICK s \in Statuses, h \in Headers : resp' = [status |-> s, after |-> h]
    BY <1>2 DEF Respond
  <2>2. resp' # NoResponse /\ resp'.status # "none"
    BY <2>1 DEF NoResponse, Statuses
  <2>. QED
    BY <1>2, <2>1, <2>2 DEF Respond
<1>3. CASE Break
  BY <1>3 DEF Break, NoResponse
<1>4. CASE GiveBack
  BY <1>4 DEF GiveBack, Retryable, LastAttempt, NoResponse
<1>5. CASE Retry
  <2>1. /\ delay' \in Int
        /\ delay' <= MaxDelay \/ delay' = Millisecond
        /\ resp.after.form = "none" => delay' >= Millisecond
    BY <1>5, DelayBounds DEF Retry
  <2>. QED
    BY <1>5, <2>1 DEF Retry, Discard, Retryable, LastAttempt
<1>6. CASE Wake
  BY <1>6 DEF Wake, Wakes, Elapses
<1>7. CASE Cancel
  BY <1>7 DEF Cancel
<1>8. CASE UNCHANGED vars
  BY <1>8 DEF vars, Retryable
<1>. QED
  BY <1>1, <1>2, <1>3, <1>4, <1>5, <1>6, <1>7, <1>8 DEF Next

\* The strengthened invariant holds in every reachable state.
THEOREM Invariance == Spec => []IInv
BY IInvInit, IInvStep, PTL DEF Spec

\* The request, its clock and its history have their types.
THEOREM TypeCorrect == Spec => []TypeOK
BY Invariance, PTL DEF IInv

\* A retryable failure reaches the caller only after every attempt was made.
THEOREM TriesAreSpent == Spec => []TriesSpent
BY Invariance, PTL DEF IInv

\* Every attempt sends the whole body, and only the returned response is open.
THEOREM BodiesAreKept == Spec => []BodiesKept
BY Invariance, PTL DEF IInv

\* No header, backoff or overflow makes a wait longer than the cap.
THEOREM DelaysBounded == Spec => []DelayInBounds
BY Invariance, PTL DEF IInv

\* No attempt starts after the request's window.
THEOREM WindowHolds == Spec => []WithinWindow
BY Invariance, PTL DEF IInv

-----------------------------------------------------------------------------
(* The call of a language model.                                           *)

\* What the models do with a response is no step of the transport's.
LEMMA ProviderStep == [ProviderNext]_providerVars => [Next]_vars
BY DEF ProviderNext, providerVars, Do, DoFails, ReadAll, ReadBreaks, Judge, Return

\* Under each of the models the transport is the transport.
THEOREM ProviderRuns == ProviderSpec => Spec
<1>1. ProviderInit => Init
  BY DEF ProviderInit
<1>. QED
  BY <1>1, ProviderStep, PTL DEF ProviderSpec, Spec

\* Whether a body is due to be closed follows from what the transport returned.
CallInv ==
    /\ ProviderTypeOK
    /\ sent = "whole"
    /\ outcome = "error" => resp = NoResponse
    /\ outcome # "pending" => pc = "returned"
    /\ stage # "returned" => ~ closed /\ result = "pending"
    /\ stage = "read" => pc = "returned" /\ outcome = "response" /\ read \in Payloads
    /\ stage = "returned" => /\ pc = "returned"
                             /\ outcome \in {"response", "error", "cancelled"}
                             /\ closed <=> outcome = "response"
    /\ result \in {"empty", "text"} => resp.status = "ok" /\ read.json /\ read.first = result

\* The call's invariant at the start,
LEMMA CallInit == ProviderInit => CallInv
<1> SUFFICES ASSUME ProviderInit PROVE CallInv
  OBVIOUS
<1>1. TypeOK
  BY IInvInit DEF ProviderInit, IInv
<1>. QED
  BY <1>1 DEF ProviderInit, Init, CallInv, ProviderTypeOK

\* and after every step.
LEMMA CallStep == CallInv /\ IInv /\ IInv' /\ [ProviderNext]_providerVars => CallInv'
<1> SUFFICES ASSUME CallInv, IInv, IInv', [ProviderNext]_providerVars PROVE CallInv'
  OBVIOUS
<1>0. TypeOK'
  BY DEF IInv
<1>1. CASE Do
  <2>1. stage = "calling" /\ UNCHANGED call /\ Next
    BY <1>1 DEF Do
  <2>2. sent' = "whole"
    BY <2>1 DEF CallInv, Next, Send, Respond, Break, GiveBack, Retry, Wake, Cancel, ResetBody
  <2>3. /\ outcome' = "error" => resp' = NoResponse
        /\ outcome' # "pending" => pc' = "returned"
    BY <2>1 DEF CallInv, IInv, LoopInv, Next, Send, Respond, Break, GiveBack, Retry, Wake, Cancel
  <2>. QED
    BY <1>0, <2>1, <2>2, <2>3 DEF CallInv, ProviderTypeOK, call
<1>2. CASE DoFails
  BY <1>0, <1>2 DEF DoFails, Return, CallInv, ProviderTypeOK, vars
<1>3. CASE ReadAll
  BY <1>0, <1>3 DEF ReadAll, CallInv, ProviderTypeOK, vars
<1>4. CASE ReadBreaks
  BY <1>0, <1>4 DEF ReadBreaks, Return, CallInv, ProviderTypeOK, vars
<1>5. CASE Judge
  <2>0. stage = "read" /\ read \in Payloads
    BY <1>5 DEF Judge, CallInv
  <2>1. read.first \in {"none", "empty", "text"}
    BY <2>0 DEF Payloads
  <2>2. /\ stage' = "returned" /\ closed' /\ result' = Judged
        /\ UNCHANGED <<vars, provider, read>>
    BY <1>5 DEF Judge, Return
  <2>3. result' \in {"failed", "empty", "text"}
        /\ (result' \in {"empty", "text"} => resp.status = "ok" /\ read.json /\ read.first = result')
    BY <2>1, <2>2 DEF Judged, TextOf
  <2>. QED
    BY <1>0, <2>0, <2>2, <2>3 DEF CallInv, ProviderTypeOK, vars
<1>6. CASE UNCHANGED providerVars
  BY <1>0, <1>6 DEF providerVars, vars, call, CallInv, ProviderTypeOK
<1>. QED
  BY <1>1, <1>2, <1>3, <1>4, <1>5, <1>6 DEF ProviderNext

\* The invariant of the call holds in every reachable state.
THEOREM CallInvariance == ProviderSpec => [](CallInv /\ IInv)
<1>1. ProviderSpec => []IInv
  BY ProviderRuns, Invariance, PTL
<1>. QED
  BY <1>1, CallInit, CallStep, PTL DEF ProviderSpec

\* The call and what is read of its response have their types.
THEOREM ProviderTypeCorrect == ProviderSpec => []ProviderTypeOK
BY CallInvariance, PTL DEF CallInv

\* No prompt and no answer is cut short, and no body is left open.
THEOREM BodiesAreWhole == ProviderSpec => []BodiesWhole
<1>1. CallInv /\ IInv => BodiesWhole
  BY DEF CallInv, IInv, LoopInv, BodiesWhole, BodiesKept
<1>. QED
  BY <1>1, CallInvariance, PTL
==============================================================================
