------------------------------- MODULE CostApi -------------------------------
(***************************************************************************)
(* `oracle serve` (internal/api): the dashboard's and the agent's          *)
(* endpoints over the tables that `oracle seed` fills (internal/db), the   *)
(* rules that find waste in them (internal/analyzer) and the sources of    *)
(* costs (internal/billing).  Every endpoint reads the tables and the      *)
(* clock by itself and sums up, sorts and cuts them in its own way.        *)
(* Amounts are in tenths of a cent in the tables and in cents in answers.  *)
(***************************************************************************)
EXTENDS Integers, Sequences, FiniteSets, Functions, SequencesExt

CONSTANTS
    Scans,          \* what a seed may list: sets of resources of one account
    MaxSeeds,       \* bound: how many seeds run
    TicksPerDay,    \* of the clock behind NOW() and time.Since
    MaxClock,       \* bound: until when the clock runs
    UUIDs,          \* accounts whose id has the shape of an Azure subscription
    Names,          \* the names of services, in the order of strings
    Sources,        \* the sources of costs the server may be started with
    Bill,           \* [the clouds among Sources -> set of billed lines]
    Sessions,       \* sets of requests, each what one client asks
    Default, Limit  \* [Lists -> Nat]: the lengths of lists, unless asked, and at most;
                    \* of trends, in days

Clouds == {"aws", "gcp", "azure"}
Severities == {"high", "medium", "low"}
Lists == {"findings", "recommendations", "inventory", "services", "trends"}

\* A parameter that is not given.
Absent == ""

\* Numbers are whole when they come to a handler (parseIntOr).
WellFormed(q) ==
    /\ q.to = "findings" => q.size \in Int /\ q.page \in Int
    /\ q.to \in {"recommendations", "inventory", "cost-by-service"} => q.top \in Int
    /\ q.to \in {"trends", "cost-trends"} => q.days \in Int
    /\ q.to \in {"cost-summary", "cost-by-service"} => q.start \in Int /\ q.end \in Int

ASSUME CostApiAssumption ==
    /\ MaxSeeds \in Nat /\ MaxClock \in Nat /\ TicksPerDay \in Nat \ {0}
    /\ Absent \notin UUIDs
    /\ Sources \subseteq Clouds \cup {"snapshots"}
    /\ \A cloud \in Sources \cap Clouds : IsFiniteSet(Bill[cloud])
    /\ Default \in [Lists -> Nat \ {0}] /\ Limit \in [Lists -> Nat \ {0}]
    /\ Names \in Seq(Range(Names))
    /\ \A scan \in Scans : IsFiniteSet(scan) /\ \A r, x \in scan :
          /\ r.id \in Nat /\ r.cost \in Nat /\ r.born \in Int /\ r.service \in Range(Names)
          /\ r.account = x.account /\ (r.id = x.id => r = x)
    /\ \A session \in Sessions : \A q \in session : WellFormed(q)

VARIABLES
    source,     \* where the v1 cost endpoints get their numbers
    table,      \* the table resources
    unsaved,    \* what the running seed has upserted and not yet summed up
    snapshots,  \* the table cost_snapshots
    clock,      \* NOW(); a request reads it once
    seeds,      \* how many seeds have run
    answers     \* history: two exchanges since the tables last changed, and when they were

apiVars == <<source, table, unsaved, snapshots, clock, seeds, answers>>

Cents(amount) == amount \div 10             \* int(amount * 100)
roundCents(amount) == (amount + 5) \div 10
Rank(name) == CHOOSE i \in DOMAIN Names : Names[i] = name
Day(tick) == tick \div TicksPerDay

\* Default sources start with their credentials or fall back to the snapshots.
ApiInit ==
    /\ source \in Sources \cup {"snapshots"}
    /\ table = {}
    /\ unsaved = {}
    /\ snapshots = {}
    /\ clock = 0
    /\ seeds = 0
    /\ answers = {}

Remembered == 2     \* bound: exchanges before the history starts anew

-----------------------------------------------------------------------------
(* A seed: one transaction upserts what was listed, another records what   *)
(* it costs.  Requests come between the two.                               *)

Find(id) == {r \in table : r.id = id}

\* A row that is there keeps all but its cost and its usage, the day it was born too.
Upserted(r) ==
    IF Find(r.id) = {} THEN r
    ELSE LET row == CHOOSE row \in Find(r.id) : TRUE
         IN  [id |-> row.id, account |-> row.account, service |-> row.service,
              cost |-> r.cost, idle |-> r.idle, born |-> row.born, large |-> row.large]

Upsert(scan) ==
    /\ seeds < MaxSeeds
    /\ table' = {row \in table : \A r \in scan : r.id # row.id} \cup {Upserted(r) : r \in scan}
    /\ unsaved' = scan
    /\ seeds' = seeds + 1
    /\ answers' = {}
    /\ UNCHANGED <<source, snapshots, clock>>

CostOf(S) == SumFunction([r \in S |-> r.cost])

Snapshot(scan) ==
    {[taken |-> clock, account |-> r.account, service |-> r.service,
      cost |-> CostOf({x \in scan : x.service = r.service})] : r \in scan}

\* A seed that fails here never gets to it, and another one starts.
Record ==
    /\ unsaved # {}
    /\ clock < MaxClock
    /\ snapshots' = snapshots \cup Snapshot(unsaved)
    /\ unsaved' = {}
    /\ clock' = clock + 1
    /\ answers' = {}
    /\ UNCHANGED <<source, table, seeds>>

\* Time passes; resources grow older and snapshots leave the windows.
Pass ==
    /\ clock < MaxClock
    /\ Cardinality(answers) < Remembered
    /\ clock' = clock + 1
    /\ UNCHANGED <<source, table, unsaved, snapshots, seeds, answers>>

-----------------------------------------------------------------------------
\* Lists

\* A number that is absent, malformed or not positive gives the default.
Clamped(asked, list) == IF asked <= 0 THEN Default[list]
                        ELSE IF asked > Limit[list] THEN Limit[list] ELSE asked

\* The orders an unstable sort may leave a set in.
Arranged(S, Before(_, _)) ==
    {s \in SetToSeqs(S) : \A i, j \in DOMAIN s : i < j => ~ Before(s[j], s[i])}

\* A stable sort of a sequence.
Sorted(s, Before(_, _)) ==
    LET place(i) == Cardinality({j \in DOMAIN s :
                        Before(s[j], s[i]) \/ (j <= i /\ ~ Before(s[i], s[j]))})
    IN  [k \in DOMAIN s |-> s[CHOOSE i \in DOMAIN s : place(i) = k]]

FirstOf(s, n) == SubSeq(s, 1, IF n < Len(s) THEN n ELSE Len(s))

-----------------------------------------------------------------------------
\* Clouds and rules

providerForServiceAccount(service, account) ==
    CASE service \in {"ec2", "rds", "ebs", "lambda"}           -> "aws"
      [] service \in {"compute", "cloudsql", "persistent-disk"} -> "gcp"
      [] service \in {"vm", "sql", "managed-disk"}              -> "azure"
      [] service = "functions" -> IF account \in UUIDs THEN "azure" ELSE "gcp"
      [] OTHER -> "other"

ProviderOf(r) == providerForServiceAccount(r.service, r.account)

\* Each rule is for one service; a resource is idle by its rule's threshold.
Flagged(r, now) ==
    r.idle /\ \/ r.service \in {"rds", "ebs"}
              \/ r.service = "ec2" /\ now - r.born >= 7 * TicksPerDay
              \/ r.service = "lambda" /\ r.large

Finding(r) ==
    LET of(severity, savings) == [id |-> r.id, service |-> r.service, severity |-> severity,
                                  cost |-> r.cost, savings |-> savings]
    IN  CASE r.service = "rds"    -> of("medium", r.cost \div 2)
          [] r.service = "lambda" -> of("low", (r.cost * 3) \div 10)
          [] OTHER                -> of("high", r.cost)

Findings(now) == {Finding(r) : r \in {x \in table : Flagged(x, now)}}
Savings(S) == SumFunction([f \in S |-> f.savings])
BySeverity(S) == [s \in Severities |-> Cardinality({f \in S : f.severity = s})]

\* The findings by savings, in the order of the rows where they are equal.
Analyze(now) == Arranged(Findings(now), LAMBDA f, g : Cents(f.savings) > Cents(g.savings))

-----------------------------------------------------------------------------
\* The dashboard's endpoints; each gives the set of its possible answers.

handleResources == {[count |-> Cardinality(table), cost |-> CostOf(table)]}

SeverityRank == [low |-> 1, medium |-> 2, high |-> 3]

SortKey(f, column) ==
    CASE column = "severity" -> SeverityRank[f.severity]
      [] column = "service"  -> Rank(f.service)
      [] column = "cost"     -> f.cost
      [] column = "savings"  -> f.savings
      [] OTHER               -> 0

\* The order of a request; the rules' own where it names no column.
Ahead(q, f, g) == IF q.order = "asc" THEN SortKey(f, q.sort) < SortKey(g, q.sort)
                  ELSE SortKey(f, q.sort) > SortKey(g, q.sort)

\* Mutant: pages counted from nought.
FirstOnNext(page, size) == page * size + 1
FirstOn(page, size) == (page - 1) * size + 1

PageOf(q, found) ==
    LET size  == Clamped(q.size, "findings")
        pages == IF found = <<>> THEN 1 ELSE (Len(found) + size - 1) \div size
        page  == IF q.page > pages THEN pages ELSE IF q.page <= 0 THEN 1 ELSE q.page
    IN  [count |-> Len(found), savings |-> Savings(Range(found)), size |-> size,
         page |-> page, pages |-> pages,
         list |-> FirstOf(SubSeq(found, FirstOn(page, size), Len(found)), size)]

handleFindings(q, now) ==
    {PageOf(q, Sorted(found, LAMBDA f, g : Ahead(q, f, g))) : found \in Analyze(now)}

handleSummary(now) ==
    {[count |-> Cardinality(table), cost |-> CostOf(table),
      savings |-> Savings(Findings(now)), findings |-> Cardinality(Findings(now)),
      bySeverity |-> BySeverity(Findings(now)),
      byProvider |-> [p \in Clouds |-> LET its == {r \in table : ProviderOf(r) = p}
                                       IN  [count |-> Cardinality(its), cost |-> CostOf(its)]]]}

-----------------------------------------------------------------------------
\* Recommendations and inventory

\* Mutant: the test for emptiness on the wrong variable.
MatchesBlank(provider, filter) == provider = Absent \/ provider = filter
Matches(provider, filter) == filter = Absent \/ provider = filter

\* The account is not in a finding.
handleRecommendations(q, now) ==
    LET its == {f \in Findings(now) : /\ Matches(providerForServiceAccount(f.service, Absent), q.provider)
                                      /\ Matches(f.severity, q.severity)}
        before(f, g) == \/ roundCents(f.savings) > roundCents(g.savings)
                        \/ roundCents(f.savings) = roundCents(g.savings) /\ f.id < g.id
    IN  {[count |-> Cardinality(its), savings |-> roundCents(Savings(its)),
          bySeverity |-> BySeverity(its),
          list |-> FirstOf(items, Clamped(q.top, "recommendations"))] : items \in Arranged(its, before)}

\* Services of one name and cost come in any order.
handleInventory(q) ==
    LET its == {r \in table : Matches(ProviderOf(r), q.provider)}
        service(r) ==
            LET alike == {x \in its : ProviderOf(x) = ProviderOf(r) /\ x.service = r.service}
            IN  [provider |-> ProviderOf(r), service |-> r.service,
                 count |-> Cardinality(alike), cost |-> roundCents(CostOf(alike))]
        services == {service(r) : r \in its}
        before(a, b) == \/ a.cost > b.cost
                        \/ a.cost = b.cost /\ Rank(a.service) < Rank(b.service)
        of(p) == {r \in its : ProviderOf(r) = p}
    IN  {[count |-> Cardinality(its), cost |-> roundCents(CostOf(its)),
          services |-> Cardinality(services),
          byProvider |-> [p \in Clouds |-> [count |-> Cardinality(of(p)),
                                            cost |-> roundCents(CostOf(of(p)))]],
          list |-> FirstOf(list, Clamped(q.top, "inventory"))] : list \in Arranged(services, before)}

-----------------------------------------------------------------------------
\* Trends: what each service cost by its last snapshot of each day.

Since(days, now) == now - days * TicksPerDay

Recent(from) == {s \in snapshots : s.taken >= from}

ListTrends(from) ==
    {s \in Recent(from) : \A t \in Recent(from) :
        (Day(t.taken) = Day(s.taken) /\ t.service = s.service) => t.taken <= s.taken}

InOrder(dates) == [i \in 1..Cardinality(dates) |->
    CHOOSE d \in dates : Cardinality({e \in dates : e < d}) = i - 1]

\* A point for each of their days.
PointsOf(from, Amount(_)) ==
    LET latest == ListTrends(from)
        dates  == InOrder({Day(s.taken) : s \in latest})
    IN  [i \in DOMAIN dates |->
            [date |-> dates[i], cost |-> Amount({s \in latest : Day(s.taken) = dates[i]})]]

\* The dashboard's has no limit.
Shown(q) == IF q.days <= 0 THEN Default["trends"] ELSE q.days
handleTrends(q, now) == {[points |-> PointsOf(Since(Shown(q), now), CostOf)]}

Window(q) == Clamped(q.days, "trends")

\* The account is not in a trend.
CostPoints(q, now) == PointsOf(Since(Window(q), now), LAMBDA S : roundCents(CostOf(
    {s \in S : Matches(providerForServiceAccount(s.service, Absent), q.provider)})))

handleCostTrends(q, now) ==
    LET points == CostPoints(q, now)
        delta  == points[Len(points)].cost - points[1].cost
    IN  {[points |-> points,
          change |-> IF points = <<>> THEN <<>> ELSE <<delta>>]}

-----------------------------------------------------------------------------
\* Costs of a period of whole days

\* A period ends a nanosecond before a day does.  Of its length in hours
\* float64 keeps that nanosecond up to 4096 hours and loses it beyond.
Lost(days) == 24 * days > 4096
periodDays(start, end) ==
    LET days == end - start + 1
    IN  (IF Lost(days) THEN days ELSE days - 1) + 1

InPeriod(start, end) == {s \in snapshots : Day(s.taken) \in start..end}

\* Amounts are multiples of what makes the averages and the scaling exact.
AverageOf(account, service, S) ==
    LET its == {s \in S : s.account = account /\ s.service = service}
    IN  CostOf(its) \div Cardinality(its)

SnapshotCosts(start, end) ==
    LET S == InPeriod(start, end)
        keys == {<<s.account, s.service>> : s \in S}
        provider(k) == providerForServiceAccount(k[2], k[1])
        amount(k) == (AverageOf(k[1], k[2], S) * periodDays(start, end)) \div 30
    IN  {[provider |-> provider(k), service |-> k[2],
          usd |-> SumFunction([l \in {m \in keys : provider(m) = provider(k) /\ m[2] = k[2]} |-> amount(l)])] : k \in keys}

\* What a cloud has billed; its pages and rows are added up by service.
BilledCosts(start, end) ==
    LET its == {line \in Bill[source] : line.day \in start..end}
    IN  {[provider |-> source, service |-> line.service,
          usd |-> CostOf({l \in its : l.service = line.service})] : line \in its}

Costs(start, end) == IF source = "snapshots" THEN SnapshotCosts(start, end)
                     ELSE BilledCosts(start, end)
UsdOf(S) == SumFunction([rec \in S |-> rec.usd])

handleCostSummary(q) ==
    LET its == {rec \in Costs(q.start, q.end) : q.providers = {} \/ rec.provider \in q.providers}
    IN  {[grand |-> roundCents(UsdOf(its)),
          providers |-> [p \in {rec.provider : rec \in its} |->
                            roundCents(UsdOf({rec \in its : rec.provider = p}))]]}

handleCostByService(q) ==
    LET its == {rec \in Costs(q.start, q.end) : rec.provider = q.provider}
        before(a, b) == \/ roundCents(a.usd) > roundCents(b.usd)
                        \/ roundCents(a.usd) = roundCents(b.usd) /\ Rank(a.service) < Rank(b.service)
        \* Unlike the other lists, too much to ask gives the default.
        top == IF q.top > Limit["services"] THEN Default["services"] ELSE Clamped(q.top, "services")
    IN  {[total |-> roundCents(UsdOf(its)), list |-> FirstOf(list, top)] : list \in Arranged(its, before)}

-----------------------------------------------------------------------------
\* Requests

Versioned(q) == q.to \notin {"resources", "findings", "summary", "trends"}

\* The parameters a handler refuses.
Invalid(q) ==
    CASE q.to \in {"cost-summary", "cost-by-service"} ->
              IF q.end < q.start THEN {"invalid_date_range"}
              ELSE IF q.to = "cost-summary" /\ q.providers \subseteq Clouds THEN {}
              ELSE IF q.to = "cost-by-service" /\ q.provider \in Clouds THEN {}
              ELSE {"invalid_provider"}
      [] q.to = "recommendations" ->
              IF q.provider \notin Clouds \cup {Absent} THEN {"invalid_provider"}
              ELSE IF q.severity \notin Severities \cup {Absent} THEN {"invalid_severity"} ELSE {}
      [] q.to \in {"inventory", "cost-trends"} ->
              IF q.provider \in Clouds \cup {Absent} THEN {} ELSE {"invalid_provider"}
      [] OTHER -> {}

Handled(q, now) ==
    CASE q.to = "resources"       -> handleResources
      [] q.to = "findings"        -> handleFindings(q, now)
      [] q.to = "summary"         -> handleSummary(now)
      [] q.to = "recommendations" -> handleRecommendations(q, now)
      [] q.to = "inventory"       -> handleInventory(q)
      [] q.to = "trends"          -> handleTrends(q, now)
      [] q.to = "cost-trends"     -> handleCostTrends(q, now)
      [] q.to = "cost-summary"    -> handleCostSummary(q)
      [] q.to = "cost-by-service" -> handleCostByService(q)

Served == {a \in answers : "code" \notin DOMAIN a.answer}

Answered(q) ==
    /\ Invalid(q) = {}
    /\ Cardinality(answers) < Remembered
    /\ \E answer \in Handled(q, clock) :
          answers' = Served \cup {[request |-> q, at |-> clock, answer |-> answer]}
    /\ UNCHANGED <<source, table, unsaved, snapshots, clock, seeds>>

\* The key is missing or wrong, a parameter is invalid, or the query fails.
Codes(q) == (IF Versioned(q) THEN {"unauthorized"} ELSE {})
            \cup (IF Invalid(q) = {} THEN {"query_failed"} ELSE Invalid(q))
Refused(q) ==
    /\ Cardinality(answers) < Remembered
    /\ \E code \in Codes(q) : answers' = {[request |-> q, answer |-> [code |-> code]]}
    /\ UNCHANGED <<source, table, unsaved, snapshots, clock, seeds>>

\* History only.
Forget ==
    /\ Cardinality(answers) = Remembered
    /\ answers' = {}
    /\ UNCHANGED <<source, table, unsaved, snapshots, clock, seeds>>

ApiNext ==
    \/ \E scan \in Scans : Upsert(scan)
    \/ Record
    \/ Pass
    \/ \E session \in Sessions : \E q \in session :
          /\ {a.request : a \in answers} \subseteq session
          /\ Answered(q) \/ Refused(q)
    \/ Forget

ApiSpec == ApiInit /\ [][ApiNext]_apiVars

-----------------------------------------------------------------------------
(* What the answers of different endpoints owe each other, as long as the  *)
(* tables do not change between them.  Time may: what there is stays the   *)
(* same, what is found in it only grows, and a trend is told by the moment *)
(* its window begins.                                                      *)

\* a answers a request to one endpoint and b a request to another.
To(x, endpoint) == x.request.to = endpoint
Filtered(q) == q.provider # Absent

\* What a and b count is equal at one moment, and no less at a later one.
Grown(a, m, b, n) == /\ a.at <= b.at => m <= n
                     /\ b.at <= a.at => n <= m

\* The summary tells what the resources, the findings, the unfiltered
\* recommendations and the inventory tell, and what is recommended for a cloud
\* is no more than the summary has of that cloud.
SummaryAgrees(a, b) ==
    To(a, "summary") =>
        /\ To(b, "resources") => a.answer.count = b.answer.count /\ a.answer.cost = b.answer.cost
        /\ To(b, "findings") => /\ Grown(a, a.answer.findings, b, b.answer.count)
                                /\ Grown(a, a.answer.savings, b, b.answer.savings)
        /\ (To(b, "recommendations") /\ ~ Filtered(b.request) /\ b.request.severity = Absent) =>
              /\ \A s \in Severities : Grown(a, a.answer.bySeverity[s], b, b.answer.bySeverity[s])
              /\ Grown(a, a.answer.findings, b, b.answer.count)
              /\ Grown(a, roundCents(a.answer.savings), b, b.answer.savings)
        /\ (To(b, "recommendations") /\ Filtered(b.request)) =>
              LET its == a.answer.byProvider[b.request.provider]
              IN  b.answer.count <= its.count /\ b.answer.savings <= roundCents(its.cost)
        /\ To(b, "inventory") => \A p \in Clouds : Matches(p, b.request.provider) =>
              /\ a.answer.byProvider[p].count = b.answer.byProvider[p].count
              /\ roundCents(a.answer.byProvider[p].cost) = b.answer.byProvider[p].cost

\* Recommendations: a shorter list begins a longer one and leaves the totals
\* as they are, a filter takes its part of them, and what is recommended for
\* a cloud is in the inventory under that cloud and costs no more than it.
RecommendationsAgree(a, b) ==
    To(a, "recommendations") =>
        /\ (To(b, "recommendations") /\ a.request.provider = b.request.provider) =>
              /\ a.request.severity = b.request.severity =>
                    /\ Grown(a, a.answer.count, b, b.answer.count)
                    /\ Grown(a, a.answer.savings, b, b.answer.savings)
                    /\ a.at = b.at => \/ IsPrefix(a.answer.list, b.answer.list)
                                      \/ IsPrefix(b.answer.list, a.answer.list)
              /\ (a.request.severity # Absent /\ b.request.severity = Absent) =>
                    Grown(a, a.answer.count, b, b.answer.bySeverity[a.request.severity])
        /\ (To(b, "inventory") /\ Filtered(a.request) /\ Matches(a.request.provider, b.request.provider)) =>
              /\ a.answer.count <= b.answer.byProvider[a.request.provider].count
              /\ a.answer.savings <= b.answer.byProvider[a.request.provider].cost
        /\ (To(b, "inventory") /\ Len(b.answer.list) = b.answer.services) =>
              \A f \in Range(a.answer.list) :
                  LET cloud == providerForServiceAccount(f.service, Absent)
                  IN  Matches(cloud, b.request.provider) =>
                        \E v \in Range(b.answer.list) : v.service = f.service /\ v.provider = cloud

\* Inventories: a filter takes its cloud's part, and a cut leaves the totals.
InventoriesAgree(a, b) ==
    (To(a, "inventory") /\ To(b, "inventory")) =>
        /\ (Filtered(a.request) /\ ~ Filtered(b.request)) =>
              LET part == b.answer.byProvider[a.request.provider]
              IN  a.answer.count = part.count /\ a.answer.cost = part.cost
        /\ a.request.provider = b.request.provider =>
              LET keys(x) == [i \in DOMAIN x.answer.list |->
                                <<x.answer.list[i].service, x.answer.list[i].cost>>]
              IN  /\ a.answer.services = b.answer.services /\ a.answer.cost = b.answer.cost
                  /\ IsPrefix(keys(a), keys(b)) \/ IsPrefix(keys(b), keys(a))

\* Costs: the services of a cloud add up to what the summary says of it.
CostsAgree(a, b) ==
    (/\ To(a, "cost-summary") /\ To(b, "cost-by-service")
     /\ a.request.start = b.request.start /\ a.request.end = b.request.end
     /\ a.request.providers = {} \/ b.request.provider \in a.request.providers) =>
        b.answer.total = IF b.request.provider \in DOMAIN a.answer.providers
                         THEN a.answer.providers[b.request.provider] ELSE 0

\* When the window of a trend begins.
Begin(a) == Since(Window(a.request), a.at)

\* Trends: in one window a cloud has no more than all of them on any day, a
\* window that begins later tells what an earlier one does but for the day it
\* begins in, and the dashboard shows what the agent is told.
TrendsAgree(a, b) ==
    /\ (To(a, "cost-trends") /\ To(b, "cost-trends")) =>
        /\ (Begin(a) = Begin(b) /\ Filtered(a.request) /\ ~ Filtered(b.request)) =>
              /\ Len(a.answer.points) = Len(b.answer.points)
              /\ \A i \in DOMAIN a.answer.points :
                    /\ a.answer.points[i].date = b.answer.points[i].date
                    /\ a.answer.points[i].cost <= b.answer.points[i].cost
        /\ (Begin(a) >= Begin(b) /\ a.request.provider = b.request.provider) =>
              \A i \in DOMAIN a.answer.points :
                    a.answer.points[i] \in Range(b.answer.points) \/ (i = 1 /\ Begin(a) > Begin(b))
    /\ (/\ To(a, "trends") /\ To(b, "cost-trends") /\ ~ Filtered(b.request)
        /\ Since(Shown(a.request), a.at) = Begin(b)) =>
              LET shown == [i \in DOMAIN a.answer.points |-> roundCents(a.answer.points[i].cost)]
                  told  == [i \in DOMAIN b.answer.points |-> b.answer.points[i].cost]
              IN  /\ shown = told
                  /\ b.answer.change = IF shown = <<>> THEN <<>>
                                       ELSE <<shown[Len(shown)] - shown[1]>>

\* A trend takes the cloud from the service alone, the costs and the inventory
\* from the account too: a cloud's day is what its accounts cost, unless a
\* subscription's functions are among them, which the trend counts to gcp.
CloudsTrend(a) ==
    (To(a, "cost-trends") /\ Filtered(a.request)) =>
        \A i \in DOMAIN a.answer.points :
            LET latest == {s \in ListTrends(Begin(a)) : Day(s.taken) = a.answer.points[i].date}
            IN  (\A s \in latest : s.service = "functions" => s.account \notin UUIDs) =>
                  a.answer.points[i].cost =
                      roundCents(CostOf({s \in latest : ProviderOf(s) = a.request.provider}))

\* While the tables do not change, whenever they are asked: two endpoints agree
\* on resources, costs and days, and on findings as time lets them grow, however
\* lists are filtered, cut and arranged; and a cloud's trend is of its accounts,
\* but for the functions of subscriptions.
AnswersAgree ==
    /\ \A a, b \in Served : a # b =>
        /\ SummaryAgrees(a, b)
        /\ RecommendationsAgree(a, b)
        /\ InventoriesAgree(a, b)
        /\ CostsAgree(a, b)
        /\ TrendsAgree(a, b)
    /\ \A a \in Served : CloudsTrend(a)

\* Two pages of the findings in one order at one moment: each is full, but for
\* the last one that holds the rest, and nothing of a later page belongs on an
\* earlier one, although every page is found and sorted anew.
PagesInOrder ==
    \A a, b \in Served :
        (/\ To(a, "findings") /\ To(b, "findings") /\ a.at = b.at /\ a.request.size = b.request.size
         /\ a.request.sort = b.request.sort /\ a.request.order = b.request.order) =>
            /\ a.answer.page \in 1..a.answer.pages /\ a.answer.pages = b.answer.pages
            /\ Len(a.answer.list) = IF a.answer.page < a.answer.pages THEN a.answer.size
                                    ELSE a.answer.count - (a.answer.pages - 1) * a.answer.size
            /\ a.answer.page < b.answer.page =>
                  \A f \in Range(a.answer.list), g \in Range(b.answer.list) :
                      IF a.request.sort = Absent THEN Cents(f.savings) >= Cents(g.savings)
                      ELSE ~ Ahead(a.request, g, f)

\* A period of snapshots costs its days' share of a month, "the inclusive day
\* span of the period" (cost_handlers.go): the summary of one account's
\* service with one snapshot is that snapshot's cost times days over 30.
PeriodIsInclusive ==
    \A a \in Served :
        (/\ To(a, "cost-summary") /\ a.request.providers = {}
         /\ source = "snapshots" /\ Cardinality(InPeriod(a.request.start, a.request.end)) = 1) =>
            a.answer.grand =
                roundCents((CostOf(InPeriod(a.request.start, a.request.end))
                            * (a.request.end - a.request.start + 1)) \div 30)
=============================================================================
