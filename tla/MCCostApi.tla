------------------------------ MODULE MCCostApi ------------------------------
(***************************************************************************)
(* CostApi and AgentTools for TLC: an AWS account whose findings tie in     *)
(* savings, a GCP project and an Azure subscription that both have          *)
(* functions at the same cost, and a second scan of the AWS account with    *)
(* changed usage.  A week is 14 ticks: while the clock runs two instances   *)
(* become old enough to be found idle, and snapshots leave the windows.     *)
(***************************************************************************)
EXTENDS AgentTools

Resource(id, account, service, cost, idle) ==
    [id |-> id, account |-> account, service |-> service, cost |-> cost,
     idle |-> idle, born |-> CASE id = 1 -> -12 [] id = 5 -> -13 [] OTHER -> 0, large |-> id = 4]

MCScans ==
    { {Resource(1, "main", "ec2", 1200, TRUE), Resource(2, "main", "rds", 2400, TRUE),
       Resource(3, "main", "ebs", 1260, TRUE), Resource(4, "main", "lambda", 660, TRUE)},
      {Resource(1, "main", "ec2", 1260, FALSE), Resource(3, "main", "ebs", 60, TRUE),
       Resource(5, "main", "ec2", 1200, TRUE)},
      {Resource(6, "project", "functions", 1200, TRUE)},
      {Resource(7, "subscription", "functions", 1200, TRUE)} }

MCNames == <<"ebs", "ec2", "functions", "lambda", "rds">>

MCBill == [aws |-> {[day |-> 0, service |-> "ec2", cost |-> 1234, line |-> 1],
                    [day |-> 0, service |-> "ec2", cost |-> 1234, line |-> 2],
                    [day |-> 1, service |-> "rds", cost |-> 2468, line |-> 1]}]

MCDefault == [l \in Lists |-> 2]
MCLimit == [l \in Lists |-> 3]

\* Requests that are compared with each other: the pages of one order, what
\* there is, the costs of one period, and trends.
Paging(sort, order, sizes) ==
    {[to |-> "findings", sort |-> sort, order |-> order, size |-> z, page |-> p] :
        z \in sizes, p \in {0, 2, 3}}

Overview ==
    {[to |-> "resources"], [to |-> "summary"],
     [to |-> "findings", sort |-> "savings", order |-> "desc", size |-> 9, page |-> 1]}

Advice ==
    {[to |-> "summary"]}
    \cup {[to |-> "recommendations", provider |-> p, severity |-> "", top |-> 3] : p \in {"", "aws"}}
    \cup {[to |-> "recommendations", provider |-> "aws", severity |-> s, top |-> 0] :
            s \in {"", "high", "severe"}}
    \cup {[to |-> "inventory", provider |-> p, top |-> 9] : p \in {"", "aws", "azure"}}
    \cup {[to |-> "inventory", provider |-> p, top |-> 1] : p \in {"", "other"}}

\* The services of no cloud are an error, as is any period that ends first.
Spending(start, end) ==
    {[to |-> "cost-summary", start |-> start, end |-> end, providers |-> f] :
        f \in {{}, {"aws", "gcp"}, {"other"}}}
    \cup {[to |-> "cost-by-service", start |-> start, end |-> end, provider |-> f, top |-> t] :
            f \in {"aws", "azure"}, t \in {1, 9}}
    \cup {[to |-> "cost-by-service", start |-> start, end |-> end, provider |-> "", top |-> 1]}

Growth ==
    {[to |-> "cost-trends", provider |-> p, days |-> d] : p \in {"", "gcp", "other"}, d \in {0, 1, 4}}
    \cup {[to |-> "trends", days |-> d] : d \in {1, 3}}

MCSpellings == [x \in {" AWS", "High "} |-> IF x = " AWS" THEN "aws" ELSE "high"]

Iso(day) == [day |-> day, form |-> "padded"]
Stretches == {<<Iso(0), Iso(0)>>, <<Iso(0), Iso(1)>>, <<Iso(1), Iso(0)>>,
              <<[day |-> 0, form |-> "short"], Iso(1)>>, <<Iso(0), [day |-> 1, form |-> "none"]>>}

\* Lengths on both sides of what the tools and the server let pass.
Lengths == {0, 1, 3, 4}

MCCalls ==
    {[tool |-> "cost_summary", start |-> p[1], end |-> p[2], providers |-> f] :
        p \in Stretches, f \in {{}, {" AWS", "gcp"}, {"other"}}}
    \cup {[tool |-> "cost_by_service", start |-> p[1], end |-> p[2], provider |-> f, top |-> 3] :
        p \in Stretches, f \in {" AWS", ""}}
    \cup {[tool |-> "cost_by_service", start |-> Iso(0), end |-> Iso(1), provider |-> " AWS", top |-> t] :
        t \in Lengths}
    \cup {[tool |-> "recommendations", provider |-> f, severity |-> s, top |-> 3] :
        f \in {None, " AWS", ""}, s \in {None, "High ", "severe"}}
    \cup {[tool |-> "recommendations", provider |-> None, severity |-> None, top |-> t] : t \in Lengths}
    \cup {[tool |-> "cost_trends", provider |-> f, days |-> d] : f \in {None, "gcp", "other"}, d \in Lengths}
    \cup {[tool |-> "inventory", provider |-> f, top |-> t] : f \in {None, " AWS", ""}, t \in Lengths}

\* Of 200 days the last nanosecond is lost.
MCSessions == {Paging("", "desc", {0, 3}), Paging("severity", "asc", {0}), Overview, Advice,
               Spending(0, 1), Spending(1, 0), Spending(0, 199), Growth}
=============================================================================
