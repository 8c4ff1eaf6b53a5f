---------------------------- MODULE CostDiffProofs ----------------------------
(***************************************************************************)
(* What the comment of a plan says is so, for every plan, price list and   *)
(* set of failing lookups: its net change is what the priced resources are *)
(* worth after the plan less before it, it accounts for each change of the *)
(* plan once, its movers lead, its confidence is the weakest of its priced *)
(* changes, and each caveat stays with its resource.  The estimators come  *)
(* first, since they are where a confidence and an amount are made.        *)
(***************************************************************************)
EXTENDS CostDiff, NumberFacts, TLAPS

-----------------------------------------------------------------------------
\* Whatever a state is, its estimator gives one of the three confidences.
LEMMA EstimatorRates ==
    ASSUME NEW type, NEW s
    PROVE  Estimator(type, s).confidence \in Confidences
<1> USE DEF Estimator, Confidences
<1>1. \A a : EstimateEC2(a).confidence \in Confidences
  BY DEF EstimateEC2
<1>2. \A a : EstimateRDS(a).confidence \in Confidences
  BY DEF EstimateRDS
<1>3. \A a : EstimateEBS(a).confidence \in Confidences
  BY DEF EstimateEBS
<1>4. \A a : EstimateLambda(a).confidence \in Confidences
  BY DEF EstimateLambda
<1>5. \A a : EstimateNATGateway(a).confidence \in Confidences
  BY DEF EstimateNATGateway
<1>6. \A a : EstimateRDSClusterInstance(a).confidence \in Confidences
  BY DEF EstimateRDSClusterInstance
<1>7. \A a : EstimateGCPComputeInstance(a).confidence \in Confidences
  BY DEF EstimateGCPComputeInstance, EstimateMachine
<1>8. \A a : EstimateAzureVirtualMachine(a).confidence \in Confidences
  BY DEF EstimateAzureVirtualMachine, EstimateMachine
<1>9. \A a : /\ EstimateGCPComputeDisk(a).confidence \in Confidences
             /\ EstimateAzureManagedDisk(a).confidence \in Confidences
  BY DEF EstimateGCPComputeDisk, EstimateAzureManagedDisk, EstimateDisk
<1>10. \A a : EstimateGCPSQLInstance(a).confidence \in Confidences
  BY DEF EstimateGCPSQLInstance
<1>11. \A a : EstimateGCPRouterNAT(a).confidence \in Confidences
  BY DEF EstimateGCPRouterNAT
<1>12. \A a : EstimateGCPCloudFunction(a).confidence \in Confidences
  BY DEF EstimateGCPCloudFunction
<1>. QED
  BY <1>1, <1>2, <1>3, <1>4, <1>5, <1>6, <1>7, <1>8, <1>9, <1>10, <1>11, <1>12

\* The estimate of a state does so too, whatever lookups fail.
LEMMA StateRates ==
    ASSUME NEW type, NEW s, NEW down
    PROVE  EstimateState(type, s, down).confidence \in Confidences
<1>1. \A why : /\ Unpriced(why).confidence \in Confidences
               /\ Fault(why).confidence \in Confidences
  BY DEF Unpriced, Fault, Confidences
<1>2. \A lines, notes :
        Priced(lines, Estimator(type, s).confidence, notes).confidence \in Confidences
  BY EstimatorRates DEF Priced
<1>. QED
  BY <1>1, <1>2 DEF EstimateState

\* What a change is filed by: a confidence, and whether it is skipped.
Rated(ce) == ce.confidence \in Confidences /\ ce.skipped \in BOOLEAN

LEMMA ChangeRated ==
    ASSUME NEW i, NEW before \in EstimatesOf(plan[i], "before"), NEW after \in EstimatesOf(plan[i], "after")
    PROVE  Rated(EstimateChange(i, before, after))
<1>1. \A why : Rated(SkippedChange(i, why))
  BY DEF SkippedChange, Rated, Confidences
<1>2. \A a, b \in Confidences : Weakest(a, b) \in Confidences
  BY DEF Weakest
<1>3. Priced(<< >>, High, {}).confidence \in Confidences
  BY DEF Priced, Confidences
<1>4. before.confidence \in Confidences /\ after.confidence \in Confidences
  BY <1>3, StateRates DEF EstimatesOf
<1>. QED
  BY <1>1, <1>2, <1>4 DEF EstimateChange, Rated

-----------------------------------------------------------------------------
(* The money: the lines of a state add up to its worth, and the merged      *)
(* lines of two states to the difference.                                   *)

Distinct(ls) == \A j, k \in DOMAIN ls : ls[j].component = ls[k].component => j = k

Amounts(ls) ==
    /\ \E n \in Nat : DOMAIN ls = 1..n
    /\ \A i \in DOMAIN ls : ls[i].amount \in Int
    /\ Distinct(ls)

LEMMA NumberRead ==
    ASSUME NEW type \in DOMAIN Numbers, NEW s, HasNumbers(type, s), ~ Unreadable(type, s),
           NEW a \in Numbers[type], NEW default \in Int
    PROVE  Value(s, a, default) \in Int
BY DEF HasNumbers, Unreadable, Value

LEMMA Joined ==
    ASSUME NEW S, NEW p \in Seq(S), NEW q \in Seq(S)
    PROVE  /\ p \o q \in Seq(S) /\ Len(p \o q) = Len(p) + Len(q)
           /\ \A i \in 1..(Len(p) + Len(q)) : (p \o q)[i] = IF i <= Len(p) THEN p[i] ELSE q[i - Len(p)]
OBVIOUS

LEMMA NoLine == Amounts(<< >>)
<1>1. DOMAIN << >> = 1..0
  OBVIOUS
<1>. QED
  BY <1>1 DEF Amounts, Distinct

LEMMA Single ==
    ASSUME NEW S, NEW a \in S PROVE <<a>> \in Seq(S) /\ Len(<<a>>) = 1 /\ <<a>>[1] = a
OBVIOUS

LEMMA OneLine == ASSUME NEW name, NEW key, NEW x \in Int PROVE Amounts(<<Line(name, key, x)>>)
<1>1. PICK l : l = Line(name, key, x)
  OBVIOUS
<1>2. DOMAIN <<l>> = 1..1 /\ <<l>>[1] = l /\ l.amount = x
  BY <1>1 DEF Line
<1>3. Amounts(<<l>>)
  BY <1>2 DEF Amounts, Distinct
<1>. QED
  BY <1>1, <1>3

LEMMA TwoLines ==
    ASSUME NEW name, NEW key, NEW x \in Int, NEW name2, NEW key2, NEW x2 \in Int, name # name2
    PROVE  Amounts(<<Line(name, key, x), Line(name2, key2, x2)>>)
<1>1. PICK l, m : l = Line(name, key, x) /\ m = Line(name2, key2, x2)
  OBVIOUS
<1>2. /\ DOMAIN <<l, m>> = 1..2 /\ <<l, m>>[1] = l /\ <<l, m>>[2] = m
      /\ l.amount = x /\ m.amount = x2 /\ l.component # m.component
  BY <1>1 DEF Line
<1>3. Amounts(<<l, m>>)
  BY <1>2 DEF Amounts, Distinct
<1>. QED
  BY <1>1, <1>3

LEMMA MaybeLine ==
    ASSUME NEW c, NEW name, NEW key, NEW x \in Int PROVE Amounts(OnlyIf(c, Line(name, key, x)))
BY OneLine, NoLine DEF OnlyIf

\* The line of an optional component comes after the first one.
LEMMA LineAndMaybe ==
    ASSUME NEW name, NEW key, NEW x \in Int, NEW c, NEW name2, NEW key2, NEW x2 \in Int, name # name2
    PROVE  Amounts(<<Line(name, key, x)>> \o OnlyIf(c, Line(name2, key2, x2)))
<1>1. PICK l, m : l = Line(name, key, x) /\ m = Line(name2, key2, x2)
  OBVIOUS
<1>2. l.amount = x /\ m.amount = x2 /\ l.component # m.component
  BY <1>1 DEF Line
<1>3. PICK S : l \in S /\ m \in S
  <2>1. l \in {l, m} /\ m \in {l, m}
    OBVIOUS
  <2>. QED
    BY <2>1
<1>4. PICK p \in Seq(S) : Len(p) = 1 /\ p[1] = l /\ p = <<l>>
  BY <1>3, Single
<1>5. PICK q \in Seq(S) : Len(q) = 1 /\ q[1] = m /\ q = <<m>>
  BY <1>3, Single
<1>6. p \o << >> = p
  OBVIOUS
<1>7. p \o q \in Seq(S) /\ Len(p \o q) = 2 /\ (p \o q)[1] = l /\ (p \o q)[2] = m
  <2>1. /\ p \o q \in Seq(S) /\ Len(p \o q) = 2
        /\ \A i \in 1..2 : (p \o q)[i] = IF i <= 1 THEN p[i] ELSE q[i - 1]
    BY <1>4, <1>5, Joined
  <2>. QED
    BY <1>4, <1>5, <2>1
<1>8. Amounts(p \o q)
  <2>1. DOMAIN (p \o q) = 1..2
    BY <1>7
  <2>. QED
    BY <1>2, <1>7, <2>1 DEF Amounts, Distinct
<1>9. Amounts(p)
  <2>1. DOMAIN p = 1..1
    BY <1>4
  <2>. QED
    BY <1>2, <1>4, <2>1 DEF Amounts, Distinct
<1>10. CASE c
  BY <1>1, <1>4, <1>5, <1>8, <1>10 DEF OnlyIf
<1>11. CASE ~ c
  BY <1>1, <1>4, <1>6, <1>9, <1>11 DEF OnlyIf
<1>. QED
  BY <1>10, <1>11

\* Whatever a state that can be read is, its estimator's lines have whole
\* amounts and a component each.
LEMMA EstimatorAmounts ==
    ASSUME NEW type \in SupportedTypes, NEW s, HasNumbers(type, s), ~ Unreadable(type, s)
    PROVE  Amounts(Estimator(type, s).lines)
<1>1. HoursPerMonth \in Int /\ SecondsPerMonth \in Int
  BY DEF HoursPerMonth, SecondsPerMonth
<1>2. ASSUME NEW a, a.RootBlockSize \in Int PROVE Amounts(EstimateEC2(a).lines)
  <2>1. Amounts(<<Line("Compute", <<"EC2", a.InstanceType, Tenancy(a.Tenancy)>>, HoursPerMonth)>>
                \o OnlyIf(a.RootBlockSize > 0, Line("RootEBS", <<"EBS", a.RootBlockType>>, a.RootBlockSize)))
    BY <1>1, <1>2, LineAndMaybe
  <2>. QED
    BY <2>1 DEF EstimateEC2
<1>3. ASSUME NEW a, a.AllocatedStorage \in Int PROVE Amounts(EstimateRDS(a).lines)
  BY <1>1, <1>3, TwoLines DEF EstimateRDS
<1>4. ASSUME NEW a, a.Size \in Int PROVE Amounts(EstimateEBS(a).lines)
  BY <1>4, OneLine DEF EstimateEBS
<1>5. ASSUME NEW a, a.ProvisionedConcurrency \in Int, a.MemorySize \in Int
      PROVE  Amounts(EstimateLambda(a).lines)
  <2>1. a.ProvisionedConcurrency * a.MemorySize * SecondsPerMonth \in Int
    BY <1>1, <1>5
  <2>. QED
    BY <2>1, MaybeLine DEF EstimateLambda
<1>6. ASSUME NEW a PROVE Amounts(EstimateNATGateway(a).lines) /\ Amounts(EstimateRDSClusterInstance(a).lines)
  BY <1>1, OneLine DEF EstimateNATGateway, EstimateRDSClusterInstance
<1>7. \A region : InRegion(region) * HoursPerMonth \in Int
  <2>1. \A region : InRegion(region) \in Int
    BY PricesAreNumbers DEF InRegion
  <2>. QED
    BY <1>1, <2>1
<1>0. ASSUME NEW machine, NEW region, NEW spot, NEW disk, NEW component, component # "Compute", NEW size \in Int
      PROVE  Amounts(EstimateMachine(machine, region, spot, disk, component, size).lines)
  <2>1. Amounts(<<Line("Compute", machine, InRegion(region) * HoursPerMonth)>>
                \o OnlyIf(size > 0, Line(component, disk, size)))
    BY <1>0, <1>7, LineAndMaybe
  <2>. QED
    BY <2>1 DEF EstimateMachine
<1>8. ASSUME NEW a, a.BootDiskSizeGB \in Int PROVE Amounts(EstimateGCPComputeInstance(a).lines)
  BY <1>0, <1>8 DEF EstimateGCPComputeInstance
<1>9. ASSUME NEW a, a.OSDiskSizeGB \in Int PROVE Amounts(EstimateAzureVirtualMachine(a).lines)
  BY <1>0, <1>9 DEF EstimateAzureVirtualMachine
<1>10. ASSUME NEW a, a.SizeGB \in Int
       PROVE  Amounts(EstimateGCPComputeDisk(a).lines) /\ Amounts(EstimateAzureManagedDisk(a).lines)
  <2>1. \A disk : Amounts(EstimateDisk(disk, a.SizeGB).lines)
    BY <1>10, OneLine DEF EstimateDisk
  <2>. QED
    BY <2>1 DEF EstimateGCPComputeDisk, EstimateAzureManagedDisk
<1>11. ASSUME NEW a, a.DiskSizeGB \in Int PROVE Amounts(EstimateGCPSQLInstance(a).lines)
  <2>1. /\ (IF a.Regional THEN 2 ELSE 1) * HoursPerMonth \in Int
        /\ (IF a.Regional THEN 2 ELSE 1) * (IF a.DiskSizeGB > 0 THEN a.DiskSizeGB ELSE 10) \in Int
    BY <1>1, <1>11
  <2>2. PICK x, y : /\ x = (IF a.Regional THEN 2 ELSE 1) * HoursPerMonth
                    /\ y = (IF a.Regional THEN 2 ELSE 1) * (IF a.DiskSizeGB > 0 THEN a.DiskSizeGB ELSE 10)
    OBVIOUS
  <2>3. \A tier, disk : Amounts(<<Line("Compute", tier, x), Line("Storage", disk, y)>>)
    BY <2>1, <2>2, TwoLines
  <2>. QED
    BY <2>2, <2>3 DEF EstimateGCPSQLInstance
<1>12. ASSUME NEW a, a.ManualIPCount \in Int PROVE Amounts(EstimateGCPRouterNAT(a).lines)
  <2>1. a.ManualIPCount * HoursPerMonth \in Int
    BY <1>1, <1>12
  <2>. QED
    BY <2>1, MaybeLine DEF EstimateGCPRouterNAT
<1>13. ASSUME NEW a PROVE Amounts(EstimateGCPCloudFunction(a).lines)
  BY NoLine DEF EstimateGCPCloudFunction
<1>14. type \in DOMAIN Numbers => \A a \in Numbers[type], default \in Int : Value(s, a, default) \in Int
  BY NumberRead
<1>15. CASE type = "aws_instance"
  <2>1. ExtractEC2(s).RootBlockSize \in Int
    BY <1>14, <1>15 DEF Numbers, ExtractEC2
  <2>. QED
    BY <1>2, <1>15, <2>1 DEF Estimator
<1>16. CASE type = "aws_db_instance"
  <2>1. ExtractRDS(s).AllocatedStorage \in Int
    BY <1>14, <1>16 DEF Numbers, Unreadable, Required, Value, ExtractRDS
  <2>. QED
    BY <1>3, <1>16, <2>1 DEF Estimator
<1>17. CASE type = "aws_ebs_volume"
  <2>1. ExtractEBS(s).Size \in Int
    BY <1>14, <1>17 DEF Numbers, Unreadable, Required, Value, ExtractEBS
  <2>. QED
    BY <1>4, <1>17, <2>1 DEF Estimator
<1>18. CASE type = "aws_lambda_function"
  <2>1. ExtractLambda(s).ProvisionedConcurrency \in Int /\ ExtractLambda(s).MemorySize \in Int
    BY <1>14, <1>18 DEF Numbers, ExtractLambda
  <2>. QED
    BY <1>5, <1>18, <2>1 DEF Estimator
<1>19. CASE type \in {"aws_nat_gateway", "aws_rds_cluster_instance"}
  BY <1>6, <1>19 DEF Estimator
<1>20. CASE type = "google_compute_instance"
  <2>1. ExtractComputeInstance(s, PlanRegion).BootDiskSizeGB \in Int
    BY <1>14, <1>20 DEF Numbers, ExtractComputeInstance
  <2>. QED
    BY <1>8, <1>20, <2>1 DEF Estimator
<1>21. CASE type = "google_compute_disk"
  <2>1. ExtractComputeDisk(s).SizeGB \in Int
    BY <1>14, <1>21 DEF Numbers, ExtractComputeDisk
  <2>. QED
    BY <1>10, <1>21, <2>1 DEF Estimator
<1>22. CASE type = "google_sql_database_instance"
  <2>1. ExtractSQLInstance(s).DiskSizeGB \in Int
    BY <1>14, <1>22 DEF Numbers, ExtractSQLInstance
  <2>. QED
    BY <1>11, <1>22, <2>1 DEF Estimator
<1>23. CASE type = "google_compute_router_nat"
  <2>1. ExtractRouterNAT(s).ManualIPCount \in Int
    BY <1>14, <1>23 DEF Numbers, ExtractRouterNAT
  <2>. QED
    BY <1>12, <1>23, <2>1 DEF Estimator
<1>24. CASE type = "azurerm_linux_virtual_machine"
  <2>1. ExtractVirtualMachine(s, PlanRegion).OSDiskSizeGB \in Int
    BY <1>14, <1>24 DEF Numbers, ExtractVirtualMachine
  <2>. QED
    BY <1>9, <1>24, <2>1 DEF Estimator
<1>25. CASE type = "azurerm_managed_disk"
  <2>1. ExtractManagedDisk(s).SizeGB \in Int
    BY <1>14, <1>25 DEF Numbers, ExtractManagedDisk
  <2>. QED
    BY <1>10, <1>25, <2>1 DEF Estimator
<1>26. CASE type \in {"google_cloudfunctions_function", "google_cloudfunctions2_function"}
  BY <1>13, <1>26 DEF Estimator
<1>. QED
  BY <1>15, <1>16, <1>17, <1>18, <1>19, <1>20, <1>21, <1>22, <1>23, <1>24, <1>25, <1>26
     DEF SupportedTypes, Required

\* Lines in dollars, a component each.
Paid(ls) ==
    /\ \E S : ls \in Seq(S)
    /\ \A i \in DOMAIN ls : ls[i].usd \in Int
    /\ Distinct(ls)

LEMMA PaidIsSequence ==
    ASSUME NEW ls, Paid(ls)
    PROVE  Len(ls) \in Nat /\ DOMAIN ls = 1..Len(ls) /\ IsFiniteSet(DOMAIN ls) /\ ls \in Seq(Range(ls))
<1>1. PICK S : ls \in Seq(S)
  BY DEF Paid
<1>2. Len(ls) \in Nat /\ DOMAIN ls = 1..Len(ls)
  BY <1>1
<1>3. IsFiniteSet(1..Len(ls))
  BY <1>2, FS_Interval
<1>4. ls \in [1..Len(ls) -> Range(ls)]
  BY <1>1, <1>2 DEF Range
<1>. QED
  BY <1>2, <1>3, <1>4

\* A state that is priced is priced at its worth, component by component.
LEMMA StatePaid ==
    ASSUME NEW type, NEW s, NEW down, HasNumbers(type, s), EstimateState(type, s, down).is = "priced"
    PROVE  /\ Paid(EstimateState(type, s, down).lines)
           /\ Sum(EstimateState(type, s, down).lines) = Worth(type, s)
<1> DEFINE ls   == Estimator(type, s).lines
           paid == [i \in DOMAIN ls |-> [component |-> ls[i].component, usd |-> Rate[ls[i].key] * ls[i].amount]]
<1>1. \A why : Unpriced(why).is # "priced" /\ Fault(why).is # "priced"
  BY DEF Unpriced, Fault
<1>2. /\ s # NoAttributes /\ type \in SupportedTypes /\ ~ Unreadable(type, s)
      /\ \A i \in DOMAIN ls : Priceable(ls[i].key)
      /\ EstimateState(type, s, down).lines = paid
  BY <1>1 DEF EstimateState, Priced
<1>. HIDE DEF ls
<1>3. PICK n \in Nat : DOMAIN ls = 1..n
  BY <1>2, EstimatorAmounts DEF Amounts, ls
<1>4. Distinct(ls) /\ \A i \in DOMAIN ls : ls[i].amount \in Int /\ Rate[ls[i].key] \in Int
  BY <1>2, EstimatorAmounts, PricesAreNumbers DEF Amounts, ls, Priceable
<1>5. \A i \in DOMAIN ls : /\ paid[i].component = ls[i].component
                           /\ paid[i].usd = Rate[ls[i].key] * ls[i].amount
                           /\ paid[i].usd \in Int
  BY <1>4
<1>6. paid \in Seq({paid[i] : i \in 1..n}) /\ DOMAIN paid = DOMAIN ls
  BY <1>3
<1>. HIDE DEF paid
<1>7. Paid(paid)
  <2>1. \E S : paid \in Seq(S)
    BY <1>6
  <2>. QED
    BY <1>4, <1>5, <1>6, <2>1 DEF Paid, Distinct
<1>8. [i \in DOMAIN paid |-> paid[i].usd] = [k \in DOMAIN ls |-> Rate[ls[k].key] * ls[k].amount]
  BY <1>5, <1>6
<1>9. Sum(paid) = Worth(type, s)
  BY <1>2, <1>8 DEF Sum, Worth, ls
<1>. QED
  BY <1>2, <1>7, <1>9

\* What a component is paid, if it has a line, and nothing if it has none.
LEMMA ComponentOfLine ==
    ASSUME NEW ls, Paid(ls), NEW j \in DOMAIN ls
    PROVE  Component(ls, ls[j].component) = ls[j].usd
<1> DEFINE f == [i \in DOMAIN ls |-> IF ls[i].component = ls[j].component THEN ls[i].usd ELSE 0]
           g == [i \in DOMAIN ls \ {j} |-> f[i]]
<1>1. f \in [DOMAIN ls -> Int] /\ f[j] = ls[j].usd /\ f[j] \in Int
  BY DEF Paid
<1>2. \A i \in DOMAIN ls \ {j} : f[i] = 0
  BY DEF Paid, Distinct
<1>3. IsFiniteSet(DOMAIN ls) /\ IsFiniteSet(DOMAIN ls \ {j})
  BY PaidIsSequence, FS_Subset
<1>4. SumFunction(f) = Component(ls, ls[j].component)
  BY DEF Component
<1>. HIDE DEF f
<1>5. SumFunction(f) = f[j] + SumFunction(g)
  BY <1>1, <1>3, SumSplits
<1>6. g \in [DOMAIN ls \ {j} -> Int] /\ \A i \in DOMAIN ls \ {j} : g[i] = 0
  BY <1>2
<1>. HIDE DEF g
<1>7. SumFunction(g) = 0
  BY <1>3, <1>6, SumOfZeros
<1>. QED
  BY <1>1, <1>4, <1>5, <1>7

LEMMA ComponentOfNone ==
    ASSUME NEW ls, Paid(ls), NEW name, \A i \in DOMAIN ls : ls[i].component # name
    PROVE  Component(ls, name) = 0
<1> DEFINE f == [i \in DOMAIN ls |-> IF ls[i].component = name THEN ls[i].usd ELSE 0]
<1>1. f \in [DOMAIN ls -> Int] /\ \A i \in DOMAIN ls : f[i] = 0
  OBVIOUS
<1>2. SumFunction(f) = Component(ls, name)
  BY DEF Component
<1>. HIDE DEF f
<1>. QED
  BY <1>1, <1>2, PaidIsSequence, SumOfZeros

LEMMA ComponentType ==
    ASSUME NEW ls, Paid(ls), NEW name
    PROVE  Component(ls, name) \in Int
<1>1. \A j \in DOMAIN ls : ls[j].usd \in Int
  BY DEF Paid
<1>2. CASE \E j \in DOMAIN ls : ls[j].component = name
  BY <1>1, <1>2, ComponentOfLine
<1>3. CASE \A j \in DOMAIN ls : ls[j].component # name
  BY <1>3, ComponentOfNone
<1>. QED
  BY <1>2, <1>3

\* The components add up to the sum.
LEMMA SumByComponent ==
    ASSUME NEW ls, Paid(ls), NEW C, IsFiniteSet(C), \A i \in DOMAIN ls : ls[i].component \in C
    PROVE  Sum(ls) = SumFunction([c \in C |-> Component(ls, c)]) /\ Sum(ls) \in Int
<1> DEFINE D == DOMAIN ls
           f == [i \in D |-> ls[i].usd]
           g == [c \in C |-> Component(ls, c)]
           p == [i \in D |-> ls[i].component]
<1>1. IsFiniteSet(D) /\ f \in [D -> Int]
  BY PaidIsSequence DEF Paid
<1>2. g \in [C -> Int]
  BY ComponentType
<1>3. p \in [D -> C] /\ \A x, y \in D : p[x] = p[y] => x = y
  BY DEF Paid, Distinct
<1>4. \A x \in D : f[x] = g[p[x]]
  BY ComponentOfLine
<1>5. ASSUME NEW e \in C, \A x \in D : p[x] # e PROVE g[e] = 0
  BY <1>5, ComponentOfNone
<1>6. Sum(ls) = SumFunction(f)
  BY DEF Sum
<1>. HIDE DEF D, f, g, p
<1>7. SumFunction(f) = SumFunction(g) /\ SumFunction(f) \in Int
  BY <1>1, <1>2, <1>3, <1>4, <1>5, SumRenamed, SumType
<1>. QED
  BY <1>6, <1>7 DEF g

\* What is at some places of a sequence is there in their order.
LEMMA AtHolds ==
    ASSUME NEW S, NEW s \in Seq(S), NEW places \in SUBSET DOMAIN s
    PROVE  /\ At(s, places) \in Seq(S) /\ Len(At(s, places)) = Cardinality(places)
           /\ \A k \in 1..Len(At(s, places)) :
                Ranked(places, k) \in places /\ At(s, places)[k] = s[Ranked(places, k)]
           /\ \A j, k \in 1..Len(At(s, places)) : j < k => Ranked(places, j) < Ranked(places, k)
           /\ \A i \in places : \E k \in 1..Len(At(s, places)) : Ranked(places, k) = i
<1>1. Len(s) \in Nat /\ DOMAIN s = 1..Len(s)
  OBVIOUS
<1>2. /\ Cardinality(places) \in Nat
      /\ \A k \in 1..Cardinality(places) : Ranked(places, k) \in places
      /\ \A j, k \in 1..Cardinality(places) : j < k => Ranked(places, j) < Ranked(places, k)
      /\ \A i \in places : \E k \in 1..Cardinality(places) : Ranked(places, k) = i
  BY <1>1, RanksHold
<1>3. At(s, places) = [k \in 1..Cardinality(places) |-> s[Ranked(places, k)]]
  BY DEF At, Ranked
<1>4. \A k \in 1..Cardinality(places) : s[Ranked(places, k)] \in S
  BY <1>2
<1>5. At(s, places) \in Seq(S) /\ Len(At(s, places)) = Cardinality(places)
  BY <1>2, <1>3, <1>4
<1>. QED
  BY <1>2, <1>3, <1>5

\* The merged lines have a component each, and add up to the difference.
LEMMA MergeAdds ==
    ASSUME NEW before, Paid(before), NEW after, Paid(after)
    PROVE  /\ Distinct(MergeDelta(before, after))
           /\ Sum(MergeDelta(before, after)) = Sum(after) - Sum(before)
           /\ Sum(after) \in Int /\ Sum(before) \in Int
<1> DEFINE gone  == {j \in DOMAIN before : \A i \in DOMAIN after : after[i].component # before[j].component}
           rest  == At(before, gone)
           lines == after \o rest
           D     == DOMAIN lines
           C     == {lines[i].component : i \in D}
           f     == [c \in C |-> Component(after, c)]
           g     == [c \in C |-> Component(before, c)]
           h     == [c \in C |-> f[c] - g[c]]
           u     == [i \in D |-> Component(after, lines[i].component) - Component(before, lines[i].component)]
           p     == [i \in D |-> lines[i].component]
           m     == MergeDelta(before, after)
<1>1. PICK S : after \in Seq(S) /\ before \in Seq(S)
  <2>1. PICK A, B : after \in Seq(A) /\ before \in Seq(B)
    BY DEF Paid
  <2>2. after \in Seq(A \cup B) /\ before \in Seq(A \cup B)
    BY <2>1
  <2>. QED
    BY <2>2
<1>2. /\ Len(after) \in Nat /\ DOMAIN after = 1..Len(after)
      /\ DOMAIN before = 1..Len(before) /\ gone \in SUBSET DOMAIN before
  BY <1>1
<1>3. /\ rest \in Seq(S) /\ Len(rest) \in Nat
      /\ \A k \in 1..Len(rest) : Ranked(gone, k) \in gone /\ rest[k] = before[Ranked(gone, k)]
      /\ \A j, k \in 1..Len(rest) : j < k => Ranked(gone, j) < Ranked(gone, k)
      /\ \A i \in gone : \E k \in 1..Len(rest) : Ranked(gone, k) = i
  <2>. HIDE DEF gone
  <2>. QED
    BY <1>1, <1>2, AtHolds
<1>4. /\ D = 1..(Len(after) + Len(rest))
      /\ \A i \in D : lines[i] = IF i <= Len(after) THEN after[i] ELSE rest[i - Len(after)]
  <2>. HIDE DEF rest
  <2>. QED
    BY <1>1, <1>3, Joined
<1>5. \A i \in D : \/ i \in DOMAIN after /\ lines[i] = after[i]
                   \/ /\ i - Len(after) \in 1..Len(rest) /\ lines[i] = before[Ranked(gone, i - Len(after))]
                      /\ Ranked(gone, i - Len(after)) \in gone
  <2>. HIDE DEF rest, gone, lines, D
  <2>. TAKE i \in D
  <2>1. i \in Nat /\ i >= 1 /\ i <= Len(after) + Len(rest)
    BY <1>2, <1>3, <1>4
  <2>2. CASE i <= Len(after)
    BY <1>2, <1>4, <2>1, <2>2
  <2>3. CASE ~ (i <= Len(after))
    <3>1. i - Len(after) \in 1..Len(rest)
      BY <1>2, <1>3, <2>1, <2>3
    <3>. QED
      BY <1>3, <1>4, <2>3, <3>1
  <2>. QED
    BY <2>2, <2>3
<1>6. \A i, j \in D : lines[i].component = lines[j].component => i = j
  <2> SUFFICES ASSUME NEW i \in D, NEW j \in D, lines[i].component = lines[j].component PROVE i = j
    OBVIOUS
  <2>1. /\ \A k, l \in DOMAIN after : after[k].component = after[l].component => k = l
        /\ \A k, l \in DOMAIN before : before[k].component = before[l].component => k = l
        /\ \A k \in DOMAIN after, l \in gone : after[k].component # before[l].component
        /\ gone \subseteq DOMAIN before
    BY DEF Paid, Distinct
  <2>. HIDE DEF lines, gone, rest, D
  <2>2. CASE i \in DOMAIN after /\ lines[i] = after[i] /\ j \in DOMAIN after /\ lines[j] = after[j]
    BY <2>1, <2>2
  <2> DEFINE k == i - Len(after)
             l == j - Len(after)
  <2>3. CASE /\ k \in 1..Len(rest) /\ lines[i] = before[Ranked(gone, k)] /\ Ranked(gone, k) \in gone
             /\ l \in 1..Len(rest) /\ lines[j] = before[Ranked(gone, l)] /\ Ranked(gone, l) \in gone
    <3>1. Ranked(gone, k) = Ranked(gone, l)
      BY <2>1, <2>3
    <3>2. \A q \in gone : q \in Nat
      BY <1>2
    <3>3. k = l
      <4>1. ~ (k < l) /\ ~ (l < k)
        BY <1>3, <2>3, <3>1, <3>2
      <4>. QED
        BY <2>3, <4>1
    <3>. QED
      BY <1>2, <1>3, <1>4, <3>3
  <2>. QED
    BY <1>5, <2>1, <2>2, <2>3
<1>7. /\ \A i \in DOMAIN after : after[i].component \in C
      /\ \A j \in DOMAIN before : before[j].component \in C
  <2>1. ASSUME NEW i \in DOMAIN after PROVE after[i].component \in C
    <3>1. i \in D /\ lines[i] = after[i]
      <4>. HIDE DEF rest, lines, D
      <4>. QED
        BY <1>2, <1>3, <1>4
    <3>. QED
      BY <3>1
  <2>2. ASSUME NEW j \in gone PROVE before[j].component \in C
    <3>. HIDE DEF rest, gone
    <3>1. PICK k \in 1..Len(rest) : Ranked(gone, k) = j
      BY <1>3
    <3>2. Len(after) + k \in D /\ lines[Len(after) + k] = before[j]
      <4>1. Len(after) + k \in D /\ ~ (Len(after) + k <= Len(after)) /\ Len(after) + k - Len(after) = k
        <5>. HIDE DEF lines, D
        <5>. QED
          BY <1>2, <1>3, <1>4, <3>1
      <4>. HIDE DEF lines, D
      <4>. QED
        BY <1>3, <1>4, <3>1, <4>1
    <3>. QED
      BY <3>2
  <2>3. \A j \in DOMAIN before : j \in gone \/ \E i \in DOMAIN after : after[i].component = before[j].component
    OBVIOUS
  <2>. HIDE DEF C, gone
  <2>. QED
    BY <2>1, <2>2, <2>3
<1>8. IsFiniteSet(D) /\ IsFiniteSet(C)
  <2>1. IsFiniteSet(D)
    <3>. HIDE DEF rest, lines, D
    <3>. QED
      BY <1>2, <1>3, <1>4, FS_Interval
  <2>2. p \in Surjection(D, C)
    <3>. HIDE DEF lines, D
    <3>. QED
      BY DEF Surjection
  <2>. HIDE DEF p, D, C
  <2>. QED
    BY <2>1, <2>2, FS_Surjection
<1>9. m = [i \in D |-> [component |-> lines[i].component,
                        usd |-> Component(after, lines[i].component) - Component(before, lines[i].component)]]
  BY DEF MergeDelta
<1>10. Distinct(m)
  <2>1. DOMAIN m = D /\ \A i \in D : m[i].component = lines[i].component
    <3>. HIDE DEF lines, D
    <3>. QED
      BY <1>9
  <2>. HIDE DEF lines, m, D
  <2>. QED
    BY <1>6, <2>1 DEF Distinct
<1>11. Sum(m) = SumFunction(u)
  <2>. HIDE DEF lines, D, m
  <2>1. [i \in DOMAIN m |-> m[i].usd] = u
    BY <1>9
  <2>. QED
    BY <2>1 DEF Sum
<1>12. SumFunction(u) = SumFunction(h)
  <2>1. p \in [D -> C] /\ u \in [D -> Int] /\ h \in [C -> Int]
    <3>. HIDE DEF lines, D
    <3>. QED
      BY ComponentType
  <2>2. \A x \in D : u[x] = h[p[x]]
    <3>. HIDE DEF lines, D
    <3>. QED
      OBVIOUS
  <2>3. \A x, y \in D : p[x] = p[y] => x = y
    <3>. HIDE DEF lines, D
    <3>. QED
      BY <1>6
  <2>4. \A e \in C : \E x \in D : p[x] = e
    <3>. HIDE DEF lines, D
    <3>. QED
      OBVIOUS
  <2>. HIDE DEF lines, D, C, p, u, h
  <2>. QED
    BY <1>8, <2>1, <2>2, <2>3, <2>4, SumRenamed
<1>13. SumFunction(h) = SumFunction(f) - SumFunction(g)
  <2>1. f \in [C -> Int] /\ g \in [C -> Int]
    BY ComponentType
  <2>. HIDE DEF C, f, g
  <2>. QED
    BY <1>8, <2>1, SumOfDifference
<1>14. Sum(after) = SumFunction(f) /\ Sum(before) = SumFunction(g) /\ Sum(after) \in Int /\ Sum(before) \in Int
  <2>. HIDE DEF C
  <2>. QED
    BY <1>7, <1>8, SumByComponent
<1>. QED
  BY <1>10, <1>11, <1>12, <1>13, <1>14

-----------------------------------------------------------------------------
(* The strengthening of ConfidenceIsWeakest: the estimates are rated ones   *)
(* all along, nothing is filed before they are sorted, and what is filed    *)
(* is a beginning of them.                                                  *)

AllRated ==
    /\ \E S : changes \in Seq(S)
    /\ \A k \in 1..Len(changes) : Rated(changes[k])

Filing ==
    /\ phase \in {"estimating", "filing", "narrating", "done"}
    /\ confidence \in Confidences
    /\ filed \in 0..Len(changes)
    /\ phase = "estimating" => filed = 0 /\ confidence = High

FilingInv == AllRated /\ Filing /\ ConfidenceIsWeakest

\* The ranks among which the weakest is.
Ranks(n) == {changes[k].confidence : k \in {j \in 1..n : ~ changes[j].skipped}}

\* Another estimate leaves those there are as they are.
LEMMA EstimateKeeps == FilingInv /\ Estimate => FilingInv'
<1> SUFFICES ASSUME FilingInv, Estimate PROVE FilingInv'
  OBVIOUS
<1>1. PICK S : changes \in Seq(S)
  BY DEF FilingInv, AllRated
<1>2. PICK ce : Rated(ce) /\ changes' = Append(changes, ce)
  BY ChangeRated DEF Estimate
<1>3. changes' \in Seq(S \cup {ce}) /\ Len(changes') = Len(changes) + 1
  <2>1. changes \in Seq(S \cup {ce})
    BY <1>1
  <2>. QED
    BY <1>2, <2>1
<1>4. \A k \in 1..Len(changes') : changes'[k] = IF k <= Len(changes) THEN changes[k] ELSE ce
  BY <1>1, <1>2
<1>5. AllRated'
  <2>1. \A k \in 1..Len(changes') : Rated(changes'[k])
    BY <1>1, <1>2, <1>3, <1>4 DEF FilingInv, AllRated
  <2>. QED
    BY <1>3, <2>1 DEF AllRated, Rated
<1>6. Filing'
  BY <1>1, <1>3 DEF FilingInv, Filing, Estimate
<1>7. ConfidenceIsWeakest'
  BY DEF FilingInv, Filing, Estimate, ConfidenceIsWeakest
<1>. QED
  BY <1>5, <1>6, <1>7 DEF FilingInv

\* Sorting is where filing begins, with nothing filed.
LEMMA SortKeeps == FilingInv /\ Sort => FilingInv'
<1> SUFFICES ASSUME FilingInv, Sort PROVE FilingInv'
  OBVIOUS
<1>1. PICK S : changes \in Seq(S)
  BY DEF FilingInv, AllRated
<1>2. PICK p \in [DOMAIN changes -> DOMAIN changes] :
        changes' = [k \in DOMAIN changes |-> changes[p[k]]]
  BY DEF Sort, Bijection, Injection
<1>3. DOMAIN changes = 1..Len(changes)
  BY <1>1
<1>4. changes' \in Seq(S) /\ Len(changes') = Len(changes)
  <2>1. \A k \in 1..Len(changes) : changes[p[k]] \in S
    BY <1>1, <1>2, <1>3
  <2>2. changes' \in [1..Len(changes) -> S]
    BY <1>2, <1>3, <2>1
  <2>. QED
    BY <1>1, <2>2
<1>5. AllRated'
  <2>1. \A k \in 1..Len(changes') : Rated(changes'[k])
    BY <1>2, <1>3, <1>4 DEF FilingInv, AllRated
  <2>. QED
    BY <1>4, <2>1 DEF AllRated, Rated
<1>6. Filing' /\ filed' = 0 /\ confidence' = High
  BY <1>1, <1>4 DEF FilingInv, Filing, Sort
<1>7. ConfidenceIsWeakest'
  BY <1>6 DEF ConfidenceIsWeakest, High
<1>. QED
  BY <1>5, <1>6, <1>7 DEF FilingInv

\* One more change filed is one more rank, unless it is skipped.
LEMMA FileKeeps == FilingInv /\ File => FilingInv'
<1> SUFFICES ASSUME FilingInv, File PROVE FilingInv'
  OBVIOUS
<1> DEFINE ce == changes[filed + 1]
<1>1. Len(changes) \in Nat /\ filed \in Nat /\ filed + 1 \in 1..Len(changes)
  <2>1. PICK S : changes \in Seq(S)
    BY DEF FilingInv, AllRated
  <2>. QED
    BY <2>1 DEF FilingInv, Filing, File
<1>2. Rated(ce) /\ confidence \in Confidences
  BY <1>1 DEF FilingInv, AllRated, Filing
<1>3. confidence' = IF ce.skipped THEN confidence ELSE Weakest(confidence, ce.confidence)
  BY DEF File
<1>4. confidence \in Ranks(filed) \cup {High} /\ \A rank \in Ranks(filed) : rank <= confidence
  BY DEF FilingInv, File, ConfidenceIsWeakest, Ranks
<1>5. Ranks(filed + 1) = Ranks(filed) \cup (IF ce.skipped THEN {} ELSE {ce.confidence})
  <2>1. 1..(filed + 1) = (1..filed) \cup {filed + 1}
    BY <1>1
  <2>. QED
    BY <2>1 DEF Ranks
<1>6. /\ confidence' \in Confidences
      /\ confidence' \in Ranks(filed + 1) \cup {High}
      /\ \A rank \in Ranks(filed + 1) : rank <= confidence'
  <2>1. CASE ce.skipped
    BY <1>2, <1>3, <1>4, <1>5, <2>1
  <2>2. CASE ~ ce.skipped
    <3>1. \A rank \in Ranks(filed) : rank \in Int
      BY <1>1 DEF FilingInv, AllRated, Rated, Ranks, Confidences, High, Medium, Low
    <3>. QED
      BY <1>2, <1>3, <1>4, <1>5, <2>2, <3>1 DEF Weakest, Rated, Confidences, High, Medium, Low
  <2>. QED
    BY <2>1, <2>2
<1>7. AllRated'
  BY DEF FilingInv, AllRated, Rated, File
<1>8. Filing'
  BY <1>1, <1>6 DEF FilingInv, Filing, File
<1>9. ConfidenceIsWeakest'
  BY <1>6 DEF File, ConfidenceIsWeakest, Ranks
<1>. QED
  BY <1>7, <1>8, <1>9 DEF FilingInv

\* The other steps leave the estimates and the confidence alone.
LEMMA OthersKeep ==
    FilingInv /\ (Ask \/ Render \/ Done \/ UNCHANGED vars) => FilingInv'
<1> SUFFICES ASSUME FilingInv, Ask \/ Render \/ Done \/ UNCHANGED vars PROVE FilingInv'
  OBVIOUS
<1>1. /\ UNCHANGED <<changes, filed, confidence>>
      /\ phase' \in {"estimating", "filing", "narrating", "done"}
      /\ phase' = "estimating" <=> phase = "estimating"
  BY DEF Ask, Render, Done, vars, FilingInv, Filing
<1>2. AllRated'
  BY <1>1 DEF FilingInv, AllRated, Rated
<1>3. Filing'
  BY <1>1 DEF FilingInv, Filing
<1>4. ConfidenceIsWeakest'
  BY <1>1 DEF FilingInv, ConfidenceIsWeakest
<1>. QED
  BY <1>2, <1>3, <1>4 DEF FilingInv

LEMMA FilingInit == Init => FilingInv
<1> SUFFICES ASSUME Init PROVE FilingInv
  OBVIOUS
<1>1. changes \in Seq({}) /\ Len(changes) = 0
  BY DEF Init
<1>. QED
  BY <1>1 DEF Init, FilingInv, AllRated, Filing, ConfidenceIsWeakest, Confidences

\* The confidence of the comment is that of its least certain priced change,
\* and the highest when nothing is priced.
THEOREM WeakestHolds == Spec => []ConfidenceIsWeakest
<1>1. FilingInv /\ [Next]_vars => FilingInv'
  BY EstimateKeeps, SortKeeps, FileKeeps, OthersKeep DEF Next
<1>2. FilingInv => ConfidenceIsWeakest
  BY DEF FilingInv
<1>. QED
  BY <1>1, <1>2, FilingInit, PTL DEF Spec

-----------------------------------------------------------------------------
(* The filing of the changes: every one keeps the address and the action of *)
(* its place in the plan, and the sections hold those filed so far.         *)

\* A change is what the plan has at its address.
OfPlan(ce) ==
    /\ ce.address \in DOMAIN plan
    /\ ce.action = Action(plan[ce.address])
    /\ ce.skipped \/ ce.action \in CostActions

LEMMA ChangeOfPlan ==
    ASSUME NEW i \in DOMAIN plan, NEW before, NEW after
    PROVE  OfPlan(EstimateChange(i, before, after)) /\ EstimateChange(i, before, after).address = i
<1>1. \A why : OfPlan(SkippedChange(i, why)) /\ SkippedChange(i, why).address = i
  BY DEF SkippedChange, OfPlan
<1>. QED
  BY <1>1 DEF EstimateChange, OfPlan

\* What a change of the plan gains.
Gain(i) == Worth(plan[i].type, plan[i].after) - Worth(plan[i].type, plan[i].before)

\* A change is sound when its delta is the gain, and its breakdown adds up to it.
Sound(ce) ==
    /\ ce.delta \in Int
    /\ ce.delta = IF ce.skipped THEN 0 ELSE Gain(ce.address)
    /\ ~ ce.skipped => ce.delta = Sum(ce.breakdown) /\ Distinct(ce.breakdown)
    /\ ce.action \in {"no-op", "read"} => ce.skipped

\* Which states an action prices.
LEMMA SidesAre ==
    /\ Range(SidesOf["create"]) = {"after"}
    /\ Range(SidesOf["delete"]) = {"before"}
    /\ Range(SidesOf["update"]) = {"before", "after"}
    /\ Range(SidesOf["replace"]) = {"before", "after"}
<1>1. \A a : Range(<<a>>) = {a}
  <2> TAKE a
  <2>1. DOMAIN <<a>> = 1..1 /\ <<a>>[1] = a
    OBVIOUS
  <2>. QED
    BY <2>1 DEF Range
<1>2. \A a, b : Range(<<a, b>>) = {a, b}
  <2> TAKE a, b
  <2>1. DOMAIN <<a, b>> = 1..2 /\ <<a, b>>[1] = a /\ <<a, b>>[2] = b
    OBVIOUS
  <2>. QED
    BY <2>1 DEF Range
<1>3. /\ SidesOf["create"] = <<"after">> /\ SidesOf["delete"] = <<"before">>
      /\ SidesOf["update"] = <<"before", "after">> /\ SidesOf["replace"] = <<"before", "after">>
  BY DEF SidesOf
<1>. QED
  BY <1>1, <1>2, <1>3

\* A state an action does not price is one that is not there.
LEMMA NotPriced ==
    ASSUME plan \in Plans, NEW i \in DOMAIN plan, Action(plan[i]) \in CostActions
    PROVE  /\ "before" \notin Range(SidesOf[Action(plan[i])]) => plan[i].before = NoAttributes
           /\ "after" \notin Range(SidesOf[Action(plan[i])]) => plan[i].after = NoAttributes
           /\ HasNumbers(plan[i].type, plan[i].before) /\ HasNumbers(plan[i].type, plan[i].after)
BY SidesAre, PlansAreTerraforms DEF CostActions

\* No lines are worth nothing.
LEMMA NoLines == Paid(<< >>) /\ Sum(<< >>) = 0 /\ \A type : Worth(type, NoAttributes) = 0
<1>1. << >> \in Seq({}) /\ DOMAIN << >> = {}
  OBVIOUS
<1>2. Sum(<< >>) = 0
  <2>1. DOMAIN [i \in DOMAIN << >> |-> << >>[i].usd] = {}
    BY <1>1
  <2>. QED
    BY <2>1, SumOfNone DEF Sum
<1>3. Paid(<< >>)
  <2>1. \E S : << >> \in Seq(S)
    BY <1>1
  <2>. QED
    BY <1>1, <2>1 DEF Paid, Distinct
<1>. QED
  BY <1>2, <1>3 DEF Worth

\* Whatever lookups fail, a change of the plan is estimated soundly.
LEMMA ChangeSound ==
    ASSUME plan \in Plans, NEW i \in DOMAIN plan,
           NEW before \in EstimatesOf(plan[i], "before"), NEW after \in EstimatesOf(plan[i], "after")
    PROVE  Sound(EstimateChange(i, before, after))
<1>1. \A why : Sound(SkippedChange(i, why))
  BY DEF SkippedChange, Sound
<1> DEFINE rc == plan[i]
           Idle == Action(rc) \in {"no-op", "read"}
           Can == /\ ~ Idle /\ rc.mode = "managed" /\ Action(rc) \in CostActions
                  /\ "failed" \notin {before.is, after.is} /\ "skipped" \notin {before.is, after.is}
           full == [address    |-> i,
                    action     |-> Action(rc),
                    delta      |-> Sum(after.lines) - Sum(before.lines),
                    confidence |-> Weakest(before.confidence, after.confidence),
                    notes      |-> before.notes \cup after.notes,
                    breakdown  |-> MergeDelta(before.lines, after.lines),
                    skipped    |-> FALSE,
                    why        |-> {}]
<1>2. \/ \E why : EstimateChange(i, before, after) = SkippedChange(i, why)
      \/ Can /\ EstimateChange(i, before, after) = full
  <2>1. CASE Idle
    BY <2>1 DEF EstimateChange
  <2>2. CASE ~ Idle /\ rc.mode # "managed"
    BY <2>2 DEF EstimateChange
  <2>3. CASE ~ Idle /\ rc.mode = "managed" /\ Action(rc) \notin CostActions
    BY <2>3 DEF EstimateChange
  <2>4. CASE ~ Idle /\ rc.mode = "managed" /\ Action(rc) \in CostActions /\ "failed" \in {before.is, after.is}
    BY <2>4 DEF EstimateChange
  <2>5. CASE /\ ~ Idle /\ rc.mode = "managed" /\ Action(rc) \in CostActions
             /\ "failed" \notin {before.is, after.is} /\ "skipped" \in {before.is, after.is}
    BY <2>5 DEF EstimateChange
  <2>6. CASE Can
    BY <2>6 DEF EstimateChange
  <2>. QED
    BY <2>1, <2>2, <2>3, <2>4, <2>5, <2>6
<1>3. ASSUME Can PROVE Sound(full)
  <2>1. \A type, s, d : EstimateState(type, s, d).is \in {"priced", "failed", "skipped"}
    BY DEF EstimateState, Priced, Unpriced, Fault
  <2>2. \A lines, conf, notes : Priced(lines, conf, notes).is = "priced" /\ Priced(lines, conf, notes).lines = lines
    BY DEF Priced
  <2>3. before.is = "priced" /\ after.is = "priced"
    BY <1>3, <2>1, <2>2 DEF EstimatesOf
  <2>4. Paid(before.lines) /\ Sum(before.lines) = Worth(rc.type, rc.before)
    <3>1. CASE "before" \in Range(SidesOf[Action(rc)])
      <4>1. HasNumbers(rc.type, rc.before)
        BY <1>3, NotPriced
      <4>2. PICK down : before = EstimateState(rc.type, rc.before, down)
        BY <1>3, <3>1 DEF EstimatesOf, Costs
      <4>. QED
        BY <2>3, <4>1, <4>2, StatePaid
    <3>2. CASE "before" \notin Range(SidesOf[Action(rc)])
      <4>1. rc.before = NoAttributes /\ before.lines = << >>
        BY <1>3, <2>2, <3>2, NotPriced DEF EstimatesOf
      <4>. QED
        BY <4>1, NoLines
    <3>. QED
      BY <3>1, <3>2
  <2>5. Paid(after.lines) /\ Sum(after.lines) = Worth(rc.type, rc.after)
    <3>1. CASE "after" \in Range(SidesOf[Action(rc)])
      <4>1. HasNumbers(rc.type, rc.after)
        BY <1>3, NotPriced
      <4>2. PICK down : after = EstimateState(rc.type, rc.after, down)
        BY <1>3, <3>1 DEF EstimatesOf, Costs
      <4>. QED
        BY <2>3, <4>1, <4>2, StatePaid
    <3>2. CASE "after" \notin Range(SidesOf[Action(rc)])
      <4>1. rc.after = NoAttributes /\ after.lines = << >>
        BY <1>3, <2>2, <3>2, NotPriced DEF EstimatesOf
      <4>. QED
        BY <4>1, NoLines
    <3>. QED
      BY <3>1, <3>2
  <2>6. /\ Distinct(MergeDelta(before.lines, after.lines))
        /\ Sum(MergeDelta(before.lines, after.lines)) = Sum(after.lines) - Sum(before.lines)
        /\ Sum(after.lines) \in Int /\ Sum(before.lines) \in Int
    BY <2>4, <2>5, MergeAdds
  <2>7. Sum(after.lines) - Sum(before.lines) = Gain(i)
    BY <2>4, <2>5 DEF Gain
  <2>8. /\ full.delta = Sum(after.lines) - Sum(before.lines) /\ full.address = i /\ ~ full.skipped
        /\ full.breakdown = MergeDelta(before.lines, after.lines) /\ full.action = Action(rc)
    OBVIOUS
  <2>. HIDE DEF full
  <2>. QED
    BY <1>3, <2>6, <2>7, <2>8 DEF Sound
<1>. HIDE DEF Can, full
<1>. QED
  BY <1>1, <1>2, <1>3

\* The changes are those of the plan, each once.
ChangesInv ==
    /\ plan \in Plans
    /\ Len(changes) <= Len(plan)
    /\ \A k \in 1..Len(changes) : OfPlan(changes[k])
    /\ \A j, k \in 1..Len(changes) : changes[j].address = changes[k].address => j = k
    /\ phase = "estimating" => \A k \in 1..Len(changes) : changes[k].address = k
    /\ phase # "estimating" => \A i \in 1..Len(plan) : \E k \in 1..Len(changes) : changes[k].address = i

\* A section holds changes filed, of its name, each once.
SectionsInv ==
    /\ sections \in [SectionNames -> Seq({changes[k] : k \in 1..Len(changes)})]
    /\ \A name \in SectionNames : \A k \in 1..Len(sections[name]) :
        \E f \in 1..filed : sections[name][k] = changes[f] /\ name = Section(changes[f])
    /\ \A f \in 1..filed : \E k \in 1..Len(sections[Section(changes[f])]) :
        sections[Section(changes[f])][k] = changes[f]
    /\ \A name \in SectionNames : \A j, k \in 1..Len(sections[name]) :
        sections[name][j].address = sections[name][k].address => j = k

\* Nothing is filed before the changes are sorted, and the comment is made of
\* all of them.
StagesInv ==
    /\ phase = "estimating" => sections = [name \in SectionNames |-> << >>]
    /\ phase \in {"narrating", "done"} => filed = Len(changes)
    /\ phase = "done" => comment.sections = sections /\ comment.caveats = Caveats

ShowInv == FilingInv /\ ChangesInv /\ SectionsInv /\ StagesInv

LEMMA PlanIsSequence == ASSUME plan \in Plans PROVE Len(plan) \in Nat /\ DOMAIN plan = 1..Len(plan)
<1>1. plan \in Seq(Range(plan))
  BY PlansAreTerraforms
<1>. QED
  BY <1>1

LEMMA ChangesAreSequence == ASSUME FilingInv PROVE Len(changes) \in Nat /\ DOMAIN changes = 1..Len(changes)
<1>1. PICK S : changes \in Seq(S)
  BY DEF FilingInv, AllRated
<1>. QED
  BY <1>1

\* While nothing is filed there is nothing to keep.
LEMMA NothingFiled ==
    ASSUME filed' = 0, sections' = [name \in SectionNames |-> << >>]
    PROVE  SectionsInv'
<1>1. \A S : << >> \in Seq(S)
  OBVIOUS
<1>2. \A name \in SectionNames : sections'[name] = << >>
  OBVIOUS
<1>3. sections' \in [SectionNames -> Seq({changes'[k] : k \in 1..Len(changes')})]
  BY <1>1
<1>. QED
  BY <1>2, <1>3 DEF SectionsInv

LEMMA EstimateShows == ShowInv /\ Estimate => ChangesInv' /\ SectionsInv' /\ StagesInv'
<1> SUFFICES ASSUME ShowInv, Estimate PROVE ChangesInv' /\ SectionsInv' /\ StagesInv'
  OBVIOUS
<1>1. /\ Len(plan) \in Nat /\ DOMAIN plan = 1..Len(plan) /\ plan \in Plans
      /\ Len(changes) \in Nat /\ Len(changes) < Len(plan) /\ phase = "estimating"
  BY PlanIsSequence, ChangesAreSequence DEF ShowInv, ChangesInv, Estimate
<1>2. PICK before \in EstimatesOf(plan[Len(changes) + 1], "before"),
          after \in EstimatesOf(plan[Len(changes) + 1], "after") :
              changes' = Append(changes, EstimateChange(Len(changes) + 1, before, after))
  BY DEF Estimate
<1> DEFINE ce == EstimateChange(Len(changes) + 1, before, after)
<1>3. OfPlan(ce) /\ ce.address = Len(changes) + 1
  BY <1>1, ChangeOfPlan
<1>4. PICK S : changes \in Seq(S)
  BY DEF ShowInv, FilingInv, AllRated
<1> HIDE DEF ce
<1>5. /\ Len(changes') = Len(changes) + 1
      /\ \A k \in 1..Len(changes') : changes'[k] = IF k <= Len(changes) THEN changes[k] ELSE ce
  <2>1. changes \in Seq(S \cup {ce})
    BY <1>4
  <2>. QED
    BY <1>2, <2>1 DEF ce
<1>6. \A k \in 1..Len(changes') : changes'[k].address = k
  BY <1>1, <1>3, <1>5 DEF ShowInv, ChangesInv
<1>7. \A k \in 1..Len(changes') : OfPlan(changes'[k])
  BY <1>1, <1>3, <1>5 DEF ShowInv, ChangesInv
<1>8. UNCHANGED <<plan, phase, filed, sections>>
  BY DEF Estimate
<1>9. ChangesInv'
  BY <1>1, <1>5, <1>6, <1>7, <1>8 DEF ChangesInv, OfPlan
<1>10. SectionsInv'
  BY <1>1, <1>8, NothingFiled DEF ShowInv, FilingInv, Filing, StagesInv
<1>11. StagesInv'
  BY <1>1, <1>8 DEF ShowInv, StagesInv
<1>. QED
  BY <1>9, <1>10, <1>11

LEMMA SortShows == ShowInv /\ Sort => ChangesInv' /\ SectionsInv' /\ StagesInv'
<1> SUFFICES ASSUME ShowInv, Sort PROVE ChangesInv' /\ SectionsInv' /\ StagesInv'
  OBVIOUS
<1>1. /\ Len(plan) \in Nat /\ DOMAIN plan = 1..Len(plan) /\ plan \in Plans
      /\ Len(changes) = Len(plan) /\ DOMAIN changes = 1..Len(changes) /\ phase = "estimating"
  BY PlanIsSequence, ChangesAreSequence DEF ShowInv, ChangesInv, Sort
<1>2. PICK p \in Bijection(DOMAIN changes, DOMAIN changes) :
        changes' = [k \in DOMAIN changes |-> changes[p[k]]]
  BY DEF Sort
<1>3. /\ \A k \in 1..Len(plan) : p[k] \in 1..Len(plan)
      /\ \A j, k \in 1..Len(plan) : p[j] = p[k] => j = k
      /\ \A i \in 1..Len(plan) : \E k \in 1..Len(plan) : p[k] = i
  <2>1. p \in [1..Len(plan) -> 1..Len(plan)] /\ IsInjective(p)
    BY <1>1, <1>2 DEF Bijection, Injection
  <2>2. \A i \in 1..Len(plan) : \E k \in 1..Len(plan) : p[k] = i
    BY <1>1, <1>2 DEF Bijection, Surjection
  <2>. QED
    BY <2>1, <2>2 DEF IsInjective
<1>4. /\ Len(changes') = Len(plan)
      /\ \A k \in 1..Len(plan) : changes'[k] = changes[p[k]]
  BY <1>1, <1>2
<1>5. UNCHANGED <<plan, filed, sections>> /\ phase' = "filing"
  BY DEF Sort
<1>6. \A k \in 1..Len(plan) : changes[k].address = k /\ OfPlan(changes[k])
  BY <1>1 DEF ShowInv, ChangesInv
<1>7. \A k \in 1..Len(plan) : changes'[k].address = p[k] /\ OfPlan(changes'[k])
  BY <1>3, <1>4, <1>6
<1>8. ChangesInv'
  <2>1. \A j, k \in 1..Len(plan) : changes'[j].address = changes'[k].address => j = k
    BY <1>3, <1>7
  <2>2. \A i \in 1..Len(plan) : \E k \in 1..Len(plan) : changes'[k].address = i
    BY <1>3, <1>7
  <2>3. \A k \in 1..Len(plan) : OfPlan(changes[k])'
    BY <1>5, <1>7 DEF OfPlan
  <2>. QED
    BY <1>1, <1>4, <1>5, <2>1, <2>2, <2>3 DEF ChangesInv
<1>9. SectionsInv'
  BY <1>1, <1>5, NothingFiled DEF ShowInv, FilingInv, Filing, StagesInv
<1>10. StagesInv'
  BY <1>5 DEF StagesInv
<1>. QED
  BY <1>8, <1>9, <1>10

\* A change filed is the last of its section, and no other has its address.
LEMMA FileShows == ShowInv /\ File => ChangesInv' /\ SectionsInv' /\ StagesInv'
<1> SUFFICES ASSUME ShowInv, File PROVE ChangesInv' /\ SectionsInv' /\ StagesInv'
  OBVIOUS
<1> DEFINE ce == changes[filed + 1]
           at == Section(ce)
           All == {changes[k] : k \in 1..Len(changes)}
<1>1. /\ Len(changes) \in Nat /\ filed \in Nat /\ filed + 1 \in 1..Len(changes)
      /\ phase = "filing"
  BY ChangesAreSequence DEF ShowInv, FilingInv, Filing, File
<1>2. UNCHANGED <<plan, phase, changes>> /\ filed' = filed + 1
  BY DEF File
<1>3. ce \in All
  BY <1>1
<1>4. at \in SectionNames
  BY <1>1 DEF ShowInv, ChangesInv, OfPlan, Section, SectionNames
<1>5. sections \in [SectionNames -> Seq(All)] /\ sections' = [sections EXCEPT ![at] = Append(@, ce)]
  BY DEF ShowInv, SectionsInv, File
<1>6. ASSUME NEW f \in 1..filed PROVE changes[f].address # ce.address
  BY <1>1, <1>6 DEF ShowInv, ChangesInv
<1> HIDE DEF All, ce, at
<1>7. /\ Len(sections[at]) \in Nat /\ Len(sections'[at]) = Len(sections[at]) + 1
      /\ \A k \in 1..Len(sections[at]) : sections'[at][k] = sections[at][k]
      /\ sections'[at][Len(sections[at]) + 1] = ce
      /\ sections'[at] \in Seq(All)
  <2>1. sections[at] \in Seq(All) /\ sections'[at] = Append(sections[at], ce)
    BY <1>4, <1>5
  <2>. QED
    BY <1>3, <2>1
<1>8. \A name \in SectionNames : name # at => sections'[name] = sections[name]
  BY <1>5
<1>9. sections' \in [SectionNames -> Seq(All)]
  BY <1>4, <1>5, <1>7
<1>10. ASSUME NEW name \in SectionNames, NEW k \in 1..Len(sections[name])
       PROVE  \E f \in 1..filed : sections[name][k] = changes[f] /\ name = Section(changes[f])
  BY DEF ShowInv, SectionsInv
<1>11. ASSUME NEW name \in SectionNames, NEW k \in 1..Len(sections'[name])
       PROVE  \E f \in 1..(filed + 1) : sections'[name][k] = changes[f] /\ name = Section(changes[f])
  <2>1. CASE name = at /\ k = Len(sections[at]) + 1
    BY <1>1, <1>7, <2>1 DEF ce, at
  <2>2. CASE k \in 1..Len(sections[name])
    BY <1>1, <1>7, <1>8, <1>10, <2>2
  <2>. QED
    BY <1>7, <1>8, <2>1, <2>2
<1>12. ASSUME NEW f \in 1..(filed + 1)
       PROVE  \E k \in 1..Len(sections'[Section(changes[f])]) : sections'[Section(changes[f])][k] = changes[f]
  <2>1. CASE f = filed + 1
    BY <1>7, <2>1 DEF ce, at
  <2>2. CASE f \in 1..filed
    <3>1. PICK k \in 1..Len(sections[Section(changes[f])]) : sections[Section(changes[f])][k] = changes[f]
      BY <2>2 DEF ShowInv, SectionsInv
    <3>2. Section(changes[f]) \in SectionNames
      BY <1>1, <2>2 DEF ShowInv, ChangesInv, OfPlan, Section, SectionNames
    <3>. QED
      BY <1>7, <1>8, <3>1, <3>2
  <2>. QED
    BY <1>1, <2>1, <2>2
<1>13. ASSUME NEW name \in SectionNames, NEW j \in 1..Len(sections'[name]), NEW k \in 1..Len(sections'[name]),
              sections'[name][j].address = sections'[name][k].address
       PROVE  j = k
  <2>1. \A m \in 1..Len(sections[name]) : sections[name][m].address # ce.address
    BY <1>6, <1>10
  <2>2. \A l, m \in 1..Len(sections[name]) :
            sections[name][l].address = sections[name][m].address => l = m
    BY DEF ShowInv, SectionsInv
  <2>3. CASE name = at
    <3>1. \A m \in 1..Len(sections'[at]) :
            \/ m \in 1..Len(sections[at]) /\ sections'[at][m] = sections[at][m]
            \/ m = Len(sections[at]) + 1 /\ sections'[at][m] = ce
      BY <1>7
    <3>2. CASE j \in 1..Len(sections[at]) /\ k \in 1..Len(sections[at])
      BY <1>7, <1>13, <2>2, <2>3, <3>2
    <3>3. CASE j = Len(sections[at]) + 1 /\ k \in 1..Len(sections[at])
      BY <1>7, <1>13, <2>1, <2>3, <3>3
    <3>4. CASE k = Len(sections[at]) + 1 /\ j \in 1..Len(sections[at])
      BY <1>7, <1>13, <2>1, <2>3, <3>4
    <3>. QED
      BY <2>3, <3>1, <3>2, <3>3, <3>4
  <2>4. CASE name # at
    BY <1>8, <1>13, <2>2, <2>4
  <2>. QED
    BY <2>3, <2>4
<1>14. SectionsInv'
  <2>1. \A c : Section(c)' = Section(c)
    BY DEF Section
  <2>. QED
    BY <1>2, <1>9, <1>11, <1>12, <1>13, <2>1 DEF SectionsInv, All, Section
<1>15. ChangesInv'
  BY <1>2 DEF ShowInv, ChangesInv, OfPlan
<1>16. StagesInv'
  BY <1>1, <1>2 DEF StagesInv
<1>. QED
  BY <1>14, <1>15, <1>16

\* The other steps change neither the changes nor the sections, and the comment
\* is made of them.
LEMMA OthersShow ==
    ShowInv /\ (Ask \/ Render \/ Done \/ UNCHANGED vars) => ChangesInv' /\ SectionsInv' /\ StagesInv'
<1> SUFFICES ASSUME ShowInv, Ask \/ Render \/ Done \/ UNCHANGED vars
             PROVE  ChangesInv' /\ SectionsInv' /\ StagesInv'
  OBVIOUS
<1>1. /\ UNCHANGED <<plan, changes, filed, sections>>
      /\ phase' = "estimating" <=> phase = "estimating"
  BY DEF Ask, Render, Done, vars
<1>2. ChangesInv'
  BY <1>1 DEF ShowInv, ChangesInv, OfPlan
<1>3. SectionsInv'
  BY <1>1 DEF ShowInv, SectionsInv, Section
<1>4. Caveats' = Caveats
  BY <1>1 DEF Caveats, Notes
<1>5. StagesInv'
  <2>1. CASE Ask
    BY <1>1, <2>1 DEF Ask, ShowInv, StagesInv
  <2>2. CASE Render
    BY <1>1, <1>4, <2>2 DEF Render, RenderMarkdown, ShowInv, StagesInv
  <2>3. CASE UNCHANGED vars
    BY <1>4, <2>3 DEF vars, ShowInv, StagesInv
  <2>. QED
    BY <2>1, <2>2, <2>3 DEF Done
<1>. QED
  BY <1>2, <1>3, <1>5

LEMMA ShowInvariance == Spec => []ShowInv
<1>1. Init => ChangesInv /\ SectionsInv /\ StagesInv
  <2> SUFFICES ASSUME Init PROVE ChangesInv /\ SectionsInv /\ StagesInv
    OBVIOUS
  <2>1. Len(changes) = 0 /\ Len(plan) \in Nat
    BY PlanIsSequence DEF Init
  <2>2. \A S : << >> \in Seq(S)
    OBVIOUS
  <2>3. sections \in [SectionNames -> Seq({changes[k] : k \in 1..Len(changes)})]
    BY <2>2 DEF Init
  <2>4. SectionsInv
    BY <2>3 DEF Init, SectionsInv
  <2>. QED
    BY <2>1, <2>4 DEF Init, ChangesInv, StagesInv
<1>2. ShowInv /\ [Next]_vars => FilingInv'
  BY EstimateKeeps, SortKeeps, FileKeeps, OthersKeep DEF Next, ShowInv
<1>3. ShowInv /\ [Next]_vars => ChangesInv' /\ SectionsInv' /\ StagesInv'
  BY EstimateShows, SortShows, FileShows, OthersShow DEF Next
<1>. QED
  BY <1>1, <1>2, <1>3, FilingInit, PTL DEF Spec, ShowInv

\* What the comment shows is all the changes.
LEMMA ShownIsAll ==
    ASSUME ShowInv, phase = "done"
    PROVE  Shown = {changes[k] : k \in 1..Len(changes)}
<1>1. /\ filed = Len(changes) /\ comment.sections = sections
      /\ sections \in [SectionNames -> Seq({changes[k] : k \in 1..Len(changes)})]
  BY DEF ShowInv, StagesInv, SectionsInv
<1>2. \A name \in SectionNames : Range(sections[name]) \subseteq {changes[k] : k \in 1..Len(changes)}
  <2> SUFFICES ASSUME NEW name \in SectionNames
               PROVE  Range(sections[name]) \subseteq {changes[k] : k \in 1..Len(changes)}
    OBVIOUS
  <2>1. sections[name] \in Seq({changes[k] : k \in 1..Len(changes)})
    BY <1>1
  <2>2. \A k \in DOMAIN sections[name] : sections[name][k] \in {changes[m] : m \in 1..Len(changes)}
    BY <2>1
  <2>. QED
    BY <2>2 DEF Range
<1>3. ASSUME NEW f \in 1..Len(changes) PROVE changes[f] \in Shown
  <2>1. PICK k \in 1..Len(sections[Section(changes[f])]) : sections[Section(changes[f])][k] = changes[f]
    BY <1>1 DEF ShowInv, SectionsInv
  <2>2. Section(changes[f]) \in SectionNames
    BY DEF ShowInv, ChangesInv, OfPlan, Section, SectionNames
  <2>3. changes[f] \in Range(sections[Section(changes[f])])
    BY <1>1, <2>1, <2>2 DEF Range
  <2>. QED
    BY <1>1, <2>2, <2>3 DEF Shown
<1>. QED
  BY <1>1, <1>2, <1>3 DEF Shown

\* Every change of the plan is in one place of the comment, in the section of
\* its action or under Skipped (engine.go: categorize).
LEMMA AllFiledOnce == ASSUME ShowInv, phase = "done" PROVE FiledOnce
<1>1. ShowInv => (phase = "done" => FiledOnce)
  <2> SUFFICES ASSUME ShowInv, phase = "done", NEW i \in DOMAIN plan
               PROVE  \E name \in SectionNames : \E k \in DOMAIN sections[name] :
                          /\ sections[name][k].address = i
                          /\ name \in {"skipped", Action(plan[i])}
                          /\ \A other \in SectionNames : \A j \in DOMAIN sections[other] :
                                sections[other][j].address = i => other = name /\ j = k
    BY DEF FiledOnce, ShowInv, StagesInv
  <2>1. /\ Len(plan) \in Nat /\ DOMAIN plan = 1..Len(plan) /\ filed = Len(changes)
    BY PlanIsSequence DEF ShowInv, ChangesInv, StagesInv
  <2>2. PICK f \in 1..Len(changes) : changes[f].address = i
    BY <2>1 DEF ShowInv, ChangesInv
  <2> DEFINE at == Section(changes[f])
  <2>3. at \in SectionNames /\ at \in {"skipped", Action(plan[i])}
    BY <2>2 DEF ShowInv, ChangesInv, OfPlan, Section, SectionNames
  <2>4. \A name \in SectionNames : DOMAIN sections[name] = 1..Len(sections[name])
    BY DEF ShowInv, SectionsInv
  <2>5. PICK k \in 1..Len(sections[at]) : sections[at][k] = changes[f]
    BY <2>1 DEF ShowInv, SectionsInv
  <2>6. ASSUME NEW other \in SectionNames, NEW j \in 1..Len(sections[other]),
               sections[other][j].address = i
        PROVE  other = at /\ j = k
    <3>1. \E g \in 1..filed : sections[other][j] = changes[g] /\ other = Section(changes[g])
      <4>1. SectionsInv
        BY DEF ShowInv
      <4>2. \A name \in SectionNames : \A m \in 1..Len(sections[name]) :
                \E g \in 1..filed : sections[name][m] = changes[g] /\ name = Section(changes[g])
        BY <4>1 DEF SectionsInv
      <4>. HIDE DEF at
      <4>. QED
        BY <4>2, Zenon
    <3>2. PICK g \in 1..filed : sections[other][j] = changes[g] /\ other = Section(changes[g])
      BY <3>1
    <3>3. g = f
      BY <2>1, <2>2, <2>6, <3>2 DEF ShowInv, ChangesInv
    <3>4. other = at
      BY <3>2, <3>3
    <3>. QED
      <4>1. \A l, m \in 1..Len(sections[at]) :
                sections[at][l].address = sections[at][m].address => l = m
        BY <2>3 DEF ShowInv, SectionsInv
      <4>. QED
        BY <2>2, <2>5, <2>6, <3>4, <4>1
  <2>. QED
    BY <2>2, <2>3, <2>4, <2>5, <2>6
<1>. QED
  BY <1>1

\* Each caveat of the comment lists just the resources it applies to
\* (markdown.go: deduplicateNotes).
LEMMA AllCaveats == ASSUME ShowInv, phase = "done" PROVE CaveatsOfShown
<1>1. ShowInv => (phase = "done" => CaveatsOfShown)
  <2> SUFFICES ASSUME ShowInv, phase = "done" PROVE CaveatsOfShown
    OBVIOUS
  <2>1. comment.caveats = Caveats /\ DOMAIN changes = 1..Len(changes)
    BY ChangesAreSequence DEF ShowInv, StagesInv
  <2>2. Shown = {changes[k] : k \in 1..Len(changes)}
    BY ShownIsAll
  <2>3. ASSUME NEW k \in 1..Len(changes), NEW n \in changes[k].notes
        PROVE  n \in DOMAIN Caveats /\ changes[k].address \in Caveats[n]
    BY <2>1 DEF Caveats, Notes
  <2>4. ASSUME NEW n \in DOMAIN Caveats, NEW i \in Caveats[n]
        PROVE  \E k \in 1..Len(changes) : changes[k].address = i /\ n \in changes[k].notes
    BY <2>1 DEF Caveats, Notes
  <2>. QED
    BY <2>1, <2>2, <2>3, <2>4 DEF CaveatsOfShown
<1>. QED
  BY <1>1

-----------------------------------------------------------------------------
(* What the comment says of the changes: their sum, their order and their   *)
(* counts.                                                                  *)

\* The places of the priced ones among the first n changes, and what they gain.
PricedPlaces(n) == {k \in 1..n : ~ changes[k].skipped}
Gains(n) == [i \in {changes[k].address : k \in PricedPlaces(n)} |-> Gain(i)]

SoundInv == \A k \in 1..Len(changes) : Sound(changes[k])

TotalInv == total \in Int /\ total = SumFunction(Gains(filed))

OrderInv ==
    phase # "estimating" =>
        /\ Len(changes) = Len(plan)
        /\ \A j, k \in 1..Len(changes) : j < k => Abs(changes[j].delta) >= Abs(changes[k].delta)

CountInv ==
    /\ Len(sections["create"]) + Len(sections["delete"]) + Len(sections["update"])
       + Len(sections["replace"]) + Len(sections["skipped"]) = filed
    /\ Len(sections["skipped"]) = Cardinality({k \in 1..filed : changes[k].skipped})

CommentInv ==
    /\ phase = "done" =>
        /\ comment.net = total /\ comment.movers = TopMovers
        /\ comment.stats = Stats /\ comment.notes = PlanNotes
    /\ prompt # Nothing => phase \in {"narrating", "done"} /\ prompt = BuildPRNarrativePrompt

DiffInv == ShowInv /\ SoundInv /\ TotalInv /\ OrderInv /\ CountInv /\ CommentInv

\* The prompt and the comment depend on nothing but what was filed.
LEMMA SameFiling ==
    ASSUME UNCHANGED <<plan, changes, total, sections>>
    PROVE  /\ TopMovers' = TopMovers /\ Stats' = Stats /\ PlanNotes' = PlanNotes
           /\ BuildPRNarrativePrompt' = BuildPRNarrativePrompt
<1>1. TopMovers' = TopMovers
  BY DEF TopMovers
<1>2. Stats' = Stats
  BY DEF Stats
<1>3. PlanNotes' = PlanNotes
  BY DEF PlanNotes
<1>. QED
  BY <1>1, <1>2, <1>3 DEF BuildPRNarrativePrompt

LEMMA GainsHold ==
    ASSUME ShowInv, NEW n \in 0..Len(changes)
    PROVE  /\ IsFiniteSet({changes[k].address : k \in PricedPlaces(n)})
           /\ {changes[k].address : k \in PricedPlaces(n)} \subseteq 1..Len(plan)
<1>1. DOMAIN plan = 1..Len(plan) /\ Len(plan) \in Nat /\ Len(changes) \in Nat
  BY PlanIsSequence, ChangesAreSequence DEF ShowInv, ChangesInv
<1>2. {changes[k].address : k \in PricedPlaces(n)} \subseteq 1..Len(plan)
  BY <1>1 DEF ShowInv, ChangesInv, OfPlan, PricedPlaces
<1>3. IsFiniteSet(1..Len(plan))
  BY <1>1, FS_Interval
<1>. QED
  BY <1>2, <1>3, FS_Subset

LEMMA EstimateCounts ==
    DiffInv /\ Estimate => SoundInv' /\ TotalInv' /\ OrderInv' /\ CountInv' /\ CommentInv'
<1> SUFFICES ASSUME DiffInv, Estimate
             PROVE  SoundInv' /\ TotalInv' /\ OrderInv' /\ CountInv' /\ CommentInv'
  OBVIOUS
<1>1. /\ Len(plan) \in Nat /\ DOMAIN plan = 1..Len(plan) /\ plan \in Plans
      /\ Len(changes) \in Nat /\ Len(changes) < Len(plan) /\ phase = "estimating"
  BY PlanIsSequence, ChangesAreSequence DEF DiffInv, ShowInv, ChangesInv, Estimate
<1>2. PICK before \in EstimatesOf(plan[Len(changes) + 1], "before"),
          after \in EstimatesOf(plan[Len(changes) + 1], "after") :
              changes' = Append(changes, EstimateChange(Len(changes) + 1, before, after))
  BY DEF Estimate
<1>3. PICK ce : ce = EstimateChange(Len(changes) + 1, before, after) /\ Sound(ce)
  <2>1. Len(changes) + 1 \in DOMAIN plan
    BY <1>1
  <2>2. Sound(EstimateChange(Len(changes) + 1, before, after))
    BY <1>1, <2>1, ChangeSound
  <2>. QED
    BY <2>2
<1>4. PICK S : changes \in Seq(S)
  BY DEF DiffInv, ShowInv, FilingInv, AllRated
<1>5. /\ Len(changes') = Len(changes) + 1
      /\ \A k \in 1..Len(changes') : changes'[k] = IF k <= Len(changes) THEN changes[k] ELSE ce
  <2>1. changes \in Seq(S \cup {ce})
    BY <1>4
  <2>. QED
    BY <1>2, <1>3, <2>1
<1>6. UNCHANGED <<plan, phase, filed, total, sections, prompt, comment>>
  BY DEF Estimate
<1>7. filed = 0
  BY <1>1 DEF DiffInv, ShowInv, FilingInv, Filing
<1>8. SoundInv'
  <2>1. \A k \in 1..Len(changes') : Sound(changes'[k])
    BY <1>1, <1>3, <1>5 DEF DiffInv, SoundInv
  <2>2. ASSUME NEW k \in 1..Len(changes') PROVE Sound(changes[k])'
    BY <1>6, <2>1 DEF Sound, Gain
  <2>. QED
    BY <2>2 DEF SoundInv
<1>9. PricedPlaces(0) = {} /\ PricedPlaces(0)' = {}
  BY DEF PricedPlaces
<1>10. TotalInv'
  <2>1. Gains(0) = [i \in {} |-> Gain(i)] /\ Gains(0)' = [i \in {} |-> Gain(i)']
    BY <1>9 DEF Gains
  <2>2. DOMAIN Gains(0) = {} /\ DOMAIN (Gains(0)') = {}
    BY <2>1
  <2>3. SumFunction(Gains(0)) = 0 /\ SumFunction(Gains(0)') = 0
    BY <2>2, SumOfNone
  <2>. QED
    BY <1>6, <1>7, <2>3 DEF DiffInv, TotalInv
<1>11. OrderInv'
  BY <1>1, <1>6 DEF OrderInv
<1>12. CountInv'
  <2>1. {k \in 1..filed : changes[k].skipped} = {} /\ {k \in 1..filed' : changes'[k].skipped} = {}
    BY <1>6, <1>7
  <2>. QED
    BY <1>6, <2>1 DEF DiffInv, CountInv
<1>13. CommentInv'
  BY <1>1, <1>6 DEF DiffInv, CommentInv
<1>. QED
  BY <1>8, <1>10, <1>11, <1>12, <1>13

LEMMA SortCounts ==
    DiffInv /\ Sort => SoundInv' /\ TotalInv' /\ OrderInv' /\ CountInv' /\ CommentInv'
<1> SUFFICES ASSUME DiffInv, Sort
             PROVE  SoundInv' /\ TotalInv' /\ OrderInv' /\ CountInv' /\ CommentInv'
  OBVIOUS
<1>1. /\ Len(changes) \in Nat /\ DOMAIN changes = 1..Len(changes) /\ Len(changes) = Len(plan)
      /\ phase = "estimating" /\ phase' = "filing"
      /\ UNCHANGED <<plan, filed, total, confidence, sections, prompt, comment>>
  BY ChangesAreSequence DEF DiffInv, ShowInv, Sort
<1>2. PICK p : /\ p \in Bijection(DOMAIN changes, DOMAIN changes) /\ InOrder(changes, p)
               /\ changes' = [k \in DOMAIN changes |-> changes[p[k]]]
  BY DEF Sort
<1>3. p \in [1..Len(changes) -> 1..Len(changes)]
  BY <1>1, <1>2 DEF Bijection, Injection
<1>4. /\ Len(changes') = Len(changes)
      /\ \A k \in 1..Len(changes) : changes'[k] = changes[p[k]]
  BY <1>1, <1>2
<1>5. filed = 0
  BY <1>1 DEF DiffInv, ShowInv, FilingInv, Filing
<1>6. SoundInv'
  <2>1. \A k \in 1..Len(changes') : Sound(changes'[k])
    BY <1>3, <1>4 DEF DiffInv, SoundInv
  <2>2. ASSUME NEW k \in 1..Len(changes') PROVE Sound(changes[k])'
    BY <1>1, <2>1 DEF Sound, Gain
  <2>. QED
    BY <2>2 DEF SoundInv
<1>7. PricedPlaces(0) = {} /\ PricedPlaces(0)' = {}
  BY DEF PricedPlaces
<1>8. TotalInv'
  <2>1. Gains(0) = [i \in {} |-> Gain(i)] /\ Gains(0)' = [i \in {} |-> Gain(i)']
    BY <1>7 DEF Gains
  <2>2. DOMAIN Gains(0) = {} /\ DOMAIN (Gains(0)') = {}
    BY <2>1
  <2>3. SumFunction(Gains(0)) = 0 /\ SumFunction(Gains(0)') = 0
    BY <2>2, SumOfNone
  <2>. QED
    BY <1>1, <1>5, <2>3 DEF DiffInv, TotalInv
<1>9. OrderInv'
  <2>1. \A k \in 1..Len(changes) : Abs(changes[k].delta) \in Int
    BY DEF DiffInv, SoundInv, Sound, Abs
  <2>2. ASSUME NEW j \in 1..Len(changes), NEW k \in 1..Len(changes), j < k
        PROVE  Abs(changes'[j].delta) >= Abs(changes'[k].delta)
    <3>1. /\ Abs(changes[p[j]].delta) \in Int /\ Abs(changes[p[k]].delta) \in Int
          /\ \/ Abs(changes[p[j]].delta) > Abs(changes[p[k]].delta)
             \/ Abs(changes[p[j]].delta) = Abs(changes[p[k]].delta)
      BY <1>1, <1>2, <1>3, <2>1, <2>2 DEF InOrder
    <3>2. PICK x, y : x = Abs(changes[p[j]].delta) /\ y = Abs(changes[p[k]].delta)
      OBVIOUS
    <3>3. x >= y
      BY <3>1, <3>2
    <3>. QED
      BY <1>4, <3>2, <3>3
  <2>. QED
    BY <1>1, <1>4, <2>2 DEF OrderInv, Abs
<1>10. CountInv'
  <2>1. {k \in 1..filed : changes[k].skipped} = {} /\ {k \in 1..filed' : changes'[k].skipped} = {}
    BY <1>1, <1>5
  <2>. QED
    BY <1>1, <2>1 DEF DiffInv, CountInv
<1>11. CommentInv'
  BY <1>1 DEF DiffInv, CommentInv
<1>. QED
  BY <1>6, <1>8, <1>9, <1>10, <1>11

LEMMA FileCounts ==
    DiffInv /\ File => SoundInv' /\ TotalInv' /\ OrderInv' /\ CountInv' /\ CommentInv'
<1> SUFFICES ASSUME DiffInv, File
             PROVE  SoundInv' /\ TotalInv' /\ OrderInv' /\ CountInv' /\ CommentInv'
  OBVIOUS
<1> DEFINE ce == changes[filed + 1]
           at == Section(ce)
<1>1. /\ Len(changes) \in Nat /\ filed \in Nat /\ filed + 1 \in 1..Len(changes)
      /\ phase = "filing" /\ UNCHANGED <<plan, phase, changes, prompt, comment>>
      /\ filed' = filed + 1 /\ total' = total + ce.delta
  BY ChangesAreSequence DEF DiffInv, ShowInv, FilingInv, Filing, File
<1>2. SoundInv'
  BY <1>1 DEF DiffInv, SoundInv, Sound, Gain
<1>3. OrderInv'
  BY <1>1 DEF DiffInv, OrderInv, Abs
<1>4. CommentInv'
  BY <1>1 DEF DiffInv, CommentInv
<1>5. ce.delta \in Int /\ ce.skipped \in BOOLEAN /\ ce.delta = IF ce.skipped THEN 0 ELSE Gain(ce.address)
  BY <1>1 DEF DiffInv, SoundInv, Sound, ShowInv, FilingInv, AllRated, Rated
<1>6. \A k \in 1..(filed + 1) : k \in 1..Len(changes)
  BY <1>1
<1>7. 1..(filed + 1) = (1..filed) \cup {filed + 1} /\ filed + 1 \notin 1..filed
  BY <1>1, OneMore
<1> DEFINE A == {changes[k].address : k \in PricedPlaces(filed)}
           f == Gains(filed)
           g == Gains(filed + 1)
<1>8. \A k \in PricedPlaces(filed) : k \in 1..Len(changes) /\ Gain(changes[k].address) \in Int
  BY <1>6, <1>7 DEF PricedPlaces, DiffInv, SoundInv, Sound
<1>9. f \in [A -> Int] /\ IsFiniteSet(A)
  <2>1. IsFiniteSet(A)
    BY <1>1, GainsHold DEF DiffInv
  <2>2. \A i \in A : Gain(i) \in Int
    BY <1>8
  <2>. QED
    BY <2>1, <2>2 DEF Gains
<1>10. \A n : Gains(n)' = Gains(n)
  <2>1. \A n : PricedPlaces(n)' = PricedPlaces(n)
    BY <1>1 DEF PricedPlaces
  <2>2. \A i : Gain(i)' = Gain(i)
    BY <1>1 DEF Gain
  <2>. QED
    BY <1>1, <2>1, <2>2 DEF Gains
<1>11. total \in Int /\ total = SumFunction(f)
  BY DEF DiffInv, TotalInv
<1>12. total' \in Int /\ total' = SumFunction(g)
  <2>1. CASE ce.skipped
    <3>1. PricedPlaces(filed + 1) = PricedPlaces(filed)
      BY <1>7, <2>1 DEF PricedPlaces
    <3>2. g = f
      BY <3>1 DEF Gains
    <3>. QED
      BY <1>1, <1>5, <1>11, <2>1, <3>2
  <2>2. CASE ~ ce.skipped
    <3>1. PricedPlaces(filed + 1) = PricedPlaces(filed) \cup {filed + 1}
      BY <1>7, <2>2 DEF PricedPlaces
    <3>2. g = [i \in A \cup {ce.address} |-> Gain(i)]
      BY <3>1 DEF Gains
    <3>3. ce.address \notin A
      BY <1>1, <1>7, <1>8 DEF DiffInv, ShowInv, ChangesInv, PricedPlaces
    <3>4. Gain(ce.address) = ce.delta
      BY <1>5, <2>2
    <3>5. PICK x : x = ce.address
      OBVIOUS
    <3>6. /\ g \in [A \cup {x} -> Int] /\ g[x] = ce.delta
          /\ \A y \in A : g[y] = f[y]
      <4>1. \A y \in A : f[y] = Gain(y)
        BY DEF Gains
      <4>2. \A y \in A : g[y] = Gain(y)
        BY <3>2
      <4>3. g[x] = ce.delta
        BY <3>2, <3>4, <3>5
      <4>4. DOMAIN g = A \cup {x} /\ g = [i \in DOMAIN g |-> g[i]]
        BY <3>2, <3>5
      <4>5. \A y \in DOMAIN g : g[y] \in Int
        BY <1>5, <1>9, <4>1, <4>2, <4>3, <4>4
      <4>. HIDE DEF g, A, ce
      <4>. QED
        BY <4>1, <4>2, <4>3, <4>4, <4>5
    <3>. HIDE DEF f, g, A, ce
    <3>7. SumFunction(g) = SumFunction(f) + ce.delta
      BY <1>9, <3>3, <3>5, <3>6, SumGrows
    <3>. QED
      BY <1>1, <1>5, <1>11, <3>7
  <2>. QED
    BY <1>5, <2>1, <2>2
<1>13. TotalInv'
  <2>1. Gains(filed)' = g
    BY <1>1, <1>10
  <2>. QED
    BY <1>12, <2>1 DEF TotalInv
<1>14. CountInv'
  <2>1. at \in SectionNames /\ (at = "skipped" <=> ce.skipped)
    <3>1. OfPlan(ce)
      BY <1>1 DEF DiffInv, ShowInv, ChangesInv
    <3>. QED
      BY <1>5, <3>1 DEF OfPlan, Section, SectionNames, CostActions
  <2>2. \A name \in SectionNames : Len(sections[name]) \in Nat
    BY DEF DiffInv, ShowInv, SectionsInv
  <2>3. /\ Len(sections'[at]) = Len(sections[at]) + 1
        /\ \A name \in SectionNames : name # at => sections'[name] = sections[name]
    <3>1. PICK S : sections \in [SectionNames -> Seq(S)] /\ ce \in S
      <4>1. ce \in {changes[k] : k \in 1..Len(changes)}
        BY <1>1
      <4>. QED
        BY <4>1 DEF DiffInv, ShowInv, SectionsInv
    <3>2. sections' = [sections EXCEPT ![at] = Append(@, ce)]
      BY DEF File
    <3>. HIDE DEF at, ce
    <3>3. sections[at] \in Seq(S) /\ sections'[at] = Append(sections[at], ce)
      BY <2>1, <3>1, <3>2
    <3>4. Len(sections'[at]) = Len(sections[at]) + 1
      BY <3>1, <3>3
    <3>. QED
      BY <3>1, <3>2, <3>4
  <2>4. /\ Len(sections["create"]) + Len(sections["delete"]) + Len(sections["update"])
           + Len(sections["replace"]) + Len(sections["skipped"]) = filed
        /\ Len(sections["skipped"]) = Cardinality({k \in 1..filed : changes[k].skipped})
    BY DEF DiffInv, CountInv
  <2>5. PICK c, d, u, r, s : /\ c = Len(sections["create"]) /\ d = Len(sections["delete"])
                             /\ u = Len(sections["update"]) /\ r = Len(sections["replace"])
                             /\ s = Len(sections["skipped"])
    OBVIOUS
  <2>6. SectionNames = {"create", "delete", "update", "replace", "skipped"}
    BY DEF SectionNames, CostActions
  <2>7. c \in Nat /\ d \in Nat /\ u \in Nat /\ r \in Nat /\ s \in Nat /\ c + d + u + r + s = filed
    BY <2>2, <2>4, <2>5, <2>6
  <2>8. /\ Len(sections'["create"])  = IF at = "create" THEN c + 1 ELSE c
        /\ Len(sections'["delete"])  = IF at = "delete" THEN d + 1 ELSE d
        /\ Len(sections'["update"])  = IF at = "update" THEN u + 1 ELSE u
        /\ Len(sections'["replace"]) = IF at = "replace" THEN r + 1 ELSE r
        /\ Len(sections'["skipped"]) = IF at = "skipped" THEN s + 1 ELSE s
    <3>. HIDE DEF at
    <3>. QED
      BY <2>3, <2>5, <2>6
  <2>9. Len(sections'["create"]) + Len(sections'["delete"]) + Len(sections'["update"])
        + Len(sections'["replace"]) + Len(sections'["skipped"]) = filed + 1
    <3>. HIDE DEF at
    <3>. QED
      BY <2>1, <2>6, <2>7, <2>8
  <2>10. Len(sections'["skipped"]) = Cardinality({k \in 1..(filed + 1) : changes[k].skipped})
    <3> DEFINE K == {k \in 1..filed : changes[k].skipped}
    <3>1. {k \in 1..(filed + 1) : changes[k].skipped} = K \cup (IF ce.skipped THEN {filed + 1} ELSE {})
      BY <1>5, <1>7
    <3>2. filed + 1 \notin K /\ IsFiniteSet(K)
      <4>1. IsFiniteSet(1..filed)
        BY <1>1, FS_Interval
      <4>. QED
        BY <1>7, <4>1, FS_Subset
    <3>3. Cardinality(K \cup {filed + 1}) = Cardinality(K) + 1
      BY <3>2, FS_AddElement
    <3>4. CASE ce.skipped
      BY <2>1, <2>4, <2>5, <2>8, <3>1, <3>3, <3>4
    <3>5. CASE ~ ce.skipped
      BY <2>1, <2>4, <2>5, <2>8, <3>1, <3>5
    <3>. QED
      BY <3>4, <3>5
  <2>. QED
    BY <1>1, <2>9, <2>10 DEF CountInv
<1>. QED
  BY <1>2, <1>3, <1>4, <1>13, <1>14

LEMMA OthersCount ==
    DiffInv /\ (Ask \/ Render \/ Done \/ UNCHANGED vars)
    => SoundInv' /\ TotalInv' /\ OrderInv' /\ CountInv' /\ CommentInv'
<1> SUFFICES ASSUME DiffInv, Ask \/ Render \/ Done \/ UNCHANGED vars
             PROVE  SoundInv' /\ TotalInv' /\ OrderInv' /\ CountInv' /\ CommentInv'
  OBVIOUS
<1>1. /\ UNCHANGED <<plan, changes, filed, total, sections>>
      /\ phase' = "estimating" <=> phase = "estimating"
  BY DEF Ask, Render, Done, vars
<1>2. SoundInv'
  BY <1>1 DEF DiffInv, SoundInv, Sound, Gain
<1>3. TotalInv'
  <2>1. \A n : PricedPlaces(n)' = PricedPlaces(n)
    BY <1>1 DEF PricedPlaces
  <2>2. \A i : Gain(i)' = Gain(i)
    BY <1>1 DEF Gain
  <2>3. Gains(filed)' = Gains(filed)
    BY <1>1, <2>1, <2>2 DEF Gains
  <2>. QED
    BY <1>1, <2>3 DEF DiffInv, TotalInv
<1>4. OrderInv'
  BY <1>1 DEF DiffInv, OrderInv, Abs
<1>5. CountInv'
  BY <1>1 DEF DiffInv, CountInv
<1>6. CommentInv'
  <2>1. /\ TopMovers' = TopMovers /\ Stats' = Stats /\ PlanNotes' = PlanNotes
        /\ BuildPRNarrativePrompt' = BuildPRNarrativePrompt
    BY <1>1, SameFiling
  <2>2. CASE Ask
    BY <2>1, <2>2 DEF Ask, DiffInv, CommentInv
  <2>3. CASE Render
    <3>1. /\ comment'.net = total /\ comment'.movers = TopMovers
          /\ comment'.stats = Stats /\ comment'.notes = PlanNotes
      BY <2>3 DEF Render, RenderMarkdown
    <3>2. prompt' = prompt /\ phase' = "done"
      BY <2>3 DEF Render
    <3>. QED
      BY <1>1, <2>1, <3>1, <3>2 DEF DiffInv, CommentInv
  <2>4. CASE UNCHANGED vars
    BY <2>1, <2>4 DEF vars, DiffInv, CommentInv
  <2>. QED
    BY <2>2, <2>3, <2>4 DEF Done
<1>. QED
  BY <1>2, <1>3, <1>4, <1>5, <1>6

LEMMA DiffInit == Init => SoundInv /\ TotalInv /\ OrderInv /\ CountInv /\ CommentInv
<1> SUFFICES ASSUME Init PROVE SoundInv /\ TotalInv /\ OrderInv /\ CountInv /\ CommentInv
  OBVIOUS
<1>1. Len(changes) = 0 /\ filed = 0 /\ total = 0 /\ phase = "estimating" /\ prompt = Nothing
  BY DEF Init
<1>2. \A name \in SectionNames : Len(sections[name]) = 0
  BY DEF Init
<1>3. TotalInv
  <2>1. PricedPlaces(filed) = {}
    BY <1>1 DEF PricedPlaces
  <2>2. DOMAIN Gains(filed) = {}
    BY <2>1 DEF Gains
  <2>. QED
    BY <1>1, <2>2, SumOfNone DEF TotalInv
<1>4. CountInv
  <2>1. {k \in 1..filed : changes[k].skipped} = {}
    BY <1>1
  <2>2. Cardinality({k \in 1..filed : changes[k].skipped}) = 0
    BY <2>1, FS_EmptySet
  <2>3. /\ Len(sections["create"]) = 0 /\ Len(sections["delete"]) = 0 /\ Len(sections["update"]) = 0
        /\ Len(sections["replace"]) = 0 /\ Len(sections["skipped"]) = 0
    BY <1>2 DEF SectionNames, CostActions
  <2>4. 0 + 0 + 0 + 0 + 0 = 0
    OBVIOUS
  <2>. QED
    BY <1>1, <2>2, <2>3, <2>4 DEF CountInv
<1>. QED
  BY <1>1, <1>3, <1>4 DEF SoundInv, OrderInv, CommentInv

LEMMA DiffInvariance == Spec => []DiffInv
<1>1. DiffInv /\ [Next]_vars => SoundInv' /\ TotalInv' /\ OrderInv' /\ CountInv' /\ CommentInv'
  BY EstimateCounts, SortCounts, FileCounts, OthersCount DEF Next
<1>. QED
  BY <1>1, DiffInit, ShowInvariance, PTL DEF Spec, DiffInv

\* What a finished comment is made of.
LEMMA WhenDone ==
    ASSUME DiffInv, phase = "done"
    PROVE  /\ filed = Len(changes) /\ Len(changes) = Len(plan) /\ Len(changes) \in Nat
           /\ DOMAIN plan = 1..Len(plan) /\ DOMAIN changes = 1..Len(changes)
           /\ Shown = {changes[k] : k \in 1..Len(changes)}
BY PlanIsSequence, ChangesAreSequence, ShownIsAll DEF DiffInv, ShowInv, ChangesInv, StagesInv, OrderInv

\* The net change of the comment is what the priced resources are worth after
\* the plan less before it, each row is so too, and is the sum of its
\* components (change.go: ChangeEstimate, mergeDeltaBreakdown).
THEOREM NetChangeHolds == Spec => []NetChangeIsWorth
<1>1. DiffInv => NetChangeIsWorth
  <2> SUFFICES ASSUME DiffInv, phase = "done" PROVE NetChangeIsWorth
    BY DEF NetChangeIsWorth
  <2> DEFINE priced == {ce \in Shown : ~ ce.skipped}
             gains  == [i \in {ce.address : ce \in priced} |-> Gain(i)]
  <2>1. /\ filed = Len(changes) /\ Shown = {changes[k] : k \in 1..Len(changes)}
    BY WhenDone
  <2>2. gains = Gains(filed)
    <3>1. {ce.address : ce \in priced} = {changes[k].address : k \in PricedPlaces(filed)}
      BY <2>1 DEF PricedPlaces
    <3>. QED
      BY <3>1 DEF Gains
  <2>3. comment.net = SumFunction(gains)
    BY <2>2 DEF DiffInv, CommentInv, TotalInv
  <2>4. \A ce \in Shown : Sound(ce)
    BY <2>1 DEF DiffInv, SoundInv
  <2>5. \A ce \in Shown : ce.delta = IF ce.skipped THEN 0 ELSE Gain(ce.address)
    BY <2>4 DEF Sound
  <2>6. \A ce \in priced : /\ ce.delta = Sum(ce.breakdown)
                           /\ \A j, k \in DOMAIN ce.breakdown :
                                ce.breakdown[j].component = ce.breakdown[k].component => j = k
    BY <2>4 DEF Sound, Distinct
  <2>. QED
    BY <2>3, <2>5, <2>6 DEF NetChangeIsWorth, Gain
<1>. QED
  BY <1>1, DiffInvariance, PTL

\* The beginning of a sequence.
LEMMA TakeHolds ==
    ASSUME NEW S, NEW s \in Seq(S), NEW n \in Nat
    PROVE  /\ Take(s, n) \in Seq(S) /\ Len(Take(s, n)) = IF n < Len(s) THEN n ELSE Len(s)
           /\ \A k \in 1..Len(Take(s, n)) : k \in 1..Len(s) /\ Take(s, n)[k] = s[k]
<1>1. PICK m : m = (IF n < Len(s) THEN n ELSE Len(s))
  OBVIOUS
<1>2. m \in 0..Len(s) /\ Take(s, n) = SubSeq(s, 1, m)
  BY <1>1 DEF Take
<1>3. SubSeq(s, 1, m) \in Seq(S) /\ Len(SubSeq(s, 1, m)) = m
  BY <1>2
<1>4. \A k \in 1..m : SubSeq(s, 1, m)[k] = s[k]
  BY <1>2
<1>. QED
  BY <1>1, <1>2, <1>3, <1>4

\* The top movers are the first of the priced changes.
LEMMA MoversAre ==
    ASSUME DiffInv
    PROVE  LET P == {k \in DOMAIN changes : ~ changes[k].skipped}
               n == IF TopMoversCount < Cardinality(P) THEN TopMoversCount ELSE Cardinality(P)
           IN  /\ P \subseteq 1..Len(changes) /\ Cardinality(P) \in Nat
               /\ DOMAIN TopMovers = 1..n /\ Len(TopMovers) = n /\ (TopMovers = << >> <=> n = 0)
               /\ \A k \in 1..n : k \in 1..Cardinality(P) /\ TopMovers[k] = changes[Ranked(P, k)]
               /\ \A k \in 1..Cardinality(P) : Ranked(P, k) \in P
               /\ \A j, k \in 1..Cardinality(P) : j < k => Ranked(P, j) < Ranked(P, k)
               /\ \A i \in P : \E k \in 1..Cardinality(P) : Ranked(P, k) = i
<1> DEFINE P == {k \in DOMAIN changes : ~ changes[k].skipped}
           n == IF TopMoversCount < Cardinality(P) THEN TopMoversCount ELSE Cardinality(P)
<1>1. PICK S : changes \in Seq(S)
  BY DEF DiffInv, ShowInv, FilingInv, AllRated
<1>2. Len(changes) \in Nat /\ P \subseteq 1..Len(changes) /\ P \in SUBSET DOMAIN changes
  BY <1>1
<1>3. /\ Cardinality(P) \in Nat
      /\ \A k \in 1..Cardinality(P) : Ranked(P, k) \in P
      /\ \A j, k \in 1..Cardinality(P) : j < k => Ranked(P, j) < Ranked(P, k)
      /\ \A i \in P : \E k \in 1..Cardinality(P) : Ranked(P, k) = i
  <2>. HIDE DEF P
  <2>. QED
    BY <1>2, RanksHold
<1>4. /\ At(changes, P) \in Seq(S) /\ Len(At(changes, P)) = Cardinality(P)
      /\ \A k \in 1..Cardinality(P) : At(changes, P)[k] = changes[Ranked(P, k)]
  <2>. HIDE DEF P
  <2>. QED
    BY <1>1, <1>2, AtHolds
<1>5. TopMovers = Take(At(changes, P), TopMoversCount)
  BY DEF TopMovers
<1>. HIDE DEF P
<1>6. PICK a \in Seq(S) : a = At(changes, P)
  BY <1>4
<1>7. /\ Take(a, TopMoversCount) \in Seq(S)
      /\ Len(Take(a, TopMoversCount)) = n
      /\ \A k \in 1..n : k \in 1..Len(a) /\ Take(a, TopMoversCount)[k] = a[k]
  BY <1>4, <1>6, MoversAreCounted, TakeHolds
<1>8. DOMAIN TopMovers = 1..n /\ (TopMovers = << >> <=> n = 0)
  BY <1>5, <1>6, <1>7
<1>. QED
  BY <1>2, <1>3, <1>4, <1>5, <1>6, <1>7, <1>8 DEF P

LEMMA MoversDoLead == ASSUME DiffInv, phase = "done" PROVE MoversLead
<1> DEFINE P == {k \in DOMAIN changes : ~ changes[k].skipped}
           n == IF TopMoversCount < Cardinality(P) THEN TopMoversCount ELSE Cardinality(P)
           movers == TopMovers
           priced == {ce \in Shown : ~ ce.skipped}
<1>1. comment.movers = movers /\ DOMAIN changes = 1..Len(changes) /\ Len(changes) \in Nat
  BY WhenDone DEF DiffInv, CommentInv
<1>2. /\ P \subseteq 1..Len(changes) /\ Cardinality(P) \in Nat
      /\ DOMAIN movers = 1..n /\ Len(movers) = n
      /\ \A k \in 1..n : k \in 1..Cardinality(P) /\ movers[k] = changes[Ranked(P, k)]
      /\ \A k \in 1..Cardinality(P) : Ranked(P, k) \in P
      /\ \A j, k \in 1..Cardinality(P) : j < k => Ranked(P, j) < Ranked(P, k)
      /\ \A i \in P : \E k \in 1..Cardinality(P) : Ranked(P, k) = i
  BY MoversAre
<1>3. priced = {changes[k] : k \in P}
  BY <1>1, WhenDone
<1>4. /\ \A j, k \in P : j < k => Abs(changes[j].delta) >= Abs(changes[k].delta) /\ changes[j] # changes[k]
      /\ \A j \in P : Abs(changes[j].delta) \in Int /\ j \in Nat
  <2>1. \A j \in P : j \in 1..Len(changes) /\ changes[j].delta \in Int
    BY <1>2 DEF DiffInv, SoundInv, Sound
  <2>2. \A j, k \in P : j < k => Abs(changes[j].delta) >= Abs(changes[k].delta)
    BY <2>1 DEF DiffInv, OrderInv
  <2>3. \A j, k \in P : changes[j].address = changes[k].address => j = k
    BY <2>1 DEF DiffInv, ShowInv, ChangesInv
  <2>4. \A j, k \in P : j < k => changes[j] # changes[k]
    BY <1>1, <2>1, <2>3
  <2>. QED
    BY <1>1, <2>1, <2>2, <2>4 DEF Abs
<1>. HIDE DEF P, movers, priced
<1>5. n \in Nat
  BY <1>2, MoversAreCounted
<1>. HIDE DEF n
<1>6. Range(movers) \subseteq priced
  BY <1>2, <1>3 DEF Range
<1>7. \A j, k \in DOMAIN movers :
        j < k => movers[j] # movers[k] /\ Abs(movers[j].delta) >= Abs(movers[k].delta)
  <2> SUFFICES ASSUME NEW j \in 1..n, NEW k \in 1..n, j < k
               PROVE  movers[j] # movers[k] /\ Abs(movers[j].delta) >= Abs(movers[k].delta)
    BY <1>2
  <2>1. j \in 1..Cardinality(P) /\ k \in 1..Cardinality(P)
    BY <1>2
  <2>2. Ranked(P, j) \in P /\ Ranked(P, k) \in P /\ Ranked(P, j) < Ranked(P, k)
    BY <1>2, <2>1
  <2>3. movers[j] = changes[Ranked(P, j)] /\ movers[k] = changes[Ranked(P, k)]
    BY <1>2
  <2>. QED
    BY <1>4, <2>2, <2>3
<1>8. ASSUME NEW ce \in priced \ Range(movers)
      PROVE  Len(movers) = TopMoversCount /\ \A k \in DOMAIN movers : Abs(movers[k].delta) >= Abs(ce.delta)
  <2>1. PICK i \in P : ce = changes[i]
    BY <1>3
  <2>2. PICK r \in 1..Cardinality(P) : Ranked(P, r) = i
    BY <1>2
  <2>3. r \notin 1..n
    <3>1. ASSUME r \in 1..n PROVE FALSE
      <4>1. movers[r] = ce
        BY <1>2, <2>1, <2>2, <3>1
      <4>2. movers[r] \in Range(movers)
        BY <1>2, <3>1 DEF Range
      <4>. QED
        BY <4>1, <4>2
    <3>. QED
      BY <3>1
  <2>4. n < r
    BY <1>2, <1>5, <2>3
  <2>5. Len(movers) = TopMoversCount
    BY <1>2, <2>4, MoversAreCounted DEF n
  <2>6. ASSUME NEW k \in DOMAIN movers PROVE Abs(movers[k].delta) >= Abs(ce.delta)
    <3>1. k \in 1..Cardinality(P) /\ k < r /\ movers[k] = changes[Ranked(P, k)]
      BY <1>2, <1>5, <2>4
    <3>2. Ranked(P, k) < Ranked(P, r) /\ Ranked(P, k) \in P
      BY <1>2, <3>1
    <3>. QED
      BY <1>4, <2>1, <2>2, <3>1, <3>2
  <2>. QED
    BY <2>5, <2>6
<1>. QED
  BY <1>1, <1>6, <1>7, <1>8 DEF MoversLead, priced

LEMMA CountsAddUp ==
    ASSUME DiffInv, phase = "done"
    PROVE  LET s == comment.stats
           IN  /\ s.total = Len(plan)
               /\ s.created + s.deleted + s.updated + s.replaced + s.noOp + s.skipped = s.total
               /\ s.noOp + s.skipped = comment.notes.skipped
               /\ s.noOp = Cardinality({i \in DOMAIN plan : Action(plan[i]) \in {"no-op", "read"}})
<1> DEFINE idle == {k \in DOMAIN changes : changes[k].action \in {"no-op", "read"}}
           left == {k \in DOMAIN changes : changes[k].skipped}
           lost == left \ idle
           idleOfPlan == {i \in DOMAIN plan : Action(plan[i]) \in {"no-op", "read"}}
<1>1. /\ filed = Len(changes) /\ Len(changes) = Len(plan) /\ Len(changes) \in Nat
      /\ DOMAIN changes = 1..Len(changes) /\ DOMAIN plan = 1..Len(plan)
  BY WhenDone
<1>2. IsFiniteSet(idle) /\ IsFiniteSet(lost) /\ IsFiniteSet(left)
  <2>1. IsFiniteSet(1..Len(changes))
    BY <1>1, FS_Interval
  <2>. QED
    BY <1>1, <2>1, FS_Subset
<1>3. \A k \in DOMAIN changes : /\ changes[k].address \in DOMAIN plan
                                /\ changes[k].action = Action(plan[changes[k].address])
                                /\ changes[k].action \in {"no-op", "read"} => changes[k].skipped
  BY <1>1 DEF DiffInv, ShowInv, ChangesInv, OfPlan, SoundInv, Sound
<1>4. Cardinality(left) = Cardinality(idle) + Cardinality(lost)
  <2>1. idle \cup lost = left /\ idle \cap lost = {}
    BY <1>3
  <2>2. Cardinality(idle \cup lost) = Cardinality(idle) + Cardinality(lost) - Cardinality(idle \cap lost)
    BY <1>2, FS_Union
  <2>3. Cardinality({}) = 0 /\ Cardinality(idle) \in Nat /\ Cardinality(lost) \in Nat
    BY <1>2, FS_EmptySet, FS_CardinalityType
  <2>. HIDE DEF idle, lost, left
  <2>4. PICK x, y : x = Cardinality(idle) /\ y = Cardinality(lost)
    OBVIOUS
  <2>5. Cardinality(left) = x + y - 0
    BY <2>1, <2>2, <2>3, <2>4
  <2>. QED
    BY <2>3, <2>4, <2>5
<1>5. Cardinality(idle) = Cardinality(idleOfPlan)
  <2> DEFINE a == [k \in idle |-> changes[k].address]
  <2>1. a \in [idle -> idleOfPlan]
    BY <1>3
  <2>2. \A j, k \in idle : a[j] = a[k] => j = k
    BY <1>1 DEF DiffInv, ShowInv, ChangesInv
  <2>3. \A i \in idleOfPlan : \E k \in idle : a[k] = i
    <3> SUFFICES ASSUME NEW i \in idleOfPlan PROVE \E k \in idle : a[k] = i
      OBVIOUS
    <3>1. PICK k \in 1..Len(changes) : changes[k].address = i
      BY <1>1 DEF DiffInv, ShowInv, ChangesInv
    <3>2. k \in idle
      BY <1>1, <1>3, <3>1
    <3>. QED
      BY <3>1, <3>2
  <2>. HIDE DEF a, idle, idleOfPlan
  <2>4. a \in Injection(idle, idleOfPlan) /\ a \in Surjection(idle, idleOfPlan)
    BY <2>1, <2>2, <2>3 DEF Injection, Surjection, IsInjective
  <2>. QED
    BY <1>2, <2>4, FS_Surjection
<1>6. /\ Len(sections["create"]) + Len(sections["delete"]) + Len(sections["update"])
         + Len(sections["replace"]) + Len(sections["skipped"]) = Len(changes)
      /\ Len(sections["skipped"]) = Cardinality(left)
  BY <1>1 DEF DiffInv, CountInv
<1>7. /\ comment.stats.total = Len(changes)
      /\ comment.stats.created = Len(sections["create"]) /\ comment.stats.deleted = Len(sections["delete"])
      /\ comment.stats.updated = Len(sections["update"]) /\ comment.stats.replaced = Len(sections["replace"])
      /\ comment.stats.noOp = Cardinality(idle) /\ comment.stats.skipped = Cardinality(lost)
      /\ comment.notes.skipped = Len(sections["skipped"])
  <2>1. comment.stats = Stats /\ comment.notes = PlanNotes
    BY DEF DiffInv, CommentInv
  <2>2. /\ Stats.total = Len(changes)
        /\ Stats.created = Len(sections["create"]) /\ Stats.deleted = Len(sections["delete"])
        /\ Stats.updated = Len(sections["update"]) /\ Stats.replaced = Len(sections["replace"])
    BY DEF Stats
  <2>3. Stats.noOp = Cardinality(idle)
    BY DEF Stats
  <2>4. Stats.skipped = Cardinality(lost)
    BY DEF Stats
  <2>5. PlanNotes.skipped = Len(sections["skipped"])
    BY DEF PlanNotes
  <2>. HIDE DEF idle, lost
  <2>. QED
    BY <2>1, <2>2, <2>3, <2>4, <2>5
<1>8. PICK c, d, u, r, i, l : /\ c = Len(sections["create"]) /\ d = Len(sections["delete"])
                              /\ u = Len(sections["update"]) /\ r = Len(sections["replace"])
                              /\ i = Cardinality(idle) /\ l = Cardinality(lost)
  OBVIOUS
<1>9. c \in Nat /\ d \in Nat /\ u \in Nat /\ r \in Nat /\ i \in Nat /\ l \in Nat
  <2>1. \A name \in {"create", "delete", "update", "replace"} : Len(sections[name]) \in Nat
    BY DEF DiffInv, ShowInv, SectionsInv, SectionNames, CostActions
  <2>. QED
    BY <1>2, <1>8, <2>1, FS_CardinalityType
<1>. HIDE DEF idle, lost, left, idleOfPlan
<1>10. c + d + u + r + i + l = Len(changes) /\ i + l = Len(sections["skipped"])
  <2>1. i + l = Len(sections["skipped"])
    BY <1>4, <1>6, <1>8
  <2>2. PICK k : k = Len(sections["skipped"])
    OBVIOUS
  <2>3. c + d + u + r + k = Len(changes)
    <3>1. /\ Len(sections["create"]) + Len(sections["delete"]) + Len(sections["update"])
             + Len(sections["replace"]) + Len(sections["skipped"]) = c + d + u + r + k
      BY <1>8, <2>2
    <3>. QED
      BY <1>6, <3>1
  <2>4. k = i + l
    BY <2>1, <2>2
  <2>5. c + d + u + r + (i + l) = Len(changes)
    BY <2>3, <2>4
  <2>6. c + d + u + r + (i + l) = c + d + u + r + i + l
    BY <1>9
  <2>. QED
    BY <2>1, <2>5, <2>6
<1>. QED
  BY <1>1, <1>5, <1>7, <1>8, <1>10 DEF idleOfPlan

\* The comment accounts for every change of the plan once, its counts are a
\* partition of the plan, and its movers lead (engine.go: categorize,
\* computeStats, topMovers).
THEOREM PlanIsAccountedFor == Spec => []PlanAccountedFor
<1>1. DiffInv => PlanAccountedFor
  <2> SUFFICES ASSUME DiffInv, phase = "done" PROVE PlanAccountedFor
    BY DEF PlanAccountedFor
  <2>1. FiledOnce
    BY AllFiledOnce DEF DiffInv
  <2>. QED
    BY <2>1, MoversDoLead, CountsAddUp DEF PlanAccountedFor
<1>. QED
  BY <1>1, DiffInvariance, PTL

\* No caveat is lost or given to another resource, in the comment or in the
\* prompt (markdown.go: deduplicateNotes; narrative.go: caveatGroup).
THEOREM CaveatsHold == Spec => []CaveatsKeepTheirResource
<1>1. DiffInv => CaveatsKeepTheirResource
  <2> SUFFICES ASSUME DiffInv, phase = "done" PROVE CaveatsKeepTheirResource
    BY DEF CaveatsKeepTheirResource
  <2>1. CaveatsOfShown
    BY AllCaveats DEF DiffInv
  <2> SUFFICES ASSUME prompt # Nothing
               PROVE  /\ \A ce \in Shown : \A n \in ce.notes :
                            IF ce.address = prompt.primary THEN n \in prompt.primaryNotes
                            ELSE <<ce.address, n>> \in prompt.otherNotes
                      /\ \A n \in prompt.primaryNotes : prompt.primary \in comment.caveats[n]
                      /\ \A pair \in prompt.otherNotes :
                            pair[1] # prompt.primary /\ pair[1] \in comment.caveats[pair[2]]
    BY <2>1 DEF CaveatsKeepTheirResource
  <2> DEFINE primary == IF TopMovers = << >> THEN Nothing ELSE TopMovers[1].address
  <2>2. /\ prompt.primary = primary
        /\ prompt.primaryNotes = IF TopMovers = << >> THEN {} ELSE TopMovers[1].notes
        /\ prompt.otherNotes = UNION {{ce.address} \X ce.notes : ce \in {c \in Range(changes) : c.address # primary}}
    BY DEF DiffInv, CommentInv, BuildPRNarrativePrompt
  <2>3. Shown = {changes[k] : k \in 1..Len(changes)} /\ Shown = Range(changes)
    BY WhenDone DEF Range
  <2>4. \A ce \in Shown : \A n \in ce.notes : ce.address \in comment.caveats[n]
    BY <2>1 DEF CaveatsOfShown
  <2>5. TopMovers # << >> => TopMovers[1] \in Shown
    <3> DEFINE P == {k \in DOMAIN changes : ~ changes[k].skipped}
               n == IF TopMoversCount < Cardinality(P) THEN TopMoversCount ELSE Cardinality(P)
    <3>1. /\ P \subseteq 1..Len(changes) /\ Cardinality(P) \in Nat /\ (TopMovers = << >> <=> n = 0)
          /\ \A k \in 1..n : k \in 1..Cardinality(P) /\ TopMovers[k] = changes[Ranked(P, k)]
          /\ \A k \in 1..Cardinality(P) : Ranked(P, k) \in P
      BY MoversAre
    <3>2. n \in Nat
      BY <3>1, MoversAreCounted
    <3>. HIDE DEF P, n
    <3>3. ASSUME TopMovers # << >> PROVE TopMovers[1] \in Shown
      <4>1. 1 \in 1..n
        BY <3>1, <3>2, <3>3
      <4>2. TopMovers[1] = changes[Ranked(P, 1)] /\ Ranked(P, 1) \in 1..Len(changes)
        BY <3>1, <4>1
      <4>. QED
        BY <2>3, <4>2
    <3>. QED
      BY <3>3
  <2>6. \A ce \in Shown : ce.address \in Nat
    <3>1. \A k \in 1..Len(changes) : changes[k].address \in 1..Len(plan)
      BY WhenDone DEF DiffInv, ShowInv, ChangesInv, OfPlan
    <3>2. \A i \in 1..Len(plan) : i \in Nat
      OBVIOUS
    <3>. QED
      BY <2>3, <3>1, <3>2
  <2>7. \A ce, other \in Shown : ce.address = other.address => ce = other
    BY <2>3 DEF DiffInv, ShowInv, ChangesInv
  <2>8. ASSUME NEW ce \in Shown, NEW n \in ce.notes
        PROVE  IF ce.address = prompt.primary THEN n \in prompt.primaryNotes
               ELSE <<ce.address, n>> \in prompt.otherNotes
    <3>1. CASE ce.address = primary
      <4>1. TopMovers # << >>
        BY <2>6, <3>1, NothingIsNoAddress
      <4>2. ce = TopMovers[1]
        BY <2>5, <2>7, <3>1, <4>1
      <4>. QED
        BY <2>2, <3>1, <4>1, <4>2
    <3>2. CASE ce.address # primary
      <4>. HIDE DEF primary
      <4>1. <<ce.address, n>> \in {ce.address} \X ce.notes
        OBVIOUS
      <4>. QED
        BY <2>2, <2>3, <3>2, <4>1
    <3>. QED
      BY <3>1, <3>2
  <2>9. ASSUME NEW n \in prompt.primaryNotes PROVE prompt.primary \in comment.caveats[n]
    BY <2>2, <2>4, <2>5
  <2>10. ASSUME NEW pair \in prompt.otherNotes
         PROVE  pair[1] # prompt.primary /\ pair[1] \in comment.caveats[pair[2]]
    <3>. HIDE DEF primary
    <3>1. PICK ce \in Shown : ce.address # primary /\ pair \in {ce.address} \X ce.notes
      BY <2>2, <2>3
    <3>2. pair[1] = ce.address /\ pair[2] \in ce.notes
      BY <3>1
    <3>. QED
      BY <2>2, <2>4, <3>1, <3>2
  <2>. QED
    BY <2>8, <2>9, <2>10
<1>. QED
  BY <1>1, DiffInvariance, PTL
=============================================================================
