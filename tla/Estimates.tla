------------------------------ MODULE Estimates ------------------------------
(***************************************************************************)
(* What one state of a Terraform resource costs a month: the estimators of *)
(* internal/pricing.  An estimate is a sequence of lines, each with the    *)
(* key of its price and the amount to pay for.  AWS keys are lookups of    *)
(* the Pricing API, which may fail; GCP and Azure keys are entries of the  *)
(* embedded tables.  A note is a name for its text, with the cloud it      *)
(* speaks of; confidences are the ranks of the code, the weakest the       *)
(* highest.                                                                *)
(***************************************************************************)
EXTENDS Extractors, Sequences

CONSTANTS
    Rate,           \* [keys -> Nat]: the price of one unit of a key
    Multiplier,     \* [regions -> Nat]: the static tables' region_multiplier
    PlanRegion      \* --region

ASSUME PricesAreNumbers == Rate \in [DOMAIN Rate -> Nat] /\ Multiplier \in [DOMAIN Multiplier -> Nat]

High   == 0
Medium == 1
Low    == 2
Confidences == {High, Medium, Low}

HoursPerMonth   == 730
SecondsPerMonth == HoursPerMonth * 3600

Line(component, key, amount) == [component |-> component, key |-> key, amount |-> amount]
OnlyIf(condition, line)      == IF condition THEN <<line>> ELSE << >>
NoteIf(condition, note)      == IF condition THEN {note} ELSE {}

CloudOf(type) ==
    IF type \in AwsTypes THEN "AWS"
    ELSE IF type \in {"azurerm_linux_virtual_machine", "azurerm_managed_disk"} THEN "Azure" ELSE "GCP"

-----------------------------------------------------------------------------
\* The AWS estimators: fault is an error before any lookup.

VolumeTypes == {"gp2", "gp3", "io1", "io2", "st1", "sc1", "standard"}

\* An unknown tenancy falls back to the shared one.
Tenancy(t) == IF t \in {"dedicated", "host"} THEN t ELSE "shared"

EstimateEC2(a) ==
    [fault      |-> a.RootBlockSize > 0 /\ a.RootBlockType \notin VolumeTypes,
     unpriced   |-> FALSE,
     lines      |-> <<Line("Compute", <<"EC2", a.InstanceType, Tenancy(a.Tenancy)>>, HoursPerMonth)>>
                    \o OnlyIf(a.RootBlockSize > 0, Line("RootEBS", <<"EBS", a.RootBlockType>>, a.RootBlockSize)),
     confidence |-> Low,
     notes      |-> {"Linux", "On-Demand"} \cup NoteIf(a.RootBlockSize = 0, "compute only")]

EstimateEBS(a) ==
    [fault      |-> a.Type \notin VolumeTypes \/ a.Size = 0,
     unpriced   |-> FALSE,
     lines      |-> <<Line("Storage", <<"EBS", a.Type>>, a.Size)>>,
     confidence |-> IF a.Type \in {"io1", "io2"} \/ (a.Type = "gp3" /\ (a.Iops > 3000 \/ a.Throughput > 125))
                    THEN Low ELSE Medium,
     notes      |-> {"IOPS of gp3"} \cup NoteIf(a.Type \in {"io1", "io2"}, "IOPS of io1/io2")]

EstimateRDS(a) ==
    LET deployment == IF a.MultiAZ THEN "Multi-AZ" ELSE "Single-AZ"
    IN  [fault      |-> \/ a.Engine \notin {"postgres", "mysql", "mariadb"}
                        \/ a.AllocatedStorage = 0
                        \/ a.StorageType \notin {"gp2", "gp3", "io1", "io2", "standard"},
         unpriced   |-> FALSE,
         lines      |-> <<Line("Compute", <<"RDS", a.InstanceClass, a.Engine, deployment>>, HoursPerMonth),
                          Line("Storage", <<"RDS storage", a.StorageType, a.Engine, deployment>>, a.AllocatedStorage)>>,
         confidence |-> Low,
         notes      |-> {"no license"} \cup NoteIf(a.MultiAZ, "Multi-AZ")
                        \cup NoteIf(a.StorageType \in {"io1", "io2"}, "IOPS of RDS")]

\* No concurrency, no lookup.  The price is by the second and by the MB.
EstimateLambda(a) ==
    LET concurrency == a.ProvisionedConcurrency
    IN  [fault      |-> concurrency > 0 /\ a.Architecture \notin {"x86_64", "arm64"},
         unpriced   |-> FALSE,
         lines      |-> OnlyIf(concurrency > 0,
                               Line("ProvisionedConcurrency", <<"Lambda", a.Architecture>>,
                                    concurrency * a.MemorySize * SecondsPerMonth)),
         confidence |-> Low,
         notes      |-> {IF concurrency > 0 THEN "standing cost only" ELSE "standing cost $0"}]

\* The price is the same whatever the gateway.
EstimateNATGateway(a) ==
    [fault      |-> FALSE,
     unpriced   |-> FALSE,
     lines      |-> <<Line("Gateway", <<"NAT">>, HoursPerMonth)>>,
     confidence |-> Medium,
     notes      |-> {"hourly charge only"}]

EstimateRDSClusterInstance(a) ==
    LET engine == IF a.Engine = "aurora" THEN "aurora-mysql" ELSE a.Engine
    IN  [fault      |-> engine \notin {"aurora-mysql", "aurora-postgresql"},
         unpriced   |-> FALSE,
         lines      |-> <<Line("Compute", <<"Aurora", a.InstanceClass, engine>>, HoursPerMonth)>>,
         confidence |-> Low,
         notes      |-> {"no cluster storage", "reader replicas", "standard Aurora"}]

-----------------------------------------------------------------------------
\* The estimators of the static tables: unpriced is one of their sentinel errors.

Priceable(key) == key \in DOMAIN Rate

InRegion(region) == IF region \in DOMAIN Multiplier THEN Multiplier[region] ELSE 1

\* A machine with its boot or OS disk.
EstimateMachine(machine, region, spot, disk, component, size) ==
    LET known == region \in DOMAIN Multiplier
    IN  [fault      |-> Priceable(machine) /\ size > 0 /\ ~ Priceable(disk),
         unpriced   |-> ~ Priceable(machine),
         lines      |-> <<Line("Compute", machine, InRegion(region) * HoursPerMonth)>>
                        \o OnlyIf(size > 0, Line(component, disk, size)),
         confidence |-> IF known /\ ~ spot THEN Medium ELSE Low,
         notes      |-> {"static table"} \cup NoteIf(~ known, "region not in table")
                        \cup NoteIf(spot, "on-demand rate") \cup NoteIf(size = 0, "compute only")]

EstimateGCPComputeInstance(a) ==
    EstimateMachine(<<"GCE", a.MachineType>>, a.Region, a.Preemptible,
                    <<"PD", a.BootDiskType>>, "BootDisk", a.BootDiskSizeGB)

EstimateAzureVirtualMachine(a) ==
    EstimateMachine(<<"VM", a.Size>>, a.Location, a.Spot,
                    <<"Azure disk", a.OSDiskType>>, "OSDisk", a.OSDiskSizeGB)

EstimateDisk(disk, size) ==
    [fault      |-> FALSE,
     unpriced   |-> size = 0 \/ ~ Priceable(disk),
     lines      |-> <<Line("Disk", disk, size)>>,
     confidence |-> Medium,
     notes      |-> {"static table"}]

EstimateGCPComputeDisk(a)   == EstimateDisk(<<"PD", a.Type>>, a.SizeGB)
EstimateAzureManagedDisk(a) == EstimateDisk(<<"Azure disk", a.StorageAccountType>>, a.SizeGB)

EstimateGCPSQLInstance(a) ==
    LET tier  == <<"Cloud SQL", a.Tier>>
        disk  == <<"Cloud SQL storage", a.DiskType>>
        size  == IF a.DiskSizeGB > 0 THEN a.DiskSizeGB ELSE 10
        twice == IF a.Regional THEN 2 ELSE 1
    IN  [fault      |-> FALSE,
         unpriced   |-> a.DatabaseVersion = "SQLSERVER" \/ ~ Priceable(tier) \/ ~ Priceable(disk),
         lines      |-> <<Line("Compute", tier, twice * HoursPerMonth), Line("Storage", disk, twice * size)>>,
         confidence |-> Medium,
         notes      |-> {"static table at US rates"} \cup NoteIf(a.DiskSizeGB = 0, "default disk size")
                        \cup NoteIf(a.Regional, "REGIONAL doubles")]

EstimateGCPRouterNAT(a) ==
    [fault      |-> FALSE,
     unpriced   |-> FALSE,
     lines      |-> OnlyIf(a.ManualIPCount > 0,
                           Line("ExternalIPs", <<"Cloud NAT IP">>, a.ManualIPCount * HoursPerMonth)),
     confidence |-> Low,
     notes      |-> {"per-VM uptime", "static table"} \cup NoteIf(a.ManualIPCount = 0, "AUTO_ONLY")]

EstimateGCPCloudFunction(a) ==
    [fault |-> FALSE, unpriced |-> FALSE, lines |-> << >>, confidence |-> Low, notes |-> {"standing cost $0"}]

-----------------------------------------------------------------------------
Estimator(type, s) ==
    CASE type = "aws_instance"                  -> EstimateEC2(ExtractEC2(s))
      [] type = "aws_db_instance"               -> EstimateRDS(ExtractRDS(s))
      [] type = "aws_ebs_volume"                -> EstimateEBS(ExtractEBS(s))
      [] type = "aws_lambda_function"           -> EstimateLambda(ExtractLambda(s))
      [] type = "aws_nat_gateway"               -> EstimateNATGateway(ExtractNATGateway(s))
      [] type = "aws_rds_cluster_instance"      -> EstimateRDSClusterInstance(ExtractRDSClusterInstance(s))
      [] type = "google_compute_instance"       -> EstimateGCPComputeInstance(ExtractComputeInstance(s, PlanRegion))
      [] type = "google_compute_disk"           -> EstimateGCPComputeDisk(ExtractComputeDisk(s))
      [] type = "google_sql_database_instance"  -> EstimateGCPSQLInstance(ExtractSQLInstance(s))
      [] type = "google_compute_router_nat"     -> EstimateGCPRouterNAT(ExtractRouterNAT(s))
      [] type = "azurerm_linux_virtual_machine" -> EstimateAzureVirtualMachine(ExtractVirtualMachine(s, PlanRegion))
      [] type = "azurerm_managed_disk"          -> EstimateAzureManagedDisk(ExtractManagedDisk(s))
      [] OTHER                                  -> EstimateGCPCloudFunction(ExtractCloudFunction(s))

\* The attributes of the state can be read and its type has an estimator.
Readable(type, s) == s # NoAttributes /\ type \in SupportedTypes /\ ~ Unreadable(type, s)

\* The components of a state that ask the Pricing API.
LookedUp(type, s) ==
    IF Readable(type, s) /\ type \in AwsTypes
    THEN LET lines == Estimator(type, s).lines IN {lines[i].component : i \in DOMAIN lines}
    ELSE {}

\* What the reasons of a skipped change are told apart by: the substrings that
\* the notes of the plan count them by.
Priced(lines, confidence, notes) ==
    [is |-> "priced", lines |-> lines, confidence |-> confidence, notes |-> notes, why |-> {}]
Unpriced(why) == [is |-> "skipped", lines |-> << >>, confidence |-> High, notes |-> {}, why |-> why]
Fault(why)    == [is |-> "failed",  lines |-> << >>, confidence |-> High, notes |-> {}, why |-> why]

\* The text of one error has the word by which the notes count unsupported types.
Wording(type, s) ==
    NoteIf(type = "aws_rds_cluster_instance" /\ s.engine \notin {"postgres", "mysql", "mariadb"}, "unsupported")

\* down: the components of this state whose lookup fails, or answers no product,
\* several, or one of another unit.
EstimateState(type, s, down) ==
    LET e == Estimator(type, s)
        lost(line) == line.component \in down \/ ~ Priceable(line.key)
        paid == [i \in DOMAIN e.lines |->
                    [component |-> e.lines[i].component, usd |-> Rate[e.lines[i].key] * e.lines[i].amount]]
    IN  IF s = NoAttributes                THEN Unpriced({"no attributes"})
        ELSE IF type \notin SupportedTypes THEN Unpriced({"unsupported"})
        ELSE IF Unreadable(type, s)        THEN Fault({"estimation failed"})
        ELSE IF e.unpriced                 THEN Unpriced({"unsupported"})
        ELSE IF e.fault                    THEN Fault({"estimation failed"} \cup Wording(type, s))
        ELSE IF \E i \in DOMAIN e.lines : lost(e.lines[i]) THEN Fault({"estimation failed"})
        ELSE Priced(paid, e.confidence, {CloudOf(type)} \X e.notes)
=============================================================================
