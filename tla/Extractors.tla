----------------------------- MODULE Extractors -----------------------------
(***************************************************************************)
(* The attributes of a Terraform resource that are priced: the extractors  *)
(* of internal/iac/{aws,gcp,azure}.  A state is the function from the      *)
(* attributes that are present to their values, those of a nested block    *)
(* under names of their own; an empty string counts as absent, which ends  *)
(* the same way: in a default, or in an error of the extractor or of the   *)
(* estimator.  Attributes that nothing prices are left out.                *)
(***************************************************************************)
EXTENDS Integers

CONSTANT Malformed      \* a value of a type the extractor refuses

NoAttributes == << >>

Required == [
    aws_instance                   |-> {"instance_type"},
    aws_db_instance                |-> {"engine", "instance_class", "allocated_storage"},
    aws_ebs_volume                 |-> {"type", "size"},
    aws_lambda_function            |-> {"function_name"},
    aws_nat_gateway                |-> {"subnet_id"},
    aws_rds_cluster_instance       |-> {"cluster_identifier", "instance_class", "engine"},
    google_compute_instance        |-> {"machine_type"},
    google_compute_disk            |-> {},
    google_sql_database_instance   |-> {},
    google_compute_router_nat      |-> {"name"},
    google_cloudfunctions_function |-> {"name"},
    google_cloudfunctions2_function |-> {"name"},
    azurerm_linux_virtual_machine  |-> {"size"},
    azurerm_managed_disk           |-> {"storage_account_type"}]
SupportedTypes == DOMAIN Required

AwsTypes == {"aws_instance", "aws_db_instance", "aws_ebs_volume", "aws_lambda_function",
             "aws_nat_gateway", "aws_rds_cluster_instance"}

\* The attributes read by getInt.
Numbers == [
    aws_instance                   |-> {"root_volume_size"},
    aws_db_instance                |-> {"allocated_storage"},
    aws_ebs_volume                 |-> {"size", "iops", "throughput"},
    aws_lambda_function            |-> {"memory_size", "provisioned_concurrent_executions"},
    google_compute_instance        |-> {"boot_disk_size"},
    google_compute_disk            |-> {"size"},
    google_sql_database_instance   |-> {"disk_size"},
    google_compute_router_nat      |-> {"nat_ips"},
    azurerm_linux_virtual_machine  |-> {"os_disk_size_gb"},
    azurerm_managed_disk           |-> {"disk_size_gb"}]
\* Whatever Terraform puts there is a whole number or is refused.
HasNumbers(type, s) ==
    type \in DOMAIN Numbers => \A a \in Numbers[type] \cap DOMAIN s : s[a] \in Int \cup {Malformed}

\* Extract refuses the state.
Unreadable(type, s) == ~ Required[type] \subseteq DOMAIN s \/ \E a \in DOMAIN s : s[a] = Malformed

Value(s, a, default) == IF a \in DOMAIN s THEN s[a] ELSE default

-----------------------------------------------------------------------------
ExtractEC2(s) ==
    [InstanceType  |-> s.instance_type,
     Tenancy       |-> Value(s, "tenancy", "default"),
     RootBlockSize |-> Value(s, "root_volume_size", 0),
     RootBlockType |-> Value(s, "root_volume_type", "unset")]

ExtractEBS(s) ==
    [Type |-> s.type, Size |-> s.size, Iops |-> Value(s, "iops", 0), Throughput |-> Value(s, "throughput", 0)]

ExtractRDS(s) ==
    [Engine           |-> s.engine,
     InstanceClass    |-> s.instance_class,
     AllocatedStorage |-> s.allocated_storage,
     StorageType      |-> Value(s, "storage_type", "gp2"),
     MultiAZ          |-> Value(s, "multi_az", FALSE)]

ExtractLambda(s) ==
    [MemorySize             |-> Value(s, "memory_size", 128),
     Architecture           |-> Value(s, "architecture", "x86_64"),
     ProvisionedConcurrency |-> Value(s, "provisioned_concurrent_executions", 0)]

ExtractNATGateway(s) == [SubnetID |-> s.subnet_id]

ExtractRDSClusterInstance(s) == [InstanceClass |-> s.instance_class, Engine |-> s.engine]

\* The region is what is left of the zone.
ExtractComputeInstance(s, planRegion) ==
    [MachineType    |-> s.machine_type,
     Region         |-> Value(s, "zone_region", planRegion),
     Preemptible    |-> Value(s, "preemptible", FALSE) \/ Value(s, "provisioning_model", "unset") = "SPOT",
     BootDiskSizeGB |-> Value(s, "boot_disk_size", 0),
     BootDiskType   |-> Value(s, "boot_disk_type", "pd-balanced")]

ExtractComputeDisk(s) == [Type |-> Value(s, "type", "pd-standard"), SizeGB |-> Value(s, "size", 0)]

\* Without a settings block there is no tier.
ExtractSQLInstance(s) ==
    [DatabaseVersion |-> Value(s, "database_version", "unset"),
     Tier            |-> Value(s, "tier", "unset"),
     DiskSizeGB      |-> Value(s, "disk_size", 0),
     DiskType        |-> Value(s, "disk_type", "PD_SSD"),
     Regional        |-> Value(s, "availability_type", "unset") = "REGIONAL"]

ExtractRouterNAT(s) == [ManualIPCount |-> Value(s, "nat_ips", 0)]

ExtractCloudFunction(s) == [Name |-> s.name]

ExtractVirtualMachine(s, planRegion) ==
    [Size         |-> s.size,
     Location     |-> Value(s, "location", planRegion),
     Spot         |-> Value(s, "priority", "Regular") = "Spot",
     OSDiskSizeGB |-> Value(s, "os_disk_size_gb", 0),
     OSDiskType   |-> Value(s, "os_disk_type", "Standard_LRS")]

ExtractManagedDisk(s) == [StorageAccountType |-> s.storage_account_type, SizeGB |-> Value(s, "disk_size_gb", 0)]
=============================================================================
