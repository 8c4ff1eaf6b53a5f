------------------------------ MODULE MCCostDiff ------------------------------
(***************************************************************************)
(* Plans for CostDiff: every estimator at its boundaries in plans of one   *)
(* change, and plans of three changes from a few that meet each other.     *)
(***************************************************************************)
EXTENDS CostDiff, TLC

Prices ==
    <<"EC2", "t3.micro", "shared">> :> 10 @@ <<"EC2", "t3.micro", "dedicated">> :> 12
    @@ <<"EC2", "m5.large", "shared">> :> 96
    @@ <<"EBS", "gp3">> :> 80 @@ <<"EBS", "io2">> :> 125 @@ <<"EBS", "sc1">> :> 3
    @@ <<"RDS", "db.t3", "postgres", "Single-AZ">> :> 18 @@ <<"RDS", "db.t3", "postgres", "Multi-AZ">> :> 36
    @@ <<"RDS storage", "gp2", "postgres", "Single-AZ">> :> 115
    @@ <<"RDS storage", "gp2", "postgres", "Multi-AZ">> :> 230
    @@ <<"RDS storage", "io1", "postgres", "Single-AZ">> :> 125
    @@ <<"Lambda", "x86_64">> :> 1 @@ <<"Lambda", "arm64">> :> 1
    @@ <<"NAT">> :> 45 @@ <<"Aurora", "db.r5", "aurora-mysql">> :> 290
    @@ <<"GCE", "e2">> :> 33 @@ <<"PD", "pd-balanced">> :> 100 @@ <<"PD", "pd-standard">> :> 40
    @@ <<"Cloud SQL", "db-f1">> :> 15 @@ <<"Cloud SQL storage", "PD_SSD">> :> 170
    @@ <<"Cloud NAT IP">> :> 5
    @@ <<"VM", "B2s">> :> 42 @@ <<"Azure disk", "Standard_LRS">> :> 45

Multipliers == [us_central1 |-> 1, europe_west2 |-> 2]

\* States of each type: plain ones, their variants, and those that cannot be priced.
States == [
    aws_instance |-> {
        [instance_type |-> "t3.micro"], [instance_type |-> "m5.large"],
        [instance_type |-> "t3.micro", tenancy |-> "dedicated"], [instance_type |-> "t3.micro", tenancy |-> "odd"],
        [instance_type |-> "t3.micro", root_volume_size |-> 8, root_volume_type |-> "gp3"],
        [instance_type |-> "t3.micro", root_volume_size |-> 8],
        [instance_type |-> "unknown"], [tenancy |-> "host"],
        [instance_type |-> "t3.micro", tenancy |-> Malformed]},
    aws_ebs_volume |-> {
        [type |-> "gp3", size |-> 10], [type |-> "gp3", size |-> 10, iops |-> 3000, throughput |-> 125],
        [type |-> "gp3", size |-> 10, iops |-> 3001], [type |-> "io2", size |-> 4],
        [type |-> "sc1", size |-> 1], [type |-> "gp3", size |-> 0], [type |-> "gp9", size |-> 1]},
    aws_db_instance |-> {
        [engine |-> "postgres", instance_class |-> "db.t3", allocated_storage |-> 20],
        [engine |-> "postgres", instance_class |-> "db.t3", allocated_storage |-> 20, multi_az |-> TRUE],
        [engine |-> "postgres", instance_class |-> "db.t3", allocated_storage |-> 20, storage_type |-> "io1"],
        [engine |-> "aurora", instance_class |-> "db.t3", allocated_storage |-> 20],
        [engine |-> "postgres", instance_class |-> "db.t3", allocated_storage |-> 0]},
    aws_lambda_function |-> {
        [function_name |-> "f"], [function_name |-> "f", provisioned_concurrent_executions |-> 2],
        [function_name |-> "f", provisioned_concurrent_executions |-> 1, memory_size |-> 64, architecture |-> "arm64"],
        [function_name |-> "f", provisioned_concurrent_executions |-> 1, architecture |-> "mips"]},
    aws_nat_gateway |-> {[subnet_id |-> "s"], [connectivity_type |-> "public"]},
    aws_rds_cluster_instance |-> {
        [cluster_identifier |-> "c", instance_class |-> "db.r5", engine |-> "aurora"],
        [cluster_identifier |-> "c", instance_class |-> "db.r5", engine |-> "neptune"],
        [cluster_identifier |-> "c", instance_class |-> "db.r5", engine |-> "mysql"]},
    google_compute_instance |-> {
        [machine_type |-> "e2"], [machine_type |-> "e2", provisioning_model |-> "SPOT"],
        [machine_type |-> "e2", zone_region |-> "europe_west2", preemptible |-> TRUE],
        [machine_type |-> "e2", zone_region |-> "mars", boot_disk_size |-> 10],
        [machine_type |-> "e2", boot_disk_size |-> 10, boot_disk_type |-> "odd"], [machine_type |-> "z9"]},
    google_compute_disk |-> {
        [size |-> 10], [size |-> 10, type |-> "pd-balanced"], [type |-> "pd-standard"], [size |-> 10, type |-> "odd"]},
    google_sql_database_instance |-> {
        [tier |-> "db-f1"], [tier |-> "db-f1", disk_size |-> 50, availability_type |-> "REGIONAL"],
        [database_version |-> "SQLSERVER", tier |-> "db-f1"], [database_version |-> "POSTGRES"], [tier |-> "db-f1", disk_type |-> "odd"]},
    google_compute_router_nat |-> {[name |-> "n"], [name |-> "n", nat_ips |-> 2]},
    google_cloudfunctions_function |-> {[name |-> "f"]},
    google_cloudfunctions2_function |-> {[name |-> "f", runtime |-> Malformed]},
    azurerm_linux_virtual_machine |-> {
        [size |-> "B2s"], [size |-> "B2s", location |-> "mars", priority |-> "Spot", os_disk_size_gb |-> 30],
        [size |-> "B2s", os_disk_size_gb |-> 30, os_disk_type |-> "odd"], [size |-> "odd"]},
    azurerm_managed_disk |-> {
        [storage_account_type |-> "Standard_LRS", disk_size_gb |-> 32], [storage_account_type |-> "Standard_LRS"],
        [storage_account_type |-> "odd", disk_size_gb |-> 32]},
    aws_iam_role |-> {[name |-> "r"]}]

RC(actions, type, before, after) ==
    [actions |-> actions, mode |-> "managed", type |-> type, before |-> before, after |-> after]

Create(type, s)     == RC(<<"create">>, type, NoAttributes, s)
Delete(type, s)     == RC(<<"delete">>, type, s, NoAttributes)
Update(type, s, t)  == RC(<<"update">>, type, s, t)

\* Alone: everything a state may be created as, deleted from or changed between.
Alone ==
    UNION {{Create(type, s) : s \in States[type] \cup {NoAttributes}} \cup {Delete(type, s) : s \in States[type]}
           \cup {RC(actions, type, s, t) :
                    s \in States[type], t \in States[type],
                    actions \in {<<"update">>, <<"delete", "create">>, <<"create", "delete">>}} : type \in DOMAIN States}

\* Together: a few that differ in action, sign, size, confidence and fate.
Micro  == [instance_type |-> "t3.micro"]
Rooted == [instance_type |-> "t3.micro", root_volume_size |-> 8, root_volume_type |-> "gp3"]
Drop   == [type |-> "sc1", size |-> 1]
Lambda == [function_name |-> "f"]
Disk   == [size |-> 10]

Together == {
    Create("aws_instance", Rooted), Delete("aws_instance", Micro),
    RC(<<"delete", "create">>, "aws_instance", Rooted, Micro), Update("aws_instance", Micro, Rooted),
    Create("aws_ebs_volume", Drop), Delete("aws_ebs_volume", Drop),
    Create("aws_lambda_function", Lambda), Create("google_compute_disk", Disk), Delete("google_compute_disk", Disk),
    Create("aws_iam_role", [name |-> "r"]),
    Create("aws_rds_cluster_instance", [cluster_identifier |-> "c", instance_class |-> "db.r5", engine |-> "neptune"]),
    RC(<<"no-op">>, "aws_instance", Micro, Micro),
    [RC(<<"read">>, "aws_instance", NoAttributes, Micro) EXCEPT !.mode = "data"]}

Odd == {
    RC(<< >>, "aws_instance", Micro, Micro), RC(<<"forget">>, "aws_instance", Micro, NoAttributes),
    [Create("aws_instance", Micro) EXCEPT !.mode = "data"]}

MCPlans == {<< >>} \cup {<<rc>> : rc \in Alone} \cup (Together \X (Together \cup Odd)) \cup (Together \X Together \X Together)
=============================================================================
