------------------------------ MODULE MCOracle ------------------------------
(***************************************************************************)
(* Oracle for TLC: one process in environments that are complete but for   *)
(* at most one setting, beside one with the defaults and an API key.       *)
(***************************************************************************)
EXTENDS Oracle, TLC

CONSTANTS p1, p2

Empty == [s \in Settings |-> Unset]

Complete ==
    {"CLOUDORACLE_PROVIDER" :> "gcp" @@ "GOOGLE_CLOUD_PROJECT" :> Given
       @@ "LLM_PROVIDER" :> "claude" @@ "ANTHROPIC_API_KEY" :> Given @@ Empty,
     "CLOUDORACLE_API_KEY" :> Given @@ "CLOUDORACLE_BILLING_PROVIDER" :> "gcp_bigquery"
       @@ "GOOGLE_CLOUD_PROJECT" :> Given @@ "CLOUDORACLE_GCP_BILLING_DATASET" :> Given
       @@ "CLOUDORACLE_GCP_BILLING_TABLE" :> Given @@ Empty,
     "CLOUDORACLE_API_KEY" :> Given @@ "CLOUDORACLE_PROVIDER" :> "azure"
       @@ "AZURE_SUBSCRIPTION_ID" :> Given
       @@ "CLOUDORACLE_BILLING_PROVIDER" :> "azure_cost_management" @@ Empty}

Ports == {"DB_PORT", "CLOUDORACLE_API_PORT"}
Texts == {s \in Settings : Given \in Valid[s]}
Names == {"CLOUDORACLE_PROVIDER", "LLM_PROVIDER", "CLOUDORACLE_BILLING_PROVIDER", "LOG_LEVEL", "LOG_FORMAT"}

Mistakes(s) ==
    CASE s \in Texts -> {Unset}
      [] s \in Ports -> {Unset, Junk, 0, 65536}
      [] s \in Names -> {Unset, Junk}
      [] OTHER -> {Unset, Junk, -1}

Spoiled ==
    UNION {UNION {{[env EXCEPT ![s] = x] : x \in Mistakes(s)} : s \in Settings} : env \in Complete}

MCEnvironments == p1 :> (Complete \cup Spoiled) @@ p2 :> {"CLOUDORACLE_API_KEY" :> Given @@ Empty}

Plain(c) == [command |-> c, flags |-> "good"]
MCLines == p1 :> Jobs @@ p2 :> {Plain("serve"), Plain("seed")}

MCProcesses == {p1, p2}
=============================================================================
