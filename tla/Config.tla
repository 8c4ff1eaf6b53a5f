------------------------------- MODULE Config -------------------------------
(***************************************************************************)
(* What the environment of the oracle makes of its configuration           *)
(* (internal/config/config.go), and what the factories of providers make   *)
(* of it later (internal/llm/provider.go, internal/cloud/factory.go).      *)
(* Settings that any text satisfies and that have a default (the host, the *)
(* names, the AWS profile) are left out.  Durations are in seconds.        *)
(***************************************************************************)
EXTENDS Integers

CONSTANTS
    Unset,     \* a variable that is absent or empty
    Junk,      \* text that no validator accepts
    Given,     \* any text of a setting without a validator: a key, a project
    Refused    \* Load returned a ValidationError

ASSUME ConfigAssumption ==
    /\ Unset # Junk /\ Given \notin {Unset, Junk}
    /\ \A x \in {Unset, Junk, Given} : x \notin Int

Port   == 1..65535         \* requirePort
Count  == Nat \ {0}        \* requirePositiveInt, requirePositiveDuration
Repeat == Nat              \* requireNonNegativeInt
Text   == {Given}

Clouds   == {"synthetic", "aws", "gcp", "azure"}
LLMs     == {"gemini", "claude", "openai"}
Billings == {"snapshots", "aws_cost_explorer", "gcp_bigquery", "azure_cost_management"}
Levels   == {"debug", "info", "warn", "error"}

\* What each variable may hold when it is set.
Valid ==
    [DB_PORT |-> Port, CLOUDORACLE_API_PORT |-> Port,
     CLOUDORACLE_PROVIDER |-> Clouds, LLM_PROVIDER |-> LLMs,
     CLOUDORACLE_BILLING_PROVIDER |-> Billings,
     LOG_LEVEL |-> Levels, LOG_FORMAT |-> {"text", "json"},
     SYNTHETIC_COUNT |-> Count, LLM_MAX_RETRIES |-> Repeat,
     LLM_TIMEOUT |-> Count, LLM_BASE_DELAY |-> Count, LLM_MAX_DELAY |-> Count,
     CLOUDORACLE_API_SHUTDOWN_TIMEOUT |-> Count, CLOUD_SERVICE_TIMEOUT |-> Count,
     GEMINI_API_KEY |-> Text, ANTHROPIC_API_KEY |-> Text, OPENAI_API_KEY |-> Text,
     CLOUDORACLE_API_KEY |-> Text, GOOGLE_CLOUD_PROJECT |-> Text,
     AZURE_SUBSCRIPTION_ID |-> Text, CLOUDORACLE_GCP_BILLING_DATASET |-> Text,
     CLOUDORACLE_GCP_BILLING_TABLE |-> Text]

Settings == DOMAIN Valid

\* What it stands for when it is not; half a second is rounded to one.
Default ==
    [s \in Settings |->
        CASE s = "DB_PORT" -> 5432
          [] s = "CLOUDORACLE_API_PORT" -> 8080
          [] s = "CLOUDORACLE_PROVIDER" -> "synthetic"
          [] s = "CLOUDORACLE_BILLING_PROVIDER" -> "snapshots"
          [] s = "LOG_LEVEL" -> "info"
          [] s = "LOG_FORMAT" -> "text"
          [] s = "SYNTHETIC_COUNT" -> 100
          [] s = "LLM_MAX_RETRIES" -> 3
          [] s = "LLM_BASE_DELAY" -> 1
          [] s = "CLOUDORACLE_API_SHUTDOWN_TIMEOUT" -> 10
          [] s \in {"LLM_TIMEOUT", "LLM_MAX_DELAY", "CLOUD_SERVICE_TIMEOUT"} -> 30
          [] OTHER -> Unset]

\* A choice of a provider, and a setting it cannot do without.
Requires ==
    {<<"CLOUDORACLE_PROVIDER", "gcp", "GOOGLE_CLOUD_PROJECT">>,
     <<"CLOUDORACLE_PROVIDER", "azure", "AZURE_SUBSCRIPTION_ID">>,
     <<"LLM_PROVIDER", "gemini", "GEMINI_API_KEY">>,
     <<"LLM_PROVIDER", "claude", "ANTHROPIC_API_KEY">>,
     <<"LLM_PROVIDER", "openai", "OPENAI_API_KEY">>,
     <<"CLOUDORACLE_BILLING_PROVIDER", "gcp_bigquery", "GOOGLE_CLOUD_PROJECT">>,
     <<"CLOUDORACLE_BILLING_PROVIDER", "gcp_bigquery", "CLOUDORACLE_GCP_BILLING_DATASET">>,
     <<"CLOUDORACLE_BILLING_PROVIDER", "gcp_bigquery", "CLOUDORACLE_GCP_BILLING_TABLE">>,
     <<"CLOUDORACLE_BILLING_PROVIDER", "azure_cost_management", "AZURE_SUBSCRIPTION_ID">>}

\* The fields of cfg: an invalid variable counts as unset.
Parsed(env) == [s \in Settings |-> IF env[s] \in Valid[s] THEN env[s] ELSE Default[s]]

Invalid(env) == {s \in Settings : env[s] # Unset /\ env[s] \notin Valid[s]}

\* crossFieldChecks
CrossFieldChecks(c) == {r \in Requires : c[r[1]] = r[2] /\ c[r[3]] = Unset}

\* A fault: a project is asked for only by its inventory provider.
LoadHasty(env) ==
    IF \/ Invalid(env) # {}
       \/ \E r \in CrossFieldChecks(Parsed(env)) : r[1] # "CLOUDORACLE_BILLING_PROVIDER"
    THEN Refused ELSE Parsed(env)

\* Load: a configuration, or every problem at once.
Load(env) ==
    IF Invalid(env) = {} /\ CrossFieldChecks(Parsed(env)) = {} THEN Parsed(env) ELSE Refused

-----------------------------------------------------------------------------
(* The factories look again, each for itself. *)

KeyOf == [gemini |-> "GEMINI_API_KEY", claude |-> "ANTHROPIC_API_KEY", openai |-> "OPENAI_API_KEY"]

\* llm.NewProvider: the named one, else the first that has a key.
NewLLM(c) ==
    IF c.LLM_PROVIDER # Unset
    THEN IF c[KeyOf[c.LLM_PROVIDER]] = Unset THEN "error" ELSE "ready"
    ELSE IF \E m \in LLMs : c[KeyOf[m]] # Unset THEN "ready" ELSE "none"

\* cloud.NewProvider, as far as settings go
NewCloud(c) ==
    IF \/ c.CLOUDORACLE_PROVIDER = "gcp" /\ c.GOOGLE_CLOUD_PROJECT = Unset
       \/ c.CLOUDORACLE_PROVIDER = "azure" /\ c.AZURE_SUBSCRIPTION_ID = Unset
    THEN "error" ELSE "ready"

\* What billing the server would read without the settings it is read by: a
\* table without a name, or a source that is refused and replaced by snapshots.
NewBilling(c) ==
    IF \/ c.CLOUDORACLE_BILLING_PROVIDER = "azure_cost_management" /\ c.AZURE_SUBSCRIPTION_ID = Unset
       \/ /\ c.CLOUDORACLE_BILLING_PROVIDER = "gcp_bigquery"
          /\ Unset \in {c.GOOGLE_CLOUD_PROJECT, c.CLOUDORACLE_GCP_BILLING_DATASET,
                        c.CLOUDORACLE_GCP_BILLING_TABLE}
    THEN "error" ELSE "ready"
=============================================================================
