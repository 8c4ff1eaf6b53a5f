------------------------------- MODULE Oracle -------------------------------
(***************************************************************************)
(* Runs of the oracle binary (cmd/oracle/main.go) on one database and one  *)
(* host: the configuration, the connection, the migrations of              *)
(* internal/migrations, one command, and the exit code.  `serve` runs the  *)
(* HTTP server of internal/api/server.go until a signal.  What seed stores *)
(* and what the handlers answer is in Inventory and CostApi; pr-check,     *)
(* which needs no database, is in CommentUpsert.                           *)
(***************************************************************************)
EXTENDS Config, FiniteSets

CONSTANTS
    Processes,      \* runs of the binary; one may be started again
    Environments,   \* the environments each may be started in
    Lines,          \* the command lines each may be started with
    Files,          \* migration files, applied in this order
    Requests,       \* requests clients may have under way
    NoConfig        \* before and after a run

ASSUME OracleAssumption ==
    /\ Files \in Nat
    /\ NoConfig # Refused
    /\ \A p \in Processes : \A env \in Environments[p] : NoConfig # Parsed(env)

\* Exit codes: no run yet or one under way, and the end by a signal.
Running == -1
Killed  == 137

Commands == {"seed", "list", "analyze", "report", "trend", "export", "serve", "unknown"}
\* Flags that parse to usable values, to a value outside of what the command
\* can use (a port, a count, a format), not at all, or ask for help.
FlagKinds == {"good", "wild", "bad", "help"}
Jobs == {j \in [command : Commands, flags : FlagKinds] :
            /\ j.command \in {"list", "analyze", "unknown"} => j.flags = "good"
            /\ j.flags = "wild" => j.command \in {"seed", "export", "serve"}}

ASSUME LinesAssumption == Lines \in [Processes -> SUBSET Jobs]

VARIABLES
    main,       \* where main is
    job,        \* os.Args
    cfg,        \* what Load returned
    applied,    \* migration files whose statements are committed
    at,         \* the file Run is at
    code,       \* the exit code of the last run
    stored,     \* seed: its resources are in the table
    file,       \* export, report: the file named by --output
    go,         \* serve: the goroutine of ListenAndServe
    errCh,      \* serve: what it sent
    stopping,   \* serve: a signal has come, runCtx is done
    inflight,   \* serve: requests taken and not answered
    cut,        \* history: requests of this run that ended with the process
    late        \* history: which command met what missing after its start

runVars   == <<job, cfg, applied, at, stored, file, late>>
serveVars == <<go, errCh, stopping, inflight>>
oracleVars == <<main, code, cut, runVars, serveVars>>

OracleInit ==
    /\ main = [p \in Processes |-> "exited"]
    /\ job \in [Processes -> {[command |-> "list", flags |-> "good"]}]
    /\ cfg = [p \in Processes |-> NoConfig]
    /\ applied = {}
    /\ at = [p \in Processes |-> 1]
    /\ code = [p \in Processes |-> Running]
    /\ stored = [p \in Processes |-> FALSE]
    /\ file = [p \in Processes |-> "older"]
    /\ go = [p \in Processes |-> "none"]
    /\ errCh = [p \in Processes |-> "empty"]
    /\ stopping = [p \in Processes |-> FALSE]
    /\ inflight = [p \in Processes |-> {}]
    /\ cut = [p \in Processes |-> {}]
    /\ late = {}

-----------------------------------------------------------------------------
\* The process ends: its requests are cut off and its port is free.
Exits(p, c) ==
    /\ main' = [main EXCEPT ![p] = "exited"]
    /\ code' = [code EXCEPT ![p] = c]
    /\ cut' = [cut EXCEPT ![p] = inflight[p]]
    /\ cfg' = [cfg EXCEPT ![p] = NoConfig]
    /\ at' = [at EXCEPT ![p] = 1]
    /\ go' = [go EXCEPT ![p] = "none"]
    /\ errCh' = [errCh EXCEPT ![p] = "empty"]
    /\ inflight' = [inflight EXCEPT ![p] = {}]
    /\ UNCHANGED <<job, applied, stopping>>

Goto(p, l) == main' = [main EXCEPT ![p] = l] /\ UNCHANGED <<code, cut>>

\* Somebody starts it.
Start(p, j) ==
    /\ main[p] = "exited"
    /\ main' = [main EXCEPT ![p] = "load"]
    /\ job' = [job EXCEPT ![p] = j]
    /\ code' = [code EXCEPT ![p] = Running]
    /\ cut' = [cut EXCEPT ![p] = {}]
    /\ stored' = [stored EXCEPT ![p] = FALSE]
    /\ file' = [file EXCEPT ![p] = "older"]
    /\ stopping' = [stopping EXCEPT ![p] = FALSE]
    /\ UNCHANGED <<cfg, applied, at, late, go, errCh, inflight>>

\* What each process may get from config.Load.
Loads == [p \in Processes |-> {Load(env) : env \in Environments[p]}]

LoadConfig(p) ==
    /\ main[p] = "load"
    /\ \E c \in Loads[p] :
          IF c = Refused
          THEN Exits(p, 1)
          ELSE /\ cfg' = [cfg EXCEPT ![p] = c]
               /\ Goto(p, "connect")
               /\ UNCHANGED <<job, applied, at, serveVars>>
    /\ UNCHANGED <<stored, file, late>>

\* db.Connect: the pool answers a ping.
Connect(p) ==
    /\ main[p] = "connect"
    /\ Goto(p, "migrate")
    /\ UNCHANGED <<runVars, serveVars>>

\* The database, the cloud or the disk fails the step the process is at.
Fails(p) ==
    /\ main[p] \in {"connect", "migrate", "create", "query", "fetch", "insert"}
    /\ Exits(p, 1)
    /\ UNCHANGED <<stored, file, late>>

\* A file is through.
NextFile(p) == at' = [at EXCEPT ![p] = @ + 1]

\* migrations.Run: IF NOT EXISTS finds the tables, or finds none and creates them.
Migrate(p) ==
    /\ main[p] = "migrate" /\ at[p] <= Files
    /\ IF at[p] \in applied
       THEN NextFile(p) /\ UNCHANGED main
       ELSE main' = [main EXCEPT ![p] = "create"] /\ UNCHANGED at
    /\ UNCHANGED <<code, cut, job, cfg, applied, stored, file, late, serveVars>>

\* The statements of one file are one transaction; it fails on tables that
\* another process has created in between.
Create(p) ==
    /\ main[p] = "create"
    /\ IF at[p] \in applied
       THEN Exits(p, 1) /\ UNCHANGED <<stored, file, late>>
       ELSE /\ applied' = applied \cup {at[p]}
            /\ NextFile(p)
            /\ Goto(p, "migrate")
            /\ UNCHANGED <<job, cfg, stored, file, late, serveVars>>

\* Where each command goes on once its flags are parsed.
Entry(c) ==
    CASE c = "seed" -> "fetch" [] c = "serve" -> "serve" [] OTHER -> "query"

\* The switch of main, and fs.Parse, which exits by itself.
Dispatch(p) ==
    /\ main[p] = "migrate" /\ at[p] > Files
    /\ CASE job[p].command = "unknown" -> Exits(p, 1) /\ UNCHANGED <<stored, file, late>>
         [] job[p].flags = "bad"  -> Exits(p, 2) /\ UNCHANGED <<stored, file, late>>
         [] job[p].flags = "help" -> Exits(p, 0) /\ UNCHANGED <<stored, file, late>>
         [] OTHER -> Goto(p, Entry(job[p].command)) /\ UNCHANGED <<runVars, serveVars>>

\* A step that needs something, and whether it found it missing.
Misses(p, need, missing) ==
    late' = IF missing THEN late \cup {<<job[p].command, need>>} ELSE late

-----------------------------------------------------------------------------
(* list, analyze, trend, report and export. *)

\* The tables are read and, for list, analyze and trend, printed.
Query(p) ==
    /\ main[p] = "query"
    /\ Misses(p, "table", applied # 1..Files)
    /\ IF job[p].command \in {"report", "export"}
       THEN /\ Goto(p, IF job[p].command = "report" THEN "report" ELSE "open")
            /\ UNCHANGED <<job, cfg, applied, at, serveVars>>
       ELSE Exits(p, 0)
    /\ UNCHANGED <<stored, file>>

\* report: nothing to tell ends it; the language model is asked if there is one.
Report(p) ==
    /\ main[p] = "report"
    /\ \/ Exits(p, 0) /\ UNCHANGED late
       \/ /\ Misses(p, "llm", NewLLM(cfg[p]) = "error")
          /\ Goto(p, "open")
          /\ UNCHANGED <<job, cfg, applied, at, serveVars>>
    /\ UNCHANGED <<stored, file>>

\* os.Create empties the file, or fails; the format is looked at only then.
Open(p) ==
    /\ main[p] = "open"
    /\ \/ Exits(p, 1) /\ UNCHANGED file
       \/ /\ file' = [file EXCEPT ![p] = "empty"]
          /\ IF job[p] = [command |-> "export", flags |-> "wild"]
             THEN Exits(p, 1)
             ELSE Goto(p, "write") /\ UNCHANGED <<job, cfg, applied, at, serveVars>>
    /\ UNCHANGED <<stored, late>>

\* A fault: a failed write has the code that pr-check gives it.
WrittenAsInCI(part) == IF part = "part" THEN 3 ELSE 0

\* The exit code: a write that fails is told, a close that fails after them is
\* not (export defers it and drops its error; gofpdf is taken to do the same).
Written(part) == IF part = "part" THEN 1 ELSE 0

\* ExportJSON, ExportCSV, GeneratePDF, and the close of the file.
Write(p) ==
    /\ main[p] = "write"
    /\ \E part \in {"whole", "unclosed", "part"} :
          file' = [file EXCEPT ![p] = part] /\ Exits(p, Written(part))
    /\ UNCHANGED <<stored, late>>

-----------------------------------------------------------------------------
(* seed. *)

\* The provider is made and asked; a count below zero is a panic.
Fetch(p) ==
    /\ main[p] = "fetch"
    /\ Misses(p, "cloud", NewCloud(cfg[p]) = "error")
    /\ \/ NewCloud(cfg[p]) = "error" /\ Exits(p, 1)
       \/ job[p].flags = "wild" /\ cfg[p].CLOUDORACLE_PROVIDER = "synthetic" /\ Exits(p, 2)
       \/ /\ NewCloud(cfg[p]) # "error"
          /\ job[p].flags = "wild" => cfg[p].CLOUDORACLE_PROVIDER # "synthetic"
          /\ Goto(p, "insert")
          /\ UNCHANGED <<job, cfg, applied, at, serveVars>>
    /\ UNCHANGED <<stored, file>>

\* InsertResources commits; CreateSnapshot may fail with a warning.
Insert(p) ==
    /\ main[p] = "insert"
    /\ Misses(p, "table", applied # 1..Files)
    /\ stored' = [stored EXCEPT ![p] = TRUE]
    /\ Exits(p, 0)
    /\ UNCHANGED file

-----------------------------------------------------------------------------
(* serve. *)

\* runServe up to Run's select: without a key there is no server.  A billing
\* source that cannot be made is replaced by the snapshots.
Serve(p) ==
    /\ main[p] = "serve"
    /\ IF cfg[p].CLOUDORACLE_API_KEY = Unset
       THEN Exits(p, 1) /\ Misses(p, "key", TRUE)
       ELSE /\ Misses(p, "billing", NewBilling(cfg[p]) = "error")
            /\ go' = [go EXCEPT ![p] = "starting"]
            /\ Goto(p, "select")
            /\ UNCHANGED <<job, cfg, applied, at, errCh, stopping, inflight>>
    /\ UNCHANGED <<stored, file>>

\* The goroutine's steps leave main where it is.
OnlyServer == UNCHANGED <<main, code, cut, runVars>>

\* ListenAndServe returns: an error of the listener, or ErrServerClosed.
Sends(p, e) ==
    /\ go' = [go EXCEPT ![p] = "ended"]
    /\ errCh' = [errCh EXCEPT ![p] = e]
    /\ UNCHANGED <<stopping, inflight>> /\ OnlyServer

ShuttingDown(p) == main[p] = "drain"

\* Who has the port.
Bound(p) == go[p] \in {"bound", "serving"}

\* net.Listen, unless Shutdown came first; a port of nonsense, or another
\* server's, is an error.
Listen(p) ==
    /\ go[p] = "starting"
    /\ IF ShuttingDown(p) THEN Sends(p, "nil")
       ELSE IF job[p].flags = "wild" \/ \E q \in Processes : Bound(q) THEN Sends(p, "error")
       ELSE go' = [go EXCEPT ![p] = "bound"] /\ UNCHANGED <<errCh, stopping, inflight>> /\ OnlyServer

\* Serve registers the listener, or finds the server shut down.
Track(p) ==
    /\ go[p] = "bound"
    /\ IF ShuttingDown(p) THEN Sends(p, "nil")
       ELSE go' = [go EXCEPT ![p] = "serving"] /\ UNCHANGED <<errCh, stopping, inflight>> /\ OnlyServer

\* A request is accepted and its handler runs.
Accept(p, r) ==
    /\ go[p] = "serving" /\ ~ ShuttingDown(p)
    /\ \A q \in Processes : r \notin inflight[q]
    /\ inflight' = [inflight EXCEPT ![p] = @ \cup {r}]
    /\ UNCHANGED <<go, errCh, stopping>> /\ OnlyServer

\* Its handler has answered.
Answer(p, r) ==
    /\ r \in inflight[p]
    /\ inflight' = [inflight EXCEPT ![p] = @ \ {r}]
    /\ UNCHANGED <<go, errCh, stopping>> /\ OnlyServer

\* Accept fails: the listener is closed by Shutdown, or is broken.
Unserve(p) ==
    /\ go[p] = "serving"
    /\ Sends(p, IF ShuttingDown(p) THEN "nil" ELSE "error")

\* Run's select: the listener's end ...
SelectError(p) ==
    /\ main[p] = "select" /\ errCh[p] # "empty"
    /\ Exits(p, IF errCh[p] = "error" THEN 1 ELSE 0)
    /\ UNCHANGED <<stored, file, late>>

\* A fault: the process goes with its listener instead of waiting for handlers.
ShutdownHard(p) == Exits(p, 0) /\ UNCHANGED <<stored, file, late>>

\* Shutdown closes the listener and begins to wait.
Shutdown(p) == Goto(p, "drain") /\ UNCHANGED <<runVars, serveVars>>

\* ... or runCtx.
SelectDone(p) ==
    /\ main[p] = "select" /\ stopping[p]
    /\ Shutdown(p)

\* Shutdown has seen the listener released and every handler finish.
Drained(p) ==
    /\ main[p] = "drain" /\ go[p] # "serving" /\ inflight[p] = {}
    /\ Exits(p, 0)
    /\ UNCHANGED <<stored, file, late>>

\* A fault: the wait has no timeout.
ExpiresNever(p) == FALSE

\* CLOUDORACLE_API_SHUTDOWN_TIMEOUT is over.
Expires(p) == main[p] = "drain"

DrainTimeout(p) ==
    /\ Expires(p)
    /\ Exits(p, 1)
    /\ UNCHANGED <<stored, file, late>>

-----------------------------------------------------------------------------
\* SIGINT or SIGTERM: serve listens to them once it has its key; the end of any
\* other run.
Signal(p) ==
    /\ main[p] # "exited"
    /\ IF main[p] \in {"select", "drain"}
       THEN /\ stopping' = [stopping EXCEPT ![p] = TRUE]
            /\ UNCHANGED <<main, code, cut, runVars, go, errCh, inflight>>
       ELSE Exits(p, Killed) /\ UNCHANGED <<stored, file, late>>

\* SIGKILL, or the machine
Dies(p) ==
    /\ main[p] # "exited"
    /\ Exits(p, Killed)
    /\ UNCHANGED <<stored, file, late>>

Startup(p) == LoadConfig(p) \/ Connect(p) \/ Migrate(p) \/ Create(p) \/ Dispatch(p)
Command(p) == Query(p) \/ Report(p) \/ Open(p) \/ Write(p) \/ Fetch(p) \/ Insert(p) \/ Serve(p)
Server(p)  == Listen(p) \/ Track(p) \/ (ShuttingDown(p) /\ Unserve(p))
Stops(p)   == SelectError(p) \/ SelectDone(p) \/ Drained(p) \/ DrainTimeout(p)

OracleNext == \E p \in Processes :
    \/ \E j \in Lines[p] : Start(p, j)
    \/ Startup(p) \/ Command(p) \/ Stops(p) \/ Listen(p) \/ Track(p) \/ Unserve(p)
    \/ \E r \in Requests : Accept(p, r) \/ Answer(p, r)
    \/ Fails(p) \/ Signal(p) \/ Dies(p)

OracleSpec == OracleInit /\ [][OracleNext]_oracleVars
\* A process that can take a step of its own takes one, and time passes; no
\* handler needs to finish and nobody needs to send a signal.
FairOracleSpec ==
    /\ OracleSpec
    /\ \A p \in Processes : /\ WF_oracleVars(Startup(p)) /\ WF_oracleVars(Command(p))
                            /\ WF_oracleVars(Server(p)) /\ WF_oracleVars(Stops(p))

-----------------------------------------------------------------------------
OracleTypeOK ==
    /\ main \in [Processes -> {"exited", "load", "connect", "migrate", "create", "query", "report",
                             "open", "write", "fetch", "insert", "serve", "select", "drain"}]
    /\ job \in [Processes -> Jobs]
    /\ cfg \in [Processes -> {NoConfig} \cup UNION {Loads[p] : p \in Processes}]
    /\ \A p \in Processes : cfg[p] = NoConfig <=> main[p] \in {"exited", "load"}
    /\ applied \subseteq 1..Files /\ at \in [Processes -> 1..(Files + 1)]
    /\ code \in [Processes -> {Running, 0, 1, 2, Killed}]
    /\ stored \in [Processes -> BOOLEAN]
    /\ file \in [Processes -> {"older", "empty", "part", "unclosed", "whole"}]
    /\ go \in [Processes -> {"none", "starting", "bound", "serving", "ended"}]
    /\ errCh \in [Processes -> {"empty", "nil", "error"}]
    /\ stopping \in [Processes -> BOOLEAN]
    /\ inflight \in [Processes -> SUBSET Requests] /\ cut \in [Processes -> SUBSET Requests]
    /\ late \subseteq Commands \X {"table", "llm", "cloud", "billing", "key"}

\* An exit code of 0 means that the command did what it is for: the resources
\* are stored, every write to the file succeeded (or there was nothing to report,
\* and the older file stands), and a server was told to stop and left no request
\* unanswered (server.go: "land in Shutdown rather than abruptly killing
\* in-flight requests").  It does not say that the file's close succeeded.
ZeroMeansDone ==
    \A p \in Processes : code[p] = 0 /\ job[p].flags # "help" =>
        CASE job[p].command = "seed"   -> stored[p]
          [] job[p].command = "export" -> file[p] \in {"whole", "unclosed"}
          [] job[p].command = "report" -> file[p] \in {"whole", "unclosed", "older"}
          [] job[p].command = "serve"  -> stopping[p] /\ cut[p] = {}
          [] OTHER -> TRUE

\* What Load leaves to a command (config.go: "only the `serve` subcommand cares
\* whether it is set").
LeftToServe == {<<"serve", "key">>}

\* What is wrong with the environment or the schema is told at the start
\* (config.go: "the operator sees the full picture at once"): once Load and the
\* migrations are through, whoever else was started or died meanwhile, no
\* command meets a setting or a table that is missing, but for serve, which
\* looks for its API key only then.
FailsEarly == late \subseteq LeftToServe

\* A server that is told to stop stops, whatever its handlers do and wherever
\* its listener is.
StopsWhenTold ==
    \A p \in Processes : (stopping[p] /\ main[p] # "exited") ~> main[p] = "exited"
=============================================================================
