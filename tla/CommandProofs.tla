---------------------------- MODULE CommandProofs ----------------------------
(***************************************************************************)
(* Safety of the oracle binary: of its commands, for any number of         *)
(* processes, environments, migration files and requests, and of           *)
(* pr-check's comment upsert, for any number of runs, comments, pages,     *)
(* edits and deletions.  The two state machines share no variable.         *)
(***************************************************************************)
EXTENDS CommentUpsert, Oracle, NumberFacts, TLAPS

(***************************************************************************)
(* The oracle's processes.  Load refuses what the factories would refuse.  *)
(***************************************************************************)

\* A configuration of Load holds for each variable a valid value or its default.
LEMMA ParsedType ==
    ASSUME NEW env, NEW s \in Settings
    PROVE  Parsed(env)[s] \in Valid[s] \cup {Default[s]}
BY DEF Parsed

\* The provider a configuration names has what it requires.
LEMMA RequiredIsSet ==
    ASSUME NEW env, Load(env) # Refused, NEW r \in Requires
    PROVE  Load(env) = Parsed(env)
           /\ (Parsed(env)[r[1]] = r[2] => Parsed(env)[r[3]] # Unset)
BY DEF Load, CrossFieldChecks

\* No factory refuses a configuration that Load has let through: what
\* crossFieldChecks asks for is all that they look for again.
THEOREM LoadIsEnough ==
    ASSUME NEW env, Load(env) # Refused
    PROVE  /\ NewLLM(Load(env)) # "error"
           /\ NewCloud(Load(env)) # "error"
           /\ NewBilling(Load(env)) # "error"
<1> DEFINE c == Parsed(env)
<1>1. Load(env) = c
  BY DEF Load
<1>2. \A r \in Requires : c[r[1]] = r[2] => c[r[3]] # Unset
  BY RequiredIsSet
<1> HIDE DEF c
<1>3. NewCloud(c) # "error"
  BY <1>2 DEF NewCloud, Requires
<1>4. NewBilling(c) # "error"
  BY <1>2 DEF NewBilling, Requires
<1>5. c.LLM_PROVIDER \in LLMs \cup {Unset}
  <2>1. "LLM_PROVIDER" \in Settings /\ Valid["LLM_PROVIDER"] = LLMs
    BY DEF Settings, Valid
  <2>2. Default["LLM_PROVIDER"] = Unset
    BY <2>1 DEF Default
  <2>. QED
    BY <2>1, <2>2, ParsedType DEF c
<1>6. ASSUME c.LLM_PROVIDER # Unset PROVE c[KeyOf[c.LLM_PROVIDER]] # Unset
  <2>1. CASE c.LLM_PROVIDER = "gemini"
    BY <2>1, <1>2 DEF Requires, KeyOf
  <2>2. CASE c.LLM_PROVIDER = "claude"
    BY <2>2, <1>2 DEF Requires, KeyOf
  <2>3. CASE c.LLM_PROVIDER = "openai"
    BY <2>3, <1>2 DEF Requires, KeyOf
  <2>. QED
    BY <1>5, <1>6, <2>1, <2>2, <2>3 DEF LLMs
<1>7. NewLLM(c) # "error"
  BY <1>6 DEF NewLLM
<1>. QED
  BY <1>1, <1>3, <1>4, <1>7

-----------------------------------------------------------------------------
(***************************************************************************)
(* The oracle's inductive invariant.                                       *)
(***************************************************************************)

\* The places of main beyond the migrations.
Through == {"query", "report", "open", "write", "fetch", "insert", "serve", "select", "drain"}

\* The files before the one a process is at are applied, by whomever.
Migrated(p) ==
    /\ 1..(at[p] - 1) \subseteq applied
    /\ main[p] = "create" => at[p] <= Files
    /\ main[p] \in Through => at[p] = Files + 1

\* A process at work has a configuration that Load let through.
Settled(p) == main[p] \notin {"exited", "load"} => cfg[p] \in Loads[p] \ {Refused}

\* Where main is tells the command.
OnTask(p) ==
    /\ main[p] = "query" => job[p].command \notin {"seed", "serve"}
    /\ main[p] = "report" => job[p].command = "report"
    /\ main[p] \in {"open", "write"} => job[p].command \in {"report", "export"}
    /\ main[p] \in {"fetch", "insert"} => job[p].command = "seed"
    /\ main[p] \in {"serve", "select", "drain"} => job[p].command = "serve"

\* No code before the end, and no file but an older one before it is opened.
Unfinished(p) ==
    /\ main[p] # "exited" => code[p] = Running
    /\ main[p] \notin {"exited", "write"} => file[p] = "older"

\* ErrServerClosed comes of a shutdown, and a shutdown of a signal.
ClosedWhenTold(p) ==
    /\ errCh[p] = "nil" => main[p] = "drain"
    /\ main[p] = "drain" => stopping[p]

\* ZeroMeansDone for one process.
Done(p) ==
    code[p] = 0 /\ job[p].flags # "help" =>
        CASE job[p].command = "seed"   -> stored[p]
          [] job[p].command = "export" -> file[p] \in {"whole", "unclosed"}
          [] job[p].command = "report" -> file[p] \in {"whole", "unclosed", "older"}
          [] job[p].command = "serve"  -> stopping[p] /\ cut[p] = {}
          [] OTHER -> TRUE

Sound(p) ==
    Migrated(p) /\ Settled(p) /\ OnTask(p) /\ Unfinished(p) /\ ClosedWhenTold(p) /\ Done(p)

OracleInv == OracleTypeOK /\ FailsEarly /\ \A p \in Processes : Sound(p)

\* A step leaves process q alone.
LeftAlone(q) ==
    /\ main'[q] = main[q] /\ job'[q] = job[q] /\ cfg'[q] = cfg[q] /\ at'[q] = at[q]
    /\ code'[q] = code[q] /\ stored'[q] = stored[q] /\ file'[q] = file[q]
    /\ errCh'[q] = errCh[q] /\ stopping'[q] = stopping[q] /\ cut'[q] = cut[q]

\* A process another's step leaves alone stays sound: files are only added.
LEMMA LeftAloneIsSound ==
    ASSUME NEW q \in Processes, Sound(q), LeftAlone(q), applied \subseteq applied'
    PROVE  Sound(q)'
<1>1. Migrated(q)'
  BY DEF Sound, Migrated, LeftAlone
<1>2. Settled(q)' /\ OnTask(q)' /\ Unfinished(q)' /\ ClosedWhenTold(q)' 
  BY DEF Sound, Settled, OnTask, Unfinished, ClosedWhenTold, LeftAlone
<1>3. Done(q)'
  BY DEF Sound, Done, LeftAlone
<1>. QED
  BY <1>1, <1>2, <1>3 DEF Sound

\* A step of p that keeps the types and misses nothing need only keep p sound.
LEMMA OneProcess ==
    ASSUME OracleInv, NEW p \in Processes, OracleTypeOK', late' \subseteq LeftToServe, applied \subseteq applied',
           \A q \in Processes \ {p} : LeftAlone(q), Sound(p)'
    PROVE  OracleInv'
<1>1. \A q \in Processes : Sound(q)'
  BY LeftAloneIsSound DEF OracleInv
<1>. QED
  BY <1>1 DEF OracleInv, FailsEarly

\* What may be met late is of the type of what is.
LEMMA LeftIsTyped ==
    LeftToServe \subseteq Commands \X {"table", "llm", "cloud", "billing", "key"}
BY DEF LeftToServe, Commands

\* The end of a process: what it writes down at the end must be true.
LEMMA ExitsSoundly ==
    ASSUME OracleInv, NEW p \in Processes, NEW c \in {0, 1, 2, Killed}, Exits(p, c),
           main[p] # "exited", late' \subseteq LeftToServe,
           stored' \in [Processes -> BOOLEAN], file' \in [Processes -> {"older", "empty", "part", "unclosed", "whole"}],
           \A q \in Processes \ {p} : stored'[q] = stored[q] /\ file'[q] = file[q],
           c = 0 /\ job[p].flags # "help" =>
              CASE job[p].command = "seed"   -> stored'[p]
                [] job[p].command = "export" -> file'[p] \in {"whole", "unclosed"}
                [] job[p].command = "report" -> file'[p] \in {"whole", "unclosed", "older"}
                [] job[p].command = "serve"  -> stopping[p] /\ inflight[p] = {}
                [] OTHER -> TRUE
    PROVE  OracleInv'
<1>1. OracleTypeOK
  BY DEF OracleInv
<1>2. /\ main' \in [Processes -> {"exited", "load", "connect", "migrate", "create", "query", "report",
                             "open", "write", "fetch", "insert", "serve", "select", "drain"}]
      /\ code' \in [Processes -> {Running, 0, 1, 2, Killed}]
      /\ cut' \in [Processes -> SUBSET Requests]
      /\ inflight' \in [Processes -> SUBSET Requests]
  BY <1>1 DEF OracleTypeOK, Exits
<1>3. /\ cfg' \in [Processes -> {NoConfig} \cup UNION {Loads[q] : q \in Processes}]
      /\ at' \in [Processes -> 1..(Files + 1)]
      /\ go' \in [Processes -> {"none", "starting", "bound", "serving", "ended"}]
      /\ errCh' \in [Processes -> {"empty", "nil", "error"}]
  BY <1>1, OracleAssumption DEF OracleTypeOK, Exits
<1>4. \A q \in Processes : cfg'[q] = NoConfig <=> main'[q] \in {"exited", "load"}
  BY <1>1 DEF OracleTypeOK, Exits
<1>5. OracleTypeOK'
  BY <1>1, <1>2, <1>3, <1>4, LeftIsTyped DEF OracleTypeOK, Exits
<1>6. \A q \in Processes \ {p} : LeftAlone(q)
  BY <1>1 DEF LeftAlone, OracleTypeOK, Exits
<1>7. /\ main'[p] = "exited" /\ code'[p] = c /\ cut'[p] = inflight[p] /\ at'[p] = 1
      /\ errCh'[p] = "empty" /\ job' = job /\ stopping' = stopping /\ applied' = applied
  BY <1>1 DEF OracleTypeOK, Exits
<1>8. Migrated(p)' /\ Settled(p)' /\ OnTask(p)' /\ Unfinished(p)' /\ ClosedWhenTold(p)'
  BY <1>7 DEF Migrated, Settled, OnTask, Unfinished, ClosedWhenTold, Through
<1>9. Done(p)'
  BY <1>7 DEF Done
<1>. QED
  BY <1>5, <1>6, <1>7, <1>8, <1>9, OneProcess DEF Sound

\* main goes on to another place with its configuration kept.
LEMMA GoesOnSoundly ==
    ASSUME OracleInv, NEW p \in Processes,
           NEW l \in {"migrate", "create"} \cup Through, Goto(p, l),
           main[p] \notin {"exited", "load", "write", "drain"},
           UNCHANGED <<job, cfg, at, stored, errCh, stopping, inflight>>,
           applied' = applied, late' \subseteq LeftToServe,
           go' \in [Processes -> {"none", "starting", "bound", "serving", "ended"}],
           file' \in [Processes -> {"older", "empty", "part", "unclosed", "whole"}],
           \A q \in Processes \ {p} : file'[q] = file[q],
           l # "write" => file'[p] = file[p],
           OnTask(p)',
           l = "create" => at[p] <= Files,
           l \in Through => at[p] = Files + 1,
           l = "drain" => stopping[p]
    PROVE  OracleInv'
<1>1. OracleTypeOK
  BY DEF OracleInv
<1>2. /\ main' \in [Processes -> {"exited", "load", "connect", "migrate", "create", "query", "report",
                             "open", "write", "fetch", "insert", "serve", "select", "drain"}]
      /\ main'[p] = l /\ \A q \in Processes \ {p} : main'[q] = main[q]
  BY <1>1 DEF OracleTypeOK, Goto, Through
<1>3. \A q \in Processes : cfg'[q] = NoConfig <=> main'[q] \in {"exited", "load"}
  BY <1>1, <1>2 DEF OracleTypeOK, Through
<1>4. OracleTypeOK'
  BY <1>1, <1>2, <1>3, LeftIsTyped DEF OracleTypeOK, Goto
<1>5. \A q \in Processes \ {p} : LeftAlone(q)
  BY <1>2 DEF LeftAlone, Goto
<1>6. Sound(p) /\ code[p] = Running
  BY DEF OracleInv, Sound, Unfinished
<1>7. Migrated(p)' /\ Settled(p)'
  BY <1>2, <1>6 DEF Sound, Migrated, Settled
<1>8. Unfinished(p)'
  BY <1>2, <1>6 DEF Sound, Unfinished, Goto, Through
<1>9. ClosedWhenTold(p)'
  BY <1>2, <1>6 DEF Sound, ClosedWhenTold
<1>10. Done(p)'
  BY <1>6 DEF Done, Goto, Running
<1>. QED
  BY <1>4, <1>5, <1>7, <1>8, <1>9, <1>10, OneProcess DEF Sound

-----------------------------------------------------------------------------
\* The steps, one by one.
LEMMA StartIsSound ==
    ASSUME OracleInv, NEW p \in Processes, NEW j \in Jobs, Start(p, j)
    PROVE  OracleInv'
<1>1. OracleTypeOK /\ late \subseteq LeftToServe /\ Sound(p)
  BY DEF OracleInv, FailsEarly
<1>2. /\ main' \in [Processes -> {"exited", "load", "connect", "migrate", "create", "query", "report",
                             "open", "write", "fetch", "insert", "serve", "select", "drain"}]
      /\ job' \in [Processes -> Jobs]
      /\ code' \in [Processes -> {Running, 0, 1, 2, Killed}]
      /\ cut' \in [Processes -> SUBSET Requests]
      /\ stored' \in [Processes -> BOOLEAN]
      /\ file' \in [Processes -> {"older", "empty", "part", "unclosed", "whole"}]
      /\ stopping' \in [Processes -> BOOLEAN]
  BY <1>1 DEF OracleTypeOK, Start
<1>3. \A q \in Processes : cfg'[q] = NoConfig <=> main'[q] \in {"exited", "load"}
  BY <1>1 DEF OracleTypeOK, Start
<1>4. OracleTypeOK'
  BY <1>1, <1>2, <1>3 DEF OracleTypeOK, Start
<1>5. \A q \in Processes \ {p} : LeftAlone(q)
  BY <1>1 DEF LeftAlone, OracleTypeOK, Start
<1>6. main'[p] = "load" /\ code'[p] = Running /\ file'[p] = "older"
  BY <1>1 DEF OracleTypeOK, Start
<1>7. Migrated(p)' /\ Settled(p)' /\ OnTask(p)' /\ Unfinished(p)' /\ ClosedWhenTold(p)'
  BY <1>1, <1>6 DEF Sound, Migrated, Settled, OnTask, Unfinished, ClosedWhenTold, Through, Start
<1>8. Done(p)'
  BY <1>6 DEF Done, Running
<1>. QED
  BY <1>1, <1>4, <1>5, <1>7, <1>8, OneProcess DEF Sound, Start

LEMMA LoadConfigIsSound ==
    ASSUME OracleInv, NEW p \in Processes, LoadConfig(p)
    PROVE  OracleInv'
<1>1. OracleTypeOK /\ late \subseteq LeftToServe /\ Sound(p) /\ late' \subseteq LeftToServe
  BY DEF OracleInv, FailsEarly, LoadConfig
<1>2. CASE Exits(p, 1)
  BY <1>1, <1>2, ExitsSoundly DEF LoadConfig, OracleTypeOK
<1>3. ASSUME NEW c \in Loads[p] \ {Refused}, cfg' = [cfg EXCEPT ![p] = c], Goto(p, "connect"),
             UNCHANGED <<job, applied, at, serveVars>>
      PROVE  OracleInv'
  <2>1. c # NoConfig
    BY OracleAssumption, <1>3 DEF Loads, Load
  <2>2. c \in UNION {Loads[q] : q \in Processes}
    OBVIOUS
  <2>3. /\ main' \in [Processes -> {"exited", "load", "connect", "migrate", "create", "query", "report",
                             "open", "write", "fetch", "insert", "serve", "select", "drain"}]
        /\ cfg' \in [Processes -> {NoConfig} \cup UNION {Loads[q] : q \in Processes}]
    BY <1>1, <1>3, <2>2 DEF OracleTypeOK, Goto
  <2>4. \A q \in Processes : cfg'[q] = NoConfig <=> main'[q] \in {"exited", "load"}
    BY <1>1, <1>3, <2>1 DEF OracleTypeOK, Goto
  <2>5. OracleTypeOK'
    BY <1>1, <1>3, <2>3, <2>4 DEF OracleTypeOK, Goto, LoadConfig, serveVars
  <2>6. \A q \in Processes \ {p} : LeftAlone(q)
    BY <1>1, <1>3 DEF LeftAlone, OracleTypeOK, Goto, LoadConfig, serveVars
  <2>7. main'[p] = "connect" /\ cfg'[p] = c /\ code[p] = Running /\ main[p] = "load"
    BY <1>1, <1>3 DEF OracleTypeOK, Goto, LoadConfig, Sound, Unfinished
  <2>8. Migrated(p)' /\ Settled(p)' /\ OnTask(p)' /\ Unfinished(p)' /\ ClosedWhenTold(p)'
    BY <1>1, <1>3, <2>7
    DEF Sound, Migrated, Settled, OnTask, Unfinished, ClosedWhenTold, Through, Goto, LoadConfig, serveVars
  <2>9. Done(p)'
    BY <1>3, <2>7 DEF Done, Running, Goto
  <2>. QED
    BY <1>1, <1>3, <2>5, <2>6, <2>8, <2>9, OneProcess DEF Sound
<1>. QED
  BY <1>2, <1>3 DEF LoadConfig

LEMMA ConnectIsSound ==
    ASSUME OracleInv, NEW p \in Processes, Connect(p)
    PROVE  OracleInv'
<1>1. OracleTypeOK /\ late \subseteq LeftToServe /\ main'[p] = "migrate"
  BY DEF OracleInv, FailsEarly, Connect, Goto, OracleTypeOK
<1>2. OnTask(p)'
  BY <1>1 DEF OnTask
<1>3. Goto(p, "migrate") /\ main[p] = "connect" /\ UNCHANGED <<runVars, serveVars>>
  BY DEF Connect
<1>4. file' \in [Processes -> {"older", "empty", "part", "unclosed", "whole"}]
      /\ go' \in [Processes -> {"none", "starting", "bound", "serving", "ended"}]
  BY <1>1, <1>3 DEF OracleTypeOK, runVars, serveVars
<1>. QED
  BY <1>1, <1>2, <1>3, <1>4, GoesOnSoundly DEF runVars, serveVars, Through

LEMMA FailsIsSound ==
    ASSUME OracleInv, NEW p \in Processes, Fails(p)
    PROVE  OracleInv'
BY ExitsSoundly DEF Fails, OracleInv, OracleTypeOK, FailsEarly

\* A file is gone through only when it is applied.
LEMMA NextFileIsSound ==
    ASSUME OracleInv, NEW p \in Processes, main[p] \in {"migrate", "create"}, at[p] <= Files,
           NextFile(p), applied' = applied \cup {at[p]},
           main' = [main EXCEPT ![p] = "migrate"],
           UNCHANGED <<code, cut, job, cfg, stored, file, late, serveVars>>
    PROVE  OracleInv'
<1>1. OracleTypeOK /\ Sound(p) /\ late' \subseteq LeftToServe
  BY DEF OracleInv, FailsEarly
<1>2. at[p] \in 1..Files /\ Files \in Nat
  BY <1>1, OracleAssumption DEF OracleTypeOK
<1>3. at' \in [Processes -> 1..(Files + 1)] /\ at'[p] = at[p] + 1
      /\ \A q \in Processes \ {p} : at'[q] = at[q]
  BY <1>1, <1>2 DEF NextFile, OracleTypeOK
<1>4. main' \in [Processes -> {"exited", "load", "connect", "migrate", "create", "query", "report",
                             "open", "write", "fetch", "insert", "serve", "select", "drain"}]
      /\ main'[p] = "migrate" /\ \A q \in Processes \ {p} : main'[q] = main[q]
  BY <1>1 DEF OracleTypeOK
<1>5. \A q \in Processes : cfg'[q] = NoConfig <=> main'[q] \in {"exited", "load"}
  BY <1>1, <1>4 DEF OracleTypeOK
<1>6. applied' \subseteq 1..Files
  BY <1>1, <1>2 DEF OracleTypeOK
<1>7. OracleTypeOK'
  BY <1>1, <1>3, <1>4, <1>5, <1>6 DEF OracleTypeOK, serveVars
<1>8. \A q \in Processes \ {p} : LeftAlone(q)
  BY <1>3, <1>4 DEF LeftAlone, serveVars
<1>9. 1..(at'[p] - 1) \subseteq applied'
  <2>1. \A k \in 1..(at'[p] - 1) : k \in 1..(at[p] - 1) \/ k = at[p]
    BY <1>2, <1>3
  <2>. QED
    BY <1>1, <2>1 DEF Sound, Migrated
<1>10. Migrated(p)' /\ Settled(p)' /\ OnTask(p)'
  BY <1>1, <1>4, <1>9 DEF Sound, Migrated, Settled, OnTask, Through
<1>11. Unfinished(p)' /\ ClosedWhenTold(p)' /\ Done(p)'
  BY <1>1, <1>4 DEF Sound, Unfinished, ClosedWhenTold, Done, Running, serveVars
<1>. QED
  BY <1>1, <1>7, <1>8, <1>10, <1>11, OneProcess DEF Sound

LEMMA MigrateIsSound ==
    ASSUME OracleInv, NEW p \in Processes, Migrate(p)
    PROVE  OracleInv'
<1>1. OracleTypeOK /\ late \subseteq LeftToServe /\ main[p] = "migrate" /\ at[p] <= Files
  BY DEF OracleInv, FailsEarly, Migrate
<1>2. CASE at[p] \in applied
  <2>1. applied' = applied \cup {at[p]} /\ main' = [main EXCEPT ![p] = "migrate"]
    BY <1>1, <1>2 DEF Migrate, OracleTypeOK
  <2>. QED
    BY <1>1, <1>2, <2>1, NextFileIsSound DEF Migrate
<1>3. CASE at[p] \notin applied
  <2>1. Goto(p, "create") /\ UNCHANGED <<job, cfg, applied, at, stored, file, late, serveVars>>
    BY <1>3 DEF Migrate, Goto
  <2>2. OnTask(p)'
    BY <1>1, <2>1 DEF OnTask, Goto, OracleTypeOK
  <2>3. file' \in [Processes -> {"older", "empty", "part", "unclosed", "whole"}]
        /\ go' \in [Processes -> {"none", "starting", "bound", "serving", "ended"}]
    BY <1>1, <2>1 DEF OracleTypeOK, serveVars
  <2>. QED
    BY <1>1, <2>1, <2>2, <2>3, GoesOnSoundly DEF serveVars, Through
<1>. QED
  BY <1>2, <1>3

LEMMA CreateIsSound ==
    ASSUME OracleInv, NEW p \in Processes, Create(p)
    PROVE  OracleInv'
<1>1. OracleTypeOK /\ late \subseteq LeftToServe /\ main[p] = "create" /\ at[p] <= Files
  BY DEF OracleInv, FailsEarly, Create, Sound, Migrated
<1>2. CASE at[p] \in applied
  BY <1>1, <1>2, ExitsSoundly DEF Create, OracleTypeOK
<1>3. CASE at[p] \notin applied
  BY <1>1, <1>3, NextFileIsSound DEF Create, Goto
<1>. QED
  BY <1>2, <1>3

LEMMA DispatchIsSound ==
    ASSUME OracleInv, NEW p \in Processes, Dispatch(p)
    PROVE  OracleInv'
<1>1. OracleTypeOK /\ late \subseteq LeftToServe /\ main[p] = "migrate" /\ at[p] > Files
  BY DEF OracleInv, FailsEarly, Dispatch
<1>2. ASSUME NEW c \in {1, 2}, Exits(p, c), UNCHANGED <<stored, file, late>>
      PROVE  OracleInv'
  BY <1>1, <1>2, ExitsSoundly DEF OracleTypeOK
<1>3. CASE job[p].flags = "help" /\ Exits(p, 0) /\ UNCHANGED <<stored, file, late>>
  BY <1>1, <1>3, ExitsSoundly DEF OracleTypeOK
<1>4. CASE Goto(p, Entry(job[p].command)) /\ UNCHANGED <<runVars, serveVars>>
           /\ job[p].command # "unknown"
  <2> DEFINE l == Entry(job[p].command)
  <2>1. l \in {"fetch", "serve", "query"} /\ at[p] = Files + 1
    BY <1>1, OracleAssumption DEF Entry, OracleTypeOK
  <2>2. main'[p] = l /\ job' = job
    BY <1>1, <1>4 DEF Goto, OracleTypeOK, runVars
  <2>3. OnTask(p)'
    BY <2>2 DEF OnTask, Entry
  <2>4. file' \in [Processes -> {"older", "empty", "part", "unclosed", "whole"}]
        /\ go' \in [Processes -> {"none", "starting", "bound", "serving", "ended"}]
    BY <1>1, <1>4 DEF OracleTypeOK, runVars, serveVars
  <2> HIDE DEF l
  <2>5. l \in {"migrate", "create"} \cup Through /\ l \notin {"write", "create", "drain"} /\ Goto(p, l)
    BY <1>4, <2>1 DEF Through, l
  <2>. QED
    BY <1>1, <1>4, <2>1, <2>3, <2>4, <2>5, GoesOnSoundly DEF runVars, serveVars
<1>. QED
  BY <1>2, <1>3, <1>4 DEF Dispatch

LEMMA QueryIsSound ==
    ASSUME OracleInv, NEW p \in Processes, Query(p)
    PROVE  OracleInv'
<1>1. OracleTypeOK /\ late \subseteq LeftToServe /\ Sound(p) /\ main[p] = "query"
  BY DEF OracleInv, FailsEarly, Query
<1>2. applied = 1..Files /\ at[p] = Files + 1
  <2>1. at[p] = Files + 1 /\ 1..(at[p] - 1) \subseteq applied /\ applied \subseteq 1..Files
    BY <1>1 DEF Sound, Migrated, Through, OracleTypeOK
  <2>2. at[p] - 1 = Files
    BY <2>1, OracleAssumption
  <2>. QED
    BY <2>1, <2>2
<1>3. late' \subseteq LeftToServe
  BY <1>1, <1>2 DEF Query, Misses
<1>4. job[p].command \notin {"seed", "serve"} /\ stored' = stored /\ file' = file
  BY <1>1 DEF Sound, OnTask, Query
<1>5. CASE job[p].command \notin {"report", "export"}
  BY <1>1, <1>3, <1>4, <1>5, ExitsSoundly DEF Query, OracleTypeOK
<1>6. CASE job[p].command \in {"report", "export"}
  <2> DEFINE l == IF job[p].command = "report" THEN "report" ELSE "open"
  <2>1. Goto(p, l) /\ UNCHANGED <<job, cfg, applied, at, serveVars>>
    BY <1>6 DEF Query
  <2>2. main'[p] = l
    BY <1>1, <2>1 DEF Goto, OracleTypeOK
  <2>3. OnTask(p)'
    BY <1>6, <2>1, <2>2 DEF OnTask
  <2>4. file' \in [Processes -> {"older", "empty", "part", "unclosed", "whole"}]
        /\ go' \in [Processes -> {"none", "starting", "bound", "serving", "ended"}]
    BY <1>1, <1>4, <2>1 DEF OracleTypeOK, serveVars
  <2>5. l \in {"migrate", "create"} \cup Through /\ l \notin {"write", "create", "drain"}
    BY DEF Through
  <2> HIDE DEF l
  <2>. QED
    BY <1>1, <1>2, <1>3, <1>4, <2>1, <2>3, <2>4, <2>5, GoesOnSoundly DEF serveVars
<1>. QED
  BY <1>5, <1>6

\* A process at work has a configuration no factory refuses.
LEMMA SettledIsEnough ==
    ASSUME NEW p \in Processes, Settled(p), main[p] \notin {"exited", "load"}
    PROVE  NewLLM(cfg[p]) # "error" /\ NewCloud(cfg[p]) # "error" /\ NewBilling(cfg[p]) # "error"
<1>1. PICK env \in Environments[p] : cfg[p] = Load(env) /\ Load(env) # Refused
  BY DEF Settled, Loads
<1>. QED
  BY <1>1, LoadIsEnough

LEMMA ReportIsSound ==
    ASSUME OracleInv, NEW p \in Processes, Report(p)
    PROVE  OracleInv'
<1>1. OracleTypeOK /\ late \subseteq LeftToServe /\ Sound(p) /\ main[p] = "report"
  BY DEF OracleInv, FailsEarly, Report
<1>2. job[p].command = "report" /\ file[p] = "older" /\ at[p] = Files + 1
  BY <1>1 DEF Sound, OnTask, Unfinished, Migrated, Through
<1>3. stored' = stored /\ file' = file
  BY DEF Report
<1>4. CASE Exits(p, 0) /\ UNCHANGED late
  BY <1>1, <1>2, <1>3, <1>4, ExitsSoundly DEF OracleTypeOK
<1>5. CASE /\ Misses(p, "llm", NewLLM(cfg[p]) = "error")
           /\ Goto(p, "open")
           /\ UNCHANGED <<job, cfg, applied, at, serveVars>>
  <2>1. late' \subseteq LeftToServe
    BY <1>1, <1>5, SettledIsEnough DEF Misses, Sound
  <2>2. OnTask(p)'
    BY <1>1, <1>2, <1>5 DEF OnTask, Goto, OracleTypeOK
  <2>3. file' \in [Processes -> {"older", "empty", "part", "unclosed", "whole"}]
        /\ go' \in [Processes -> {"none", "starting", "bound", "serving", "ended"}]
    BY <1>1, <1>3, <1>5 DEF OracleTypeOK, serveVars
  <2>. QED
    BY <1>1, <1>2, <1>3, <1>5, <2>1, <2>2, <2>3, GoesOnSoundly DEF serveVars, Through
<1>. QED
  BY <1>4, <1>5 DEF Report

LEMMA OpenIsSound ==
    ASSUME OracleInv, NEW p \in Processes, Open(p)
    PROVE  OracleInv'
<1>1. OracleTypeOK /\ late' \subseteq LeftToServe /\ stored' = stored /\ Sound(p) /\ main[p] = "open"
  BY DEF OracleInv, FailsEarly, Open
<1>2. job[p].command \in {"report", "export"} /\ at[p] = Files + 1
  BY <1>1 DEF Sound, OnTask, Migrated, Through
<1>3. /\ file' \in [Processes -> {"older", "empty", "part", "unclosed", "whole"}]
      /\ \A q \in Processes \ {p} : file'[q] = file[q]
  BY <1>1 DEF OracleTypeOK, Open
<1>4. CASE Exits(p, 1)
  BY <1>1, <1>3, <1>4, ExitsSoundly DEF OracleTypeOK
<1>5. CASE Goto(p, "write") /\ UNCHANGED <<job, cfg, applied, at, serveVars>>
  <2>1. OnTask(p)'
    BY <1>1, <1>2, <1>5 DEF OnTask, Goto, OracleTypeOK
  <2>2. go' \in [Processes -> {"none", "starting", "bound", "serving", "ended"}]
    BY <1>1, <1>5 DEF OracleTypeOK, serveVars
  <2>. QED
    BY <1>1, <1>2, <1>3, <1>5, <2>1, <2>2, GoesOnSoundly DEF serveVars, Through
<1>. QED
  BY <1>4, <1>5 DEF Open

LEMMA WriteIsSound ==
    ASSUME OracleInv, NEW p \in Processes, Write(p)
    PROVE  OracleInv'
<1>1. OracleTypeOK /\ late' \subseteq LeftToServe /\ stored' = stored /\ Sound(p) /\ main[p] = "write"
  BY DEF OracleInv, FailsEarly, Write
<1>2. job[p].command \in {"report", "export"}
  BY <1>1 DEF Sound, OnTask
<1>3. PICK part \in {"whole", "unclosed", "part"} : file' = [file EXCEPT ![p] = part] /\ Exits(p, Written(part))
  BY DEF Write
<1>4. /\ file' \in [Processes -> {"older", "empty", "part", "unclosed", "whole"}]
      /\ \A q \in Processes \ {p} : file'[q] = file[q]
      /\ file'[p] = part
  BY <1>1, <1>3 DEF OracleTypeOK
<1>5. CASE part \in {"whole", "unclosed"}
  BY <1>1, <1>2, <1>3, <1>4, <1>5, ExitsSoundly DEF Written, OracleTypeOK
<1>6. CASE part = "part"
  BY <1>1, <1>3, <1>4, <1>6, ExitsSoundly DEF Written, OracleTypeOK
<1>. QED
  BY <1>5, <1>6

LEMMA FetchIsSound ==
    ASSUME OracleInv, NEW p \in Processes, Fetch(p)
    PROVE  OracleInv'
<1>1. OracleTypeOK /\ late \subseteq LeftToServe /\ stored' = stored /\ file' = file /\ Sound(p) /\ main[p] = "fetch"
  BY DEF OracleInv, FailsEarly, Fetch
<1>2. job[p].command = "seed" /\ at[p] = Files + 1
  BY <1>1 DEF Sound, OnTask, Migrated, Through
<1>3. late' \subseteq LeftToServe
  BY <1>1, SettledIsEnough DEF Fetch, Misses, Sound
<1>4. CASE Exits(p, 1) \/ Exits(p, 2)
  BY <1>1, <1>3, <1>4, ExitsSoundly DEF OracleTypeOK
<1>5. CASE Goto(p, "insert") /\ UNCHANGED <<job, cfg, applied, at, serveVars>>
  <2>1. OnTask(p)'
    BY <1>1, <1>2, <1>5 DEF OnTask, Goto, OracleTypeOK
  <2>2. file' \in [Processes -> {"older", "empty", "part", "unclosed", "whole"}]
        /\ go' \in [Processes -> {"none", "starting", "bound", "serving", "ended"}]
    BY <1>1, <1>5 DEF OracleTypeOK, serveVars
  <2>. QED
    BY <1>1, <1>2, <1>3, <1>5, <2>1, <2>2, GoesOnSoundly DEF serveVars, Through
<1>. QED
  BY <1>4, <1>5 DEF Fetch

LEMMA InsertIsSound ==
    ASSUME OracleInv, NEW p \in Processes, Insert(p)
    PROVE  OracleInv'
<1>1. OracleTypeOK /\ late \subseteq LeftToServe /\ file' = file /\ Sound(p) /\ main[p] = "insert"
  BY DEF OracleInv, FailsEarly, Insert
<1>2. job[p].command = "seed"
  BY <1>1 DEF Sound, OnTask
<1>3. applied = 1..Files
  <2>1. at[p] = Files + 1 /\ 1..(at[p] - 1) \subseteq applied /\ applied \subseteq 1..Files
    BY <1>1 DEF Sound, Migrated, Through, OracleTypeOK
  <2>2. at[p] - 1 = Files
    BY <2>1, OracleAssumption
  <2>. QED
    BY <2>1, <2>2
<1>4. late' \subseteq LeftToServe
  BY <1>1, <1>3 DEF Insert, Misses
<1>5. /\ stored' \in [Processes -> BOOLEAN] /\ stored'[p]
      /\ \A q \in Processes \ {p} : stored'[q] = stored[q]
  BY <1>1 DEF OracleTypeOK, Insert
<1>6. Exits(p, 0) /\ file' \in [Processes -> {"older", "empty", "part", "unclosed", "whole"}]
  BY <1>1 DEF Insert, OracleTypeOK
<1>. QED
  BY <1>1, <1>2, <1>4, <1>5, <1>6, ExitsSoundly

LEMMA ServeIsSound ==
    ASSUME OracleInv, NEW p \in Processes, Serve(p)
    PROVE  OracleInv'
<1>1. OracleTypeOK /\ late \subseteq LeftToServe /\ stored' = stored /\ file' = file /\ Sound(p) /\ main[p] = "serve"
  BY DEF OracleInv, FailsEarly, Serve
<1>2. job[p].command = "serve" /\ at[p] = Files + 1
  BY <1>1 DEF Sound, OnTask, Migrated, Through
<1>3. CASE Exits(p, 1) /\ Misses(p, "key", TRUE)
  <2>1. late' \subseteq LeftToServe
    BY <1>1, <1>2, <1>3 DEF Misses, LeftToServe
  <2>. QED
    BY <1>1, <1>3, <2>1, ExitsSoundly DEF OracleTypeOK
<1>4. CASE /\ Misses(p, "billing", NewBilling(cfg[p]) = "error")
           /\ go' = [go EXCEPT ![p] = "starting"]
           /\ Goto(p, "select")
           /\ UNCHANGED <<job, cfg, applied, at, errCh, stopping, inflight>>
  <2>1. late' \subseteq LeftToServe
    BY <1>1, <1>4, SettledIsEnough DEF Misses, Sound
  <2>2. OnTask(p)'
    BY <1>1, <1>2, <1>4 DEF OnTask, Goto, OracleTypeOK
  <2>3. file' \in [Processes -> {"older", "empty", "part", "unclosed", "whole"}]
        /\ go' \in [Processes -> {"none", "starting", "bound", "serving", "ended"}]
    BY <1>1, <1>4 DEF OracleTypeOK
  <2>. QED
    BY <1>1, <1>2, <1>4, <2>1, <2>2, <2>3, GoesOnSoundly DEF Through
<1>. QED
  BY <1>3, <1>4 DEF Serve

\* The server's goroutine, and a signal, leave main and its code alone.
LEMMA ServerIsSound ==
    ASSUME OracleInv, NEW p \in Processes, OnlyServer,
           go' \in [Processes -> {"none", "starting", "bound", "serving", "ended"}],
           errCh' \in [Processes -> {"empty", "nil", "error"}],
           \A q \in Processes \ {p} : errCh'[q] = errCh[q],
           errCh'[p] \in {errCh[p], "error"} \/ ShuttingDown(p),
           stopping' = stopping,
           inflight' \in [Processes -> SUBSET Requests]
    PROVE  OracleInv'
<1>1. OracleTypeOK /\ late' \subseteq LeftToServe /\ Sound(p)
  BY DEF OracleInv, FailsEarly, OnlyServer, runVars
<1>2. OracleTypeOK'
  BY <1>1 DEF OracleTypeOK, OnlyServer, runVars
<1>3. \A q \in Processes \ {p} : LeftAlone(q)
  BY DEF LeftAlone, OnlyServer, runVars
<1>4. Migrated(p)' /\ Settled(p)' /\ OnTask(p)' /\ Unfinished(p)' /\ Done(p)'
  BY <1>1 DEF Sound, Migrated, Settled, OnTask, Unfinished, Done, OnlyServer, runVars
<1>5. ClosedWhenTold(p)'
  BY <1>1 DEF Sound, ClosedWhenTold, ShuttingDown, OnlyServer, runVars
<1>. QED
  BY <1>1, <1>2, <1>3, <1>4, <1>5, OneProcess DEF Sound, OnlyServer, runVars

LEMMA SendsIsSound ==
    ASSUME OracleInv, NEW p \in Processes, NEW e \in {"nil", "error"}, Sends(p, e),
           e = "nil" => ShuttingDown(p)
    PROVE  OracleInv'
<1>1. OracleTypeOK
  BY DEF OracleInv
<1>. QED
  BY <1>1, ServerIsSound DEF Sends, OracleTypeOK

LEMMA ListenerIsSound ==
    ASSUME OracleInv, NEW p \in Processes, Listen(p) \/ Track(p) \/ Unserve(p)
    PROVE  OracleInv'
<1>1. OracleTypeOK
  BY DEF OracleInv
<1>2. ASSUME NEW e \in {"bound", "serving"}, go' = [go EXCEPT ![p] = e],
             UNCHANGED <<errCh, stopping, inflight>>, OnlyServer
      PROVE  OracleInv'
  BY <1>1, <1>2, ServerIsSound DEF OracleTypeOK
<1>3. CASE Listen(p)
  BY <1>2, <1>3, SendsIsSound DEF Listen
<1>4. CASE Track(p)
  BY <1>2, <1>4, SendsIsSound DEF Track
<1>5. CASE Unserve(p)
  BY <1>5, SendsIsSound DEF Unserve
<1>. QED
  BY <1>3, <1>4, <1>5

LEMMA RequestIsSound ==
    ASSUME OracleInv, NEW p \in Processes, NEW r \in Requests, Accept(p, r) \/ Answer(p, r)
    PROVE  OracleInv'
<1>1. OracleTypeOK
  BY DEF OracleInv
<1>2. inflight' \in [Processes -> SUBSET Requests] /\ OnlyServer /\ UNCHANGED <<go, errCh, stopping>>
  BY <1>1 DEF OracleTypeOK, Accept, Answer
<1>. QED
  BY <1>1, <1>2, ServerIsSound DEF OracleTypeOK

\* 0 of serve: Shutdown has come to its end, or the channel told of one.
LEMMA StopsIsSound ==
    ASSUME OracleInv, NEW p \in Processes, Stops(p)
    PROVE  OracleInv'
<1>1. OracleTypeOK /\ late \subseteq LeftToServe /\ Sound(p)
  BY DEF OracleInv, FailsEarly
<1>2. CASE SelectError(p)
  <2>1. errCh[p] = "error" /\ Exits(p, 1)
    BY <1>1, <1>2 DEF SelectError, Sound, ClosedWhenTold, OracleTypeOK
  <2>. QED
    BY <1>1, <1>2, <2>1, ExitsSoundly DEF SelectError, OracleTypeOK
<1>3. CASE SelectDone(p)
  <2>1. main[p] = "select" /\ stopping[p] /\ Goto(p, "drain") /\ UNCHANGED <<runVars, serveVars>>
    BY <1>3 DEF SelectDone, Shutdown
  <2>2. job[p].command = "serve" /\ at[p] = Files + 1
    BY <1>1, <2>1 DEF Sound, OnTask, Migrated, Through
  <2>3. OnTask(p)'
    BY <1>1, <2>1, <2>2 DEF OnTask, Goto, OracleTypeOK, runVars
  <2>4. file' \in [Processes -> {"older", "empty", "part", "unclosed", "whole"}]
        /\ go' \in [Processes -> {"none", "starting", "bound", "serving", "ended"}]
    BY <1>1, <2>1 DEF OracleTypeOK, runVars, serveVars
  <2>. QED
    BY <1>1, <2>1, <2>2, <2>3, <2>4, GoesOnSoundly DEF runVars, serveVars, Through
<1>4. CASE Drained(p)
  <2>1. job[p].command = "serve" /\ stopping[p]
    BY <1>1, <1>4 DEF Drained, Sound, OnTask, ClosedWhenTold
  <2>. QED
    BY <1>1, <1>4, <2>1, ExitsSoundly DEF Drained, OracleTypeOK
<1>5. CASE DrainTimeout(p)
  BY <1>1, <1>5, ExitsSoundly DEF DrainTimeout, Expires, OracleTypeOK
<1>. QED
  BY <1>2, <1>3, <1>4, <1>5 DEF Stops

LEMMA SignalIsSound ==
    ASSUME OracleInv, NEW p \in Processes, Signal(p)
    PROVE  OracleInv'
<1>1. OracleTypeOK /\ late \subseteq LeftToServe /\ Sound(p)
  BY DEF OracleInv, FailsEarly
<1>2. CASE main[p] \notin {"select", "drain"}
  BY <1>1, <1>2, ExitsSoundly DEF Signal, OracleTypeOK, Killed
<1>3. CASE main[p] \in {"select", "drain"}
  <2>1. /\ stopping' = [stopping EXCEPT ![p] = TRUE]
        /\ UNCHANGED <<main, code, cut, runVars, go, errCh, inflight>>
    BY <1>3 DEF Signal
  <2>2. OracleTypeOK'
    BY <1>1, <2>1 DEF OracleTypeOK, runVars
  <2>3. \A q \in Processes \ {p} : LeftAlone(q)
    BY <1>1, <2>1 DEF LeftAlone, OracleTypeOK, runVars
  <2>4. stopping'[p]
    BY <1>1, <2>1 DEF OracleTypeOK
  <2>5. Migrated(p)' /\ Settled(p)' /\ OnTask(p)' /\ Unfinished(p)' /\ ClosedWhenTold(p)'
    BY <1>1, <2>1, <2>4
    DEF Sound, Migrated, Settled, OnTask, Unfinished, ClosedWhenTold, runVars
  <2>6. code[p] = Running /\ Done(p)'
    BY <1>1, <1>3, <2>1 DEF Sound, Unfinished, Done, Running
  <2>. QED
    BY <1>1, <2>1, <2>2, <2>3, <2>5, <2>6, OneProcess DEF Sound, runVars
<1>. QED
  BY <1>2, <1>3

LEMMA DiesIsSound ==
    ASSUME OracleInv, NEW p \in Processes, Dies(p)
    PROVE  OracleInv'
BY ExitsSoundly DEF Dies, OracleInv, OracleTypeOK, FailsEarly, Killed

-----------------------------------------------------------------------------
LEMMA OracleInitInv == OracleInit => OracleInv
<1> SUFFICES ASSUME OracleInit PROVE OracleInv
  OBVIOUS
<1>1. [command |-> "list", flags |-> "good"] \in Jobs
  BY DEF Jobs, Commands, FlagKinds
<1>2. job \in [Processes -> Jobs]
  BY <1>1 DEF OracleInit
<1>3. OracleTypeOK
  BY <1>2, OracleAssumption DEF OracleInit, OracleTypeOK
<1>4. \A p \in Processes : Sound(p)
  BY DEF OracleInit, Sound, Migrated, Settled, OnTask, Unfinished, ClosedWhenTold, Done, Through, Running
<1>. QED
  BY <1>3, <1>4 DEF OracleInv, FailsEarly, OracleInit

LEMMA OracleNextInv == OracleInv /\ [OracleNext]_oracleVars => OracleInv'
<1> SUFFICES ASSUME OracleInv, [OracleNext]_oracleVars PROVE OracleInv'
  OBVIOUS
<1>1. CASE UNCHANGED oracleVars
  <2>1. OracleTypeOK' /\ FailsEarly'
    BY <1>1 DEF OracleInv, OracleTypeOK, FailsEarly, oracleVars, runVars, serveVars
  <2>2. ASSUME NEW q \in Processes PROVE Sound(q)'
    BY <1>1, LeftAloneIsSound DEF OracleInv, LeftAlone, oracleVars, runVars, serveVars
  <2>. QED
    BY <2>1, <2>2 DEF OracleInv
<1>2. ASSUME NEW p \in Processes, NEW j \in Lines[p], Start(p, j) PROVE OracleInv'
  BY <1>2, StartIsSound, LinesAssumption
<1>3. ASSUME NEW p \in Processes, Startup(p) PROVE OracleInv'
  BY <1>3, LoadConfigIsSound, ConnectIsSound, MigrateIsSound, CreateIsSound, DispatchIsSound DEF Startup
<1>4. ASSUME NEW p \in Processes, Command(p) PROVE OracleInv'
  BY <1>4, QueryIsSound, ReportIsSound, OpenIsSound, WriteIsSound, FetchIsSound, InsertIsSound,
     ServeIsSound DEF Command
<1>5. ASSUME NEW p \in Processes, Listen(p) \/ Track(p) \/ Unserve(p) PROVE OracleInv'
  BY <1>5, ListenerIsSound
<1>6. ASSUME NEW p \in Processes, NEW r \in Requests, Accept(p, r) \/ Answer(p, r) PROVE OracleInv'
  BY <1>6, RequestIsSound
<1>. QED
  BY <1>1, <1>2, <1>3, <1>4, <1>5, <1>6, StopsIsSound, FailsIsSound, SignalIsSound, DiesIsSound
  DEF OracleNext

THEOREM OracleInvariance == OracleSpec => []OracleInv
BY OracleInitInv, OracleNextInv, PTL DEF OracleSpec

\* The types of the oracle's processes, whatever is started, told or killed.
THEOREM OracleTypes == OracleSpec => []OracleTypeOK
<1>1. OracleInv => OracleTypeOK
  BY DEF OracleInv
<1>. QED
  BY <1>1, OracleInvariance, PTL

\* An exit code of 0 means that the command did what it is for, up to the close
\* of its file, which nobody looks at.
THEOREM ZeroIsDone == OracleSpec => []ZeroMeansDone
<1>1. OracleInv => ZeroMeansDone
  BY DEF OracleInv, Sound, Done, ZeroMeansDone
<1>. QED
  BY <1>1, OracleInvariance, PTL

\* What is wrong with the environment or the schema is told at the start; serve
\* alone looks for something, its API key, later.
THEOREM NothingIsMissedLate == OracleSpec => []FailsEarly
<1>1. OracleInv => FailsEarly
  BY DEF OracleInv
<1>. QED
  BY <1>1, OracleInvariance, PTL

-----------------------------------------------------------------------------
(***************************************************************************)
(* pr-check's comment upsert.                                              *)
(***************************************************************************)
USE UpsertAssumption DEF UpsertAssumption

\* Listed comments are no newer than the clock.
Listed == \A r \in Runs : \A m \in matches[r] : m.updated <= clock
Dated  == \A i \in DOMAIN thread : thread[i].updated <= clock

-----------------------------------------------------------------------------
\* The places of a thread and what they hold.
LEMMA ThreadType ==
    ASSUME thread \in Seq(Comments)
    PROVE  /\ Len(thread) \in Nat /\ DOMAIN thread = 1..Len(thread)
           /\ \A i \in DOMAIN thread :
                 /\ thread[i] \in Comments
                 /\ thread[i].id \in Nat /\ thread[i].updated \in Nat
                 /\ thread[i].marked \in BOOLEAN
<1>1. \A i \in DOMAIN thread : thread[i] \in Comments
  OBVIOUS
<1>2. \A c \in Comments : c.id \in Nat /\ c.updated \in Nat /\ c.marked \in BOOLEAN
  BY DEF Comments
<1>. QED
  BY <1>1, <1>2

\* A run that ends has an exit code.
LEMMA ExitType ==
    ASSUME TypeOK, NEW r \in Runs, NEW c \in {0, 1, 2, 3, 4}, Exit(r, c)
    PROVE  /\ pc' \in [Runs -> {"plan", "help", "output", "flags", "list", "update", "post", "done"}]
           /\ exit' \in [Runs -> {0, 1, 2, 3, 4, Pending}]
BY DEF Exit, TypeOK, Pending

\* pickMostRecentMatch returns one of the matches.
LEMMA PickIsMatch ==
    ASSUME NEW S \in SUBSET Comments, S # {}, NEW n \in Nat, \A m \in S : m.updated <= n
    PROVE  /\ PickMostRecent(S) \in S
           /\ \A x \in S : x.updated <= PickMostRecent(S).updated
<1> DEFINE Dates == {m.updated : m \in S}
<1>1. Dates \in SUBSET Nat /\ Dates # {} /\ \A d \in Dates : d <= n
  BY DEF Comments
<1>2. PICK d \in Dates : \A y \in Dates : d >= y
  BY <1>1, GreatestOfBounded
<1> DEFINE Ids == {m.id : m \in {x \in S : x.updated = d}}
<1>3. Ids \in SUBSET Nat /\ Ids # {}
  BY <1>2 DEF Comments
<1>4. PICK k \in Ids : \A y \in Ids : k <= y
  BY <1>3, LeastOfNaturals
<1>5. PICK m \in S : m.updated = d /\ m.id = k
  BY <1>4
<1>6. ASSUME NEW x \in S
      PROVE  m.updated > x.updated \/ (m.updated = x.updated /\ m.id <= x.id)
  <2>1. x.updated <= d /\ x.updated \in Nat /\ d \in Nat
    BY <1>2, <1>1 DEF Comments
  <2>2. x.updated = d => k <= x.id
    BY <1>4
  <2>. QED
    BY <2>1, <2>2, <1>5
<1>7. \E w \in S : \A x \in S :
          w.updated > x.updated \/ (w.updated = x.updated /\ w.id <= x.id)
  BY <1>5, <1>6
<1>8. /\ PickMostRecent(S) \in S
      /\ \A x \in S : \/ PickMostRecent(S).updated > x.updated
                      \/ PickMostRecent(S).updated = x.updated
  BY <1>7 DEF PickMostRecent
<1>. QED
  BY <1>8 DEF Comments

\* What List finds on a page are comments of the thread.
LEMMA FoundOnPage ==
    ASSUME TypeOK, Dated, Listed, NEW r \in Runs
    PROVE  /\ matches[r] \cup MatchesOn(page[r]) \in SUBSET Comments
           /\ \A m \in matches[r] \cup MatchesOn(page[r]) : m.updated <= clock
<1>1. \A i \in Batch(page[r]) : i \in DOMAIN thread
  BY DEF Batch
<1>2. \A i \in DOMAIN thread : thread[i] \in Comments
  BY DEF TypeOK
<1>. QED
  BY <1>1, <1>2 DEF MatchesOn, TypeOK, Dated, Listed

-----------------------------------------------------------------------------
TypeInv == TypeOK /\ Dated /\ Listed

\* What runs have met are ids.
LEMMA EverType ==
    ASSUME TypeOK, NEW t \in Seq(Comments)
    PROVE  Ever(t) \in [Runs -> SUBSET Nat]
<1>1. \A i \in DOMAIN t : t[i] \in Comments
  OBVIOUS
<1>2. \A c \in Comments : c.id \in Nat
  BY DEF Comments
<1>3. Marked(t) \in SUBSET Nat
  BY <1>1, <1>2 DEF Marked
<1>. QED
  BY <1>3 DEF Ever, TypeOK

\* A comment that is rewritten keeps its id and its place.
RewrittenAt(places, text, i) ==
    /\ thread'[i].id = thread[i].id
    /\ thread'[i].updated \in {clock', thread[i].updated}
    /\ thread'[i] = thread[i] \/ (i \in places /\ thread'[i].text = text)

LEMMA RewritePlaces ==
    ASSUME NEW places, NEW text, NEW marked, Rewrite(places, text, marked)
    PROVE  DOMAIN thread' = DOMAIN thread /\ \A i \in DOMAIN thread : RewrittenAt(places, text, i)
BY DEF Rewrite, RewrittenAt, Comment

LEMMA RewriteType ==
    ASSUME TypeInv, NEW places, NEW text \in Runs \cup {"people"}, NEW marked \in BOOLEAN,
           Rewrite(places, text, marked)
    PROVE  /\ thread' \in Seq(Comments) /\ clock' \in Nat /\ clock <= clock' /\ Dated' /\ Listed'
           /\ steady' \in [Runs -> SUBSET Nat] /\ carried' \in [Runs -> SUBSET Nat]
<1> USE DEF TypeInv
<1>1. /\ clock' \in Nat /\ clock <= clock' /\ DOMAIN thread = 1..Len(thread)
      /\ \A i \in DOMAIN thread : thread[i] \in Comments
  BY DEF Rewrite, Tick, TypeOK
<1>2. \A i \in DOMAIN thread : Comment(thread[i].id, thread[i].by, text, marked, clock') \in Comments
  BY <1>1 DEF Comments, Comment
<1>3. thread' \in Seq(Comments) /\ DOMAIN thread' = DOMAIN thread
  BY <1>1, <1>2 DEF Rewrite, TypeOK
<1>5. Dated'
  <2>1. \A i \in DOMAIN thread : thread[i].updated \in Nat
    BY ThreadType DEF TypeOK
  <2>2. ASSUME NEW i \in DOMAIN thread PROVE thread'[i].updated <= clock'
    <3>1. thread[i].updated <= clock /\ thread[i].updated \in Nat /\ clock \in Nat
      BY <2>1 DEF Dated, TypeOK
    <3>2. thread'[i].updated = clock' \/ thread'[i].updated = thread[i].updated
      BY RewritePlaces DEF RewrittenAt
    <3>. QED
      BY <1>1, <3>1, <3>2
  <2>. QED
    BY <1>3, <2>2 DEF Dated
<1>6. Listed'
  BY <1>1 DEF Rewrite, Listed, run, TypeOK, Comments
<1>7. steady' \in [Runs -> SUBSET Nat]
  BY DEF Rewrite, Rest, TypeOK
<1>8. carried' = Ever(thread')
  BY DEF Rewrite
<1>9. carried' \in [Runs -> SUBSET Nat]
  BY <1>3, <1>8, EverType
<1>. QED
  BY <1>1, <1>3, <1>5, <1>6, <1>7, <1>9

LEMMA TypeInit == Init => TypeInv
<1> SUFFICES ASSUME Init PROVE TypeInv
  OBVIOUS
<1>1. NoComment \in Comments /\ NoComment.updated = 0
  BY DEF NoComment, Comment, Comments
<1>2. PICK n \in 0..MaxId, quotes \in SUBSET (1..MaxId) :
          /\ created = n
          /\ thread = [i \in 1..n |-> Comment(i, "people", "people", i \in quotes, 0)]
  BY DEF Init
<1>3. \A i \in 1..n : Comment(i, "people", "people", i \in quotes, 0) \in Comments
  BY DEF NoComment, Comment, Comments
<1>4. thread \in Seq(Comments)
  BY <1>2, <1>3
<1>5. Dated
  BY <1>2 DEF Init, Dated, Comment
<1>. QED
  BY <1>1, <1>2, <1>4, <1>5 DEF Init, TypeInv, TypeOK, Listed, Pending

LEMMA TypeStep == TypeInv /\ [Next]_vars => TypeInv'
<1> SUFFICES ASSUME TypeInv, [Next]_vars PROVE TypeInv'
  OBVIOUS
<1> USE DEF TypeInv
<1>1. ASSUME NEW r \in Runs, Prepare(r) PROVE TypeInv'
  BY <1>1 DEF Prepare, Exit, TypeOK, Listed, Dated, github, run, watch, Pending
<1>2. ASSUME NEW r \in Runs, Output(r) PROVE TypeInv'
  BY <1>2 DEF Output, Exit, TypeOK, Listed, Dated, github, run, watch, Pending
<1>3. ASSUME NEW r \in Runs, Flags(r) PROVE TypeInv'
  <2>1. Marked(thread) \in SUBSET Nat
    <3>1. \A i \in DOMAIN thread : thread[i].id \in Nat
      BY ThreadType DEF TypeOK
    <3>. QED
      BY <3>1 DEF Marked
  <2>2. /\ pc' \in [Runs -> {"plan", "help", "output", "flags", "list", "update", "post", "done"}]
        /\ exit' \in [Runs -> {0, 1, 2, 3, 4, Pending}]
    BY <1>3, ExitType DEF Flags, TypeOK
  <2>3. /\ steady' \in [Runs -> SUBSET Nat] /\ carried' \in [Runs -> SUBSET Nat]
        /\ since' \in [Runs -> Nat] /\ shifted' \in [Runs -> BOOLEAN]
    <3>1. CASE UNCHANGED watch
      BY <3>1 DEF TypeOK, watch
    <3>2. CASE /\ steady' = [steady EXCEPT ![r] = Marked(thread)]
               /\ carried' = [carried EXCEPT ![r] = Marked(thread)]
               /\ since' = [since EXCEPT ![r] = clock]
               /\ shifted' = [shifted EXCEPT ![r] = FALSE]
      BY <2>1, <3>2 DEF TypeOK
    <3>. QED
      BY <1>3, <3>1, <3>2 DEF Flags
  <2>. QED
    BY <1>3, <2>2, <2>3 DEF Flags, TypeOK, Listed, Dated, github, run
<1>4. ASSUME NEW r \in Runs, List(r) PROVE TypeInv'
  <2> DEFINE found == matches[r] \cup MatchesOn(page[r])
  <2>1. found \in SUBSET Comments /\ \A m \in found : m.updated <= clock
    BY FoundOnPage
  <2>2. found # {} => PickMostRecent(found) \in Comments
    BY <2>1, PickIsMatch DEF TypeOK
  <2>3. matches' = [matches EXCEPT ![r] = found] /\ UNCHANGED <<github, output, exit, wrote, watch>>
    BY <1>4 DEF List
  <2>4. /\ page' = [page EXCEPT ![r] = page[r] + 1] \/ page' = page
        /\ \/ pc' = pc /\ target' = target
           \/ pc' = [pc EXCEPT ![r] = "post"] /\ target' = target
           \/ /\ pc' = [pc EXCEPT ![r] = "update"] /\ found # {}
              /\ target' = [target EXCEPT ![r] = PickMostRecent(found)]
    BY <1>4 DEF List
  <2>5. page[r] + 1 \in Nat
    BY DEF TypeOK
  <2> HIDE DEF found
  <2>6. pc' \in [Runs -> {"plan", "help", "output", "flags", "list", "update", "post", "done"}]
    BY <2>4 DEF TypeOK
  <2>7. page' \in [Runs -> Nat]
    BY <2>4, <2>5 DEF TypeOK
  <2>8. target' \in [Runs -> Comments]
    BY <2>4, <2>2 DEF TypeOK
  <2>9. matches' \in [Runs -> SUBSET Comments]
    BY <2>3, <2>1 DEF TypeOK
  <2>10. Listed'
    BY <2>3, <2>1 DEF TypeOK, Listed, github
  <2>. QED
    BY <2>3, <2>6, <2>7, <2>8, <2>9, <2>10 DEF TypeOK, Dated, github, watch
<1>5. ASSUME NEW r \in Runs, Fail(r) PROVE TypeInv'
  BY <1>5 DEF Fail, GithubErr, Exit, TypeOK, Listed, Dated, github, run, watch, Pending
<1>6. ASSUME NEW r \in Runs, Missing(r) PROVE TypeInv'
  BY <1>6 DEF Missing, GithubErr, Exit, TypeOK, Listed, Dated, github, run, watch, Pending
<1>7. ASSUME NEW r \in Runs, Post(r) PROVE TypeInv'
  <2> DEFINE c == Comment(created', "bot", r, Carries(r), clock')
  <2>1. /\ thread' = Append(thread, c) /\ created' = created + 1
        /\ clock' \in Nat /\ clock <= clock'
    BY <1>7 DEF Post, Tick, TypeOK
  <2>2. c \in Comments /\ c.updated = clock'
    BY <2>1 DEF Comments, Comment, Carries, TypeOK
  <2>3. thread' \in Seq(Comments)
    BY <2>1, <2>2 DEF TypeOK
  <2>4. Dated'
    <3>1. \A i \in DOMAIN thread : thread[i].updated \in Nat
      BY ThreadType DEF TypeOK
    <3>2. ASSUME NEW i \in DOMAIN thread' PROVE thread'[i] = c \/ (i \in DOMAIN thread /\ thread'[i] = thread[i])
      BY <2>1 DEF TypeOK
    <3> HIDE DEF c
    <3>. QED
      BY <2>1, <2>2, <3>1, <3>2 DEF Dated, TypeOK
  <2>5. Listed'
    BY <1>7, <2>1 DEF Post, Listed, run, TypeOK, Comments
  <2>6. /\ pc' \in [Runs -> {"plan", "help", "output", "flags", "list", "update", "post", "done"}]
        /\ exit' \in [Runs -> {0, 1, 2, 3, 4, Pending}]
    BY <1>7, ExitType DEF Post, Answered, GithubErr
  <2>7. created' \in Nat /\ wrote' \subseteq Runs /\ carried' = Ever(thread')
    BY <1>7 DEF Post, TypeOK
  <2>8. carried' \in [Runs -> SUBSET Nat]
    BY <2>3, <2>7, EverType
  <2> HIDE DEF c
  <2>. QED
    BY <1>7, <2>1, <2>3, <2>4, <2>5, <2>6, <2>7, <2>8 DEF Post, TypeOK, run
<1>8. ASSUME NEW r \in Runs, Update(r) PROVE TypeInv'
  <2>1. Rewrite(Hit(r), r, Carries(r)) /\ Carries(r) \in BOOLEAN
    BY <1>8 DEF Update, Carries
  <2>2. /\ pc' \in [Runs -> {"plan", "help", "output", "flags", "list", "update", "post", "done"}]
        /\ exit' \in [Runs -> {0, 1, 2, 3, 4, Pending}]
    BY <1>8, ExitType DEF Update, Answered, GithubErr
  <2>3. /\ thread' \in Seq(Comments) /\ clock' \in Nat /\ Dated' /\ Listed'
        /\ steady' \in [Runs -> SUBSET Nat] /\ carried' \in [Runs -> SUBSET Nat]
    BY <2>1, RewriteType
  <2>. QED
    BY <1>8, <2>1, <2>2, <2>3 DEF Update, Rewrite, TypeOK, run
<1>12. ASSUME Edit PROVE TypeInv'
  <2>1. PICK k \in DOMAIN thread, marked \in BOOLEAN : Rewrite({k}, "people", marked)
    BY <1>12 DEF Edit
  <2>2. /\ thread' \in Seq(Comments) /\ clock' \in Nat /\ Dated' /\ Listed'
        /\ steady' \in [Runs -> SUBSET Nat] /\ carried' \in [Runs -> SUBSET Nat]
    BY <2>1, RewriteType
  <2>. QED
    BY <1>12, <2>1, <2>2 DEF Edit, Rewrite, TypeOK, run
<1>9. ASSUME Say PROVE TypeInv'
  <2>1. PICK quote \in BOOLEAN :
          thread' = Append(thread, Comment(created', "people", "people", quote, clock'))
    BY <1>9 DEF Say
  <2> DEFINE c == Comment(created', "people", "people", quote, clock')
  <2>2. created' = created + 1 /\ clock' \in Nat /\ clock <= clock'
    BY <1>9 DEF Say, Tick, TypeOK
  <2>3. c \in Comments /\ c.updated = clock'
    BY <2>2 DEF Comments, Comment, TypeOK
  <2>4. thread' \in Seq(Comments)
    BY <2>1, <2>3 DEF TypeOK
  <2>5. Dated'
    <3>1. \A i \in DOMAIN thread : thread[i].updated \in Nat
      BY ThreadType DEF TypeOK
    <3>2. ASSUME NEW i \in DOMAIN thread' PROVE thread'[i] = c \/ (i \in DOMAIN thread /\ thread'[i] = thread[i])
      BY <2>1 DEF TypeOK
    <3> HIDE DEF c
    <3>3. ASSUME NEW i \in DOMAIN thread' PROVE thread'[i].updated <= clock'
      <4>1. CASE thread'[i] = c
        BY <2>2, <2>3, <4>1
      <4>2. CASE i \in DOMAIN thread /\ thread'[i] = thread[i]
        <5>1. thread[i].updated <= clock /\ thread[i].updated \in Nat /\ clock \in Nat
          BY <3>1, <4>2 DEF Dated, TypeOK
        <5>. QED
          BY <2>2, <4>2, <5>1
      <4>. QED
        BY <3>2, <4>1, <4>2
    <3>. QED
      BY <3>3 DEF Dated
  <2>6. Listed'
    BY <1>9, <2>2 DEF Say, Listed, run, TypeOK, Comments
  <2>7. carried' \in [Runs -> SUBSET Nat]
    BY <1>9, <2>4, EverType DEF Say
  <2> HIDE DEF c
  <2>. QED
    BY <1>9, <2>2, <2>4, <2>5, <2>6, <2>7 DEF Say, TypeOK, run
<1>10. ASSUME Delete PROVE TypeInv'
  <2>1. PICK k \in DOMAIN thread : thread' = Without(k)
    BY <1>10 DEF Delete
  <2>2. Len(thread) \in Nat /\ k \in 1..Len(thread) /\ \A i \in 1..Len(thread) : thread[i] \in Comments
    BY DEF TypeOK
  <2>3. thread' \in Seq(Comments) /\ DOMAIN thread' = 1..(Len(thread) - 1)
    BY <2>1, <2>2 DEF Without
  <2>4. Dated'
    BY <1>10, <2>1, <2>2, <2>3 DEF Delete, Dated, Without
  <2>5. steady' \in [Runs -> SUBSET Nat] /\ shifted' \in [Runs -> BOOLEAN]
    BY <1>10 DEF Delete, Rest, TypeOK
  <2>. QED
    BY <1>10, <2>3, <2>4, <2>5 DEF Delete, TypeOK, Listed, run
<1>11. ASSUME UNCHANGED vars PROVE TypeInv'
  BY <1>11 DEF vars, github, watch, run, TypeOK, Listed, Dated
<1>. QED
  BY <1>1, <1>2, <1>3, <1>4, <1>5, <1>6, <1>7, <1>8, <1>9, <1>10, <1>11, <1>12 DEF Next, Step

\* Every reachable state has the types.
THEOREM TypeCorrect == Spec => []TypeOK
<1>1. TypeInv => TypeOK
  BY DEF TypeInv
<1>. QED
  BY TypeInit, TypeStep, <1>1, PTL DEF Spec

-----------------------------------------------------------------------------
\* The exit codes.  What a run has done so far follows from where it is.
RunInv ==
    \A r \in Runs :
        /\ exit[r] # Pending <=> pc[r] \in {"help", "done"}
        /\ pc[r] \in {"plan", "help", "output"} => r \notin output
        /\ pc[r] \in {"flags", "list", "update", "post"} => r \in output
        /\ pc[r] # "done" => r \notin wrote
        /\ pc[r] \in {"plan", "help", "output", "flags"} =>
              target[r] = NoComment /\ matches[r] = {} /\ page[r] = 1

LEMMA RunInit == Init => RunInv /\ ExitTells
BY DEF Init, RunInv, ExitTells, Pending

LEMMA RunStep == TypeOK /\ RunInv /\ ExitTells /\ [Next]_vars => (RunInv /\ ExitTells)'
<1> SUFFICES ASSUME TypeOK, RunInv, ExitTells, [Next]_vars PROVE (RunInv /\ ExitTells)'
  OBVIOUS
<1> USE DEF RunInv, ExitTells, TypeOK, Pending, Exit
<1>1. ASSUME NEW r \in Runs, Prepare(r) PROVE (RunInv /\ ExitTells)'
  BY <1>1 DEF Prepare, run
<1>2. ASSUME NEW r \in Runs, Output(r) PROVE (RunInv /\ ExitTells)'
  BY <1>2 DEF Output, run
<1>3. ASSUME NEW r \in Runs, Flags(r) PROVE (RunInv /\ ExitTells)'
  BY <1>3 DEF Flags, run
<1>4. ASSUME NEW r \in Runs, List(r) PROVE (RunInv /\ ExitTells)'
  <2>1. /\ UNCHANGED <<exit, output, wrote>> /\ pc[r] = "list"
        /\ pc' = pc \/ pc' = [pc EXCEPT ![r] = "post"] \/ pc' = [pc EXCEPT ![r] = "update"]
    BY <1>4 DEF List
  <2>2. \A q \in Runs \ {r} : matches'[q] = matches[q] /\ page'[q] = page[q] /\ target'[q] = target[q]
    BY <1>4 DEF List
  <2>. QED
    BY <2>1, <2>2
<1>5. ASSUME NEW r \in Runs, Fail(r) PROVE (RunInv /\ ExitTells)'
  BY <1>5 DEF Fail, GithubErr, run
<1>6. ASSUME NEW r \in Runs, Missing(r) PROVE (RunInv /\ ExitTells)'
  BY <1>6 DEF Missing, GithubErr, run
<1>7. ASSUME NEW r \in Runs, Post(r) PROVE (RunInv /\ ExitTells)'
  BY <1>7 DEF Post, Answered, GithubErr, run
<1>8. ASSUME NEW r \in Runs, Update(r) PROVE (RunInv /\ ExitTells)'
  BY <1>8 DEF Update, Rewrite, Answered, GithubErr, run
<1>9. ASSUME Say \/ Edit \/ Delete \/ UNCHANGED vars PROVE (RunInv /\ ExitTells)'
  BY <1>9 DEF Say, Edit, Rewrite, Delete, vars, run
<1>. QED
  BY <1>1, <1>2, <1>3, <1>4, <1>5, <1>6, <1>7, <1>8, <1>9 DEF Next, Step

\* The exit code tells what the run has done.
THEOREM ExitCodesTell == Spec => []ExitTells
<1>1. Init => TypeInv /\ RunInv /\ ExitTells
  BY TypeInit, RunInit
<1>2. TypeInv /\ RunInv /\ ExitTells /\ [Next]_vars => (TypeInv /\ RunInv /\ ExitTells)'
  <2>1. TypeInv => TypeOK
    BY DEF TypeInv
  <2>. QED
    BY <2>1, TypeStep, RunStep
<1>. QED
  BY <1>1, <1>2, PTL DEF Spec

-----------------------------------------------------------------------------
\* The search.  Ids are unique and never reused; a mark a run relies on is
\* there; and as long as nothing is deleted and no match was found, the pages
\* read so far held no comment that carried the marker all the while.
IdsUnique ==
    /\ \A i \in DOMAIN thread : thread[i].id <= created
    /\ \A i, j \in DOMAIN thread : thread[i].id = thread[j].id => i = j

SteadyMarked ==
    \A r \in Runs :
        /\ \A x \in steady[r] : x <= created
        /\ \A i \in DOMAIN thread : thread[i].id \in steady[r] => thread[i].marked

PagesRead ==
    \A r \in Runs :
        /\ pc[r] \in {"plan", "output", "flags"} => page[r] = 1 /\ matches[r] = {}
        /\ pc[r] = "list" => page[r] \in 1..MaxPages
        /\ (pc[r] = "list" /\ ~ shifted[r] /\ matches[r] = {}) =>
              \A i \in DOMAIN thread : thread[i].id \in steady[r] => i > (page[r] - 1) * PerPage

SearchInv == IdsUnique /\ SteadyMarked /\ PagesRead /\ PostsOnlyIfNone

\* A step may keep the thread, or add a comment at its end.
Keeps == thread' = thread /\ created' = created
Grows == /\ created' = created + 1
         /\ DOMAIN thread' = 1..(Len(thread) + 1)
         /\ \A i \in DOMAIN thread : thread'[i] = thread[i]
         /\ thread'[Len(thread) + 1].id = created + 1

LEMMA SearchInit == Init => SearchInv
<1> SUFFICES ASSUME Init PROVE SearchInv
  OBVIOUS
<1>1. PICK n \in 0..MaxId, quotes \in SUBSET (1..MaxId) :
          /\ created = n
          /\ thread = [i \in 1..n |-> Comment(i, "people", "people", i \in quotes, 0)]
  BY DEF Init
<1>2. \A i \in DOMAIN thread : thread[i].id = i /\ i <= created
  BY <1>1 DEF Comment
<1>. QED
  BY <1>2 DEF Init, SearchInv, IdsUnique, SteadyMarked, PagesRead, PostsOnlyIfNone

\* Appending a comment adds one with a new id and moves nothing.
LEMMA AppendGrows ==
    ASSUME TypeOK, NEW c, c.id = created', created' = created + 1, thread' = Append(thread, c)
    PROVE  Grows
<1>1. Len(thread) \in Nat /\ DOMAIN thread = 1..Len(thread)
  BY ThreadType DEF TypeOK
<1>. QED
  BY <1>1 DEF Grows, TypeOK

LEMMA IdsGrow ==
    ASSUME TypeOK, IdsUnique, Grows
    PROVE  IdsUnique'
<1>1. /\ Len(thread) \in Nat /\ DOMAIN thread = 1..Len(thread) /\ created \in Nat
      /\ \A i \in DOMAIN thread : thread[i].id \in Nat
  BY ThreadType DEF TypeOK
<1>2. ASSUME NEW i \in DOMAIN thread'
      PROVE  \/ i \in DOMAIN thread /\ thread'[i].id = thread[i].id /\ thread[i].id <= created
             \/ i = Len(thread) + 1 /\ thread'[i].id = created + 1
  BY <1>1 DEF Grows, IdsUnique
<1>3. ASSUME NEW i \in DOMAIN thread' PROVE thread'[i].id <= created'
  BY <1>1, <1>2 DEF Grows
<1>4. ASSUME NEW i \in DOMAIN thread', NEW j \in DOMAIN thread', thread'[i].id = thread'[j].id
      PROVE  i = j
  BY <1>1, <1>2, <1>4 DEF IdsUnique
<1>. QED
  BY <1>3, <1>4 DEF IdsUnique

\* A run relies on no comment that came later.
LEMMA SteadyGrows ==
    ASSUME TypeOK, SteadyMarked, Grows, UNCHANGED steady
    PROVE  /\ SteadyMarked'
           /\ \A r \in Runs, i \in DOMAIN thread' :
                 thread'[i].id \in steady'[r] => i \in DOMAIN thread /\ thread[i].id \in steady[r]
<1>1. /\ Len(thread) \in Nat /\ DOMAIN thread = 1..Len(thread) /\ created \in Nat
      /\ \A i \in DOMAIN thread : thread[i].id \in Nat
  BY ThreadType DEF TypeOK
<1>2. ASSUME NEW r \in Runs, NEW i \in DOMAIN thread', thread'[i].id \in steady'[r]
      PROVE  i \in DOMAIN thread /\ thread[i].id \in steady[r] /\ thread'[i] = thread[i]
  <2>1. thread'[i].id <= created
    BY <1>2 DEF SteadyMarked
  <2>2. i # Len(thread) + 1
    BY <2>1, <1>1 DEF Grows
  <2>. QED
    BY <1>1, <1>2, <2>2 DEF Grows
<1>3. \A r \in Runs : \A x \in steady'[r] : x <= created'
  <2>1. ASSUME NEW r \in Runs, NEW x \in steady[r] PROVE x <= created + 1
    BY <1>1, <2>1 DEF SteadyMarked, TypeOK
  <2>. QED
    BY <2>1 DEF Grows
<1>. QED
  BY <1>2, <1>3 DEF SteadyMarked

\* Rest leaves only marks that are there, and only earlier ones.
LEMMA RestMarked ==
    ASSUME TypeOK, SteadyMarked, created' = created, steady' = Rest(thread'),
           \A i, j \in DOMAIN thread' : thread'[i].id = thread'[j].id => i = j
    PROVE  SteadyMarked' /\ \A r \in Runs : steady'[r] \subseteq steady[r]
BY DEF SteadyMarked, Rest, Marked

\* A page without matches held no mark, and after the last page none is left.
LEMMA PageHeldNone ==
    ASSUME TypeOK, SearchInv, NEW r \in Runs, pc[r] = "list", ~ shifted[r],
           matches[r] \cup MatchesOn(page[r]) = {}
    PROVE  /\ \A i \in DOMAIN thread : thread[i].id \in steady[r] => i > page[r] * PerPage
           /\ Short(page[r]) => \A i \in DOMAIN thread : thread[i].id \notin steady[r]
<1> DEFINE p == page[r]
<1>1. /\ Len(thread) \in Nat /\ DOMAIN thread = 1..Len(thread)
      /\ p \in Nat /\ p * PerPage \in Nat /\ (p - 1) * PerPage \in Int
  BY ThreadType DEF TypeOK
<1>2. \A i \in Batch(p) : ~ thread[i].marked
  BY DEF MatchesOn
<1>3. ASSUME NEW i \in DOMAIN thread, thread[i].id \in steady[r]
      PROVE  i > p * PerPage
  <2>1. thread[i].marked
    BY <1>3 DEF SearchInv, SteadyMarked
  <2>2. i > (p - 1) * PerPage
    BY <1>3 DEF SearchInv, PagesRead
  <2> HIDE DEF p
  <2>3. ~ (i <= p * PerPage)
    BY <1>1, <1>2, <2>1, <2>2 DEF Batch
  <2>. QED
    BY <1>1, <2>3
<1>. QED
  BY <1>1, <1>3 DEF Short

\* Steps that leave thread and marks alone disturb the search only through pc.
LEMMA SearchElsewhere ==
    ASSUME TypeOK, SearchInv, NEW r \in Runs,
           Keeps, UNCHANGED <<run, watch>>,
           \E v \in {"help", "output", "flags", "done"} :
              /\ pc' = [pc EXCEPT ![r] = v]
              /\ v \in {"output", "flags"} => pc[r] \in {"plan", "output"}
    PROVE  SearchInv'
BY DEF SearchInv, IdsUnique, SteadyMarked, PagesRead, PostsOnlyIfNone, Keeps, run, watch, TypeOK

\* A grown thread: nothing a run has read or relies on moved.
LEMMA SearchGrows ==
    ASSUME TypeOK, SearchInv, Grows, UNCHANGED <<run, steady, shifted>>,
           pc' = pc \/ \E r \in Runs : pc' = [pc EXCEPT ![r] = "done"]
    PROVE  SearchInv'
<1>1. IdsUnique'
  BY IdsGrow DEF SearchInv
<1>2. /\ SteadyMarked'
      /\ \A r \in Runs, i \in DOMAIN thread' :
            thread'[i].id \in steady'[r] => i \in DOMAIN thread /\ thread[i].id \in steady[r]
  BY SteadyGrows DEF SearchInv
<1>3. \A r \in Runs : pc'[r] = pc[r] \/ pc'[r] = "done"
  BY DEF TypeOK
<1>4. PagesRead'
  BY <1>2, <1>3 DEF SearchInv, PagesRead, run
<1>5. PostsOnlyIfNone'
  BY <1>2, <1>3 DEF SearchInv, PostsOnlyIfNone, run
<1>. QED
  BY <1>1, <1>2, <1>4, <1>5 DEF SearchInv

\* A rewritten comment: nothing moves, and marks may only go.
LEMMA SearchRewrites ==
    ASSUME TypeOK, SearchInv, NEW places, NEW text, NEW marked, Rewrite(places, text, marked),
           pc' = pc \/ \E r \in Runs : pc' = [pc EXCEPT ![r] = "done"]
    PROVE  SearchInv' /\ \A q \in Runs : steady'[q] \subseteq steady[q]
<1>1. /\ created' = created /\ DOMAIN thread' = DOMAIN thread /\ steady' = Rest(thread')
      /\ UNCHANGED <<run, shifted>>
  BY DEF Rewrite
<1>2. \A i \in DOMAIN thread : thread'[i].id = thread[i].id
  BY DEF Rewrite, Comment
<1>3. IdsUnique'
  BY <1>1, <1>2 DEF SearchInv, IdsUnique
<1>4. SteadyMarked' /\ \A q \in Runs : steady'[q] \subseteq steady[q]
  BY <1>1, <1>3, RestMarked DEF SearchInv, IdsUnique
<1>5. \A q \in Runs : pc'[q] = pc[q] \/ pc'[q] = "done"
  BY DEF TypeOK
<1>6. PagesRead' /\ PostsOnlyIfNone'
  BY <1>1, <1>2, <1>4, <1>5 DEF SearchInv, PagesRead, PostsOnlyIfNone, run
<1>. QED
  BY <1>3, <1>4, <1>6 DEF SearchInv

LEMMA SearchStep == TypeOK /\ SearchInv /\ [Next]_vars => SearchInv'
<1> SUFFICES ASSUME TypeOK, SearchInv, [Next]_vars PROVE SearchInv'
  OBVIOUS
<1>1. ASSUME NEW r \in Runs, Prepare(r) PROVE SearchInv'
  BY <1>1, SearchElsewhere DEF Prepare, Exit, Keeps, github
<1>2. ASSUME NEW r \in Runs, Output(r) PROVE SearchInv'
  BY <1>2, SearchElsewhere DEF Output, Exit, Keeps, github
<1>3. ASSUME NEW r \in Runs, Flags(r) PROVE SearchInv'
  <2>1. CASE (Exit(r, 0) \/ Exit(r, 1)) /\ UNCHANGED watch
    BY <1>3, <2>1, SearchElsewhere DEF Flags, Exit, Keeps, github
  <2>2. CASE /\ pc' = [pc EXCEPT ![r] = "list"]
             /\ steady' = [steady EXCEPT ![r] = Marked(thread)]
             /\ shifted' = [shifted EXCEPT ![r] = FALSE]
    <3>1. /\ UNCHANGED <<thread, created, page, matches>> /\ pc[r] = "flags"
      BY <1>3 DEF Flags, github, run
    <3>2. \A x \in Marked(thread) :
              x <= created /\ \A i \in DOMAIN thread : thread[i].id = x => thread[i].marked
      BY DEF Marked, SearchInv, IdsUnique
    <3>3. SteadyMarked'
      <4>1. ASSUME NEW q \in Runs PROVE steady'[q] = steady[q] \/ steady'[q] = Marked(thread)
        BY <2>2 DEF TypeOK
      <4>. QED
        BY <3>1, <3>2, <4>1 DEF SearchInv, SteadyMarked
    <3>4. PagesRead'
      <4>1. \A q \in Runs \ {r} : pc'[q] = pc[q] /\ steady'[q] = steady[q] /\ shifted'[q] = shifted[q]
        BY <2>2 DEF TypeOK
      <4>2. pc'[r] = "list" /\ page'[r] = 1
        BY <2>2, <3>1 DEF TypeOK, SearchInv, PagesRead
      <4>3. \A i \in DOMAIN thread : i > (1 - 1) * PerPage
        BY ThreadType DEF TypeOK
      <4>. QED
        BY <3>1, <4>1, <4>2, <4>3 DEF SearchInv, PagesRead
    <3>5. PostsOnlyIfNone'
      BY <2>2, <3>1 DEF SearchInv, PostsOnlyIfNone, TypeOK
    <3>. QED
      BY <3>1, <3>3, <3>4, <3>5 DEF SearchInv, IdsUnique
  <2>. QED
    BY <1>3, <2>1, <2>2 DEF Flags
<1>4. ASSUME NEW r \in Runs, List(r) PROVE SearchInv'
  <2> DEFINE found == matches[r] \cup MatchesOn(page[r])
  <2>1. /\ matches' = [matches EXCEPT ![r] = found] /\ pc[r] = "list"
        /\ UNCHANGED <<thread, created, steady, shifted>>
    BY <1>4 DEF List, github, watch
  <2>2. \/ /\ ~ Short(page[r]) /\ page[r] # MaxPages
           /\ page' = [page EXCEPT ![r] = page[r] + 1] /\ pc' = pc
        \/ /\ Short(page[r]) \/ page[r] = MaxPages
           /\ found = {} /\ page' = page /\ pc' = [pc EXCEPT ![r] = "post"]
        \/ page' = page /\ pc' = [pc EXCEPT ![r] = "update"]
    BY <1>4 DEF List
  <2>3. found = {} /\ ~ shifted[r] =>
          /\ \A i \in DOMAIN thread : thread[i].id \in steady[r] => i > page[r] * PerPage
          /\ Short(page[r]) => \A i \in DOMAIN thread : thread[i].id \notin steady[r]
    BY <2>1, PageHeldNone
  <2>4. page[r] \in 1..MaxPages
    BY <2>1 DEF SearchInv, PagesRead
  <2> HIDE DEF found
  <2>5. \A q \in Runs \ {r} : pc'[q] = pc[q] /\ page'[q] = page[q] /\ matches'[q] = matches[q]
    BY <2>1, <2>2 DEF TypeOK
  <2>6. /\ matches'[r] = found
        /\ pc'[r] = "list" => page'[r] = page[r] + 1 /\ page[r] # MaxPages
        /\ pc'[r] = "post" => found = {} /\ (Short(page[r]) \/ page[r] = MaxPages)
        /\ pc'[r] \in {"list", "post", "update"}
    BY <2>1, <2>2 DEF TypeOK
  <2>7. PagesRead'
    <3>1. ASSUME pc'[r] = "list", ~ shifted[r], found = {}
          PROVE  \A i \in DOMAIN thread : thread[i].id \in steady[r] => i > (page'[r] - 1) * PerPage
      <4>1. page'[r] - 1 = page[r]
        BY <3>1, <2>4, <2>6
      <4>. QED
        BY <3>1, <4>1, <2>3
    <3>2. pc'[r] = "list" => page'[r] \in 1..MaxPages
      BY <2>4, <2>6
    <3>. QED
      BY <2>1, <2>5, <2>6, <3>1, <3>2 DEF SearchInv, PagesRead
  <2>8. PostsOnlyIfNone'
    <3>1. ASSUME pc'[r] = "post", ~ shifted[r], NEW i \in DOMAIN thread, thread[i].id \in steady[r]
          PROVE  i > MaxPages * PerPage
      BY <3>1, <2>3, <2>6
    <3>. QED
      BY <2>1, <2>5, <2>6, <3>1 DEF SearchInv, PostsOnlyIfNone
  <2>. QED
    BY <2>1, <2>7, <2>8 DEF SearchInv, IdsUnique, SteadyMarked
<1>5. ASSUME NEW r \in Runs, Fail(r) PROVE SearchInv'
  BY <1>5, SearchElsewhere DEF Fail, Exit, Keeps, github
<1>6. ASSUME NEW r \in Runs, Missing(r) PROVE SearchInv'
  BY <1>6, SearchElsewhere DEF Missing, Exit, Keeps, github
<1>7. ASSUME NEW r \in Runs, Post(r) PROVE SearchInv'
  <2>1. Comment(created', "bot", r, Carries(r), clock').id = created'
    BY DEF Comment
  <2>2. Grows
    BY <1>7, <2>1, AppendGrows DEF Post
  <2>. QED
    BY <1>7, <2>2, SearchGrows DEF Post, Answered, Exit
<1>8. ASSUME NEW r \in Runs, Update(r) PROVE SearchInv'
  BY <1>8, SearchRewrites DEF Update, Answered, Exit
<1>12. ASSUME Edit PROVE SearchInv'
  BY <1>12, SearchRewrites DEF Edit
<1>9. ASSUME Say PROVE SearchInv'
  <2>1. PICK quote \in BOOLEAN :
          thread' = Append(thread, Comment(created', "people", "people", quote, clock'))
    BY <1>9 DEF Say
  <2>2. Comment(created', "people", "people", quote, clock').id = created'
    BY DEF Comment
  <2>3. Grows
    BY <1>9, <2>1, <2>2, AppendGrows DEF Say
  <2>. QED
    BY <1>9, <2>3, SearchGrows DEF Say
<1>10. ASSUME Delete PROVE SearchInv'
  <2>1. PICK k \in DOMAIN thread : thread' = Without(k)
    BY <1>10 DEF Delete
  <2>2. /\ created' = created /\ steady' = Rest(thread') /\ shifted' = [r \in Runs |-> TRUE]
        /\ UNCHANGED <<pc, run>>
    BY <1>10 DEF Delete
  <2>3. /\ Len(thread) \in Nat /\ DOMAIN thread = 1..Len(thread)
        /\ DOMAIN thread' = 1..(Len(thread) - 1)
        /\ \A i \in DOMAIN thread' : thread'[i] = IF i < k THEN thread[i] ELSE thread[i + 1]
    BY <2>1, ThreadType DEF Without, TypeOK
  <2>4. IdsUnique'
    <3> DEFINE was(i) == IF i < k THEN i ELSE i + 1
    <3>1. \A i \in DOMAIN thread' : was(i) \in DOMAIN thread /\ thread'[i] = thread[was(i)]
      BY <2>3
    <3>2. \A i, j \in DOMAIN thread' : was(i) = was(j) => i = j
      BY <2>3
    <3> HIDE DEF was
    <3>. QED
      BY <2>2, <3>1, <3>2 DEF SearchInv, IdsUnique
  <2>5. SteadyMarked' /\ \A q \in Runs : steady'[q] \subseteq steady[q]
    BY <2>2, <2>4, RestMarked DEF SearchInv, IdsUnique
  <2>6. \A r \in Runs : shifted'[r]
    BY <2>2
  <2>7. PagesRead' /\ PostsOnlyIfNone'
    BY <2>2, <2>6 DEF SearchInv, PagesRead, PostsOnlyIfNone, run
  <2>. QED
    BY <2>4, <2>5, <2>7 DEF SearchInv
<1>11. ASSUME UNCHANGED vars PROVE SearchInv'
  BY <1>11 DEF vars, github, watch, run, SearchInv, IdsUnique, SteadyMarked, PagesRead, PostsOnlyIfNone
<1>. QED
  BY <1>1, <1>2, <1>3, <1>4, <1>5, <1>6, <1>7, <1>8, <1>9, <1>10, <1>11, <1>12 DEF Next, Step

\* A run posts only when no comment carried the marker all the while.
THEOREM PostsRightly == Spec => []PostsOnlyIfNone
<1>1. Init => TypeInv /\ SearchInv
  BY TypeInit, SearchInit
<1>2. TypeInv /\ SearchInv /\ [Next]_vars => (TypeInv /\ SearchInv)'
  <2>1. TypeInv => TypeOK
    BY DEF TypeInv
  <2>. QED
    BY <2>1, TypeStep, SearchStep
<1>3. SearchInv => PostsOnlyIfNone
  BY DEF SearchInv
<1>. QED
  BY <1>1, <1>2, <1>3, PTL DEF Spec

-----------------------------------------------------------------------------
\* The choice.  Of the comments a run has read and nobody touched since it
\* began, none is more recent than what it has found so far.
Untouched(r, i) == thread[i].id \in steady[r] /\ thread[i].updated < since[r]

NewestSeen ==
    \A r \in Runs : pc[r] = "list" /\ ~ shifted[r] =>
        \A i \in DOMAIN thread :
            Untouched(r, i) /\ i <= (page[r] - 1) * PerPage =>
                \E m \in matches[r] : thread[i].updated <= m.updated

NewestInv == (\A r \in Runs : since[r] <= clock) /\ NewestSeen /\ NewestIsPicked

\* What is untouched after a step was so before it, at the same place.
OldStays ==
    \A r \in Runs : \A i \in DOMAIN thread' :
        Untouched(r, i)' => i \in DOMAIN thread /\ Untouched(r, i) /\ thread'[i].updated = thread[i].updated

\* Steps of others, and those of a run outside its search.
LEMMA NewestElsewhere ==
    ASSUME TypeOK, NewestInv, OldStays, clock' \in Nat, clock <= clock', UNCHANGED <<run, since, shifted>>,
           \A r \in Runs : pc'[r] \in {"list", "update"} => pc'[r] = pc[r]
    PROVE  NewestInv'
<1>1. \A r \in Runs : since'[r] <= clock'
  BY DEF NewestInv, TypeOK
<1>2. NewestSeen'
  <2> SUFFICES ASSUME NEW r \in Runs, pc'[r] = "list", ~ shifted'[r], NEW i \in DOMAIN thread',
                      Untouched(r, i)', i <= (page'[r] - 1) * PerPage
               PROVE  \E m \in matches'[r] : thread'[i].updated <= m.updated
    BY DEF NewestSeen
  <2>1. i \in DOMAIN thread /\ Untouched(r, i) /\ thread'[i].updated = thread[i].updated
    BY DEF OldStays
  <2>2. pc[r] = "list" /\ ~ shifted[r] /\ page'[r] = page[r] /\ matches'[r] = matches[r]
    BY DEF run
  <2>. QED
    BY <2>1, <2>2 DEF NewestInv, NewestSeen
<1>3. NewestIsPicked'
  <2> SUFFICES ASSUME NEW r \in Runs, pc'[r] = "update", ~ shifted'[r], NEW i \in DOMAIN thread',
                      thread'[i].id \in steady'[r], i <= MaxPages * PerPage, thread'[i].updated < since'[r]
               PROVE  thread'[i].updated <= target'[r].updated
    BY DEF NewestIsPicked
  <2>1. i \in DOMAIN thread /\ Untouched(r, i) /\ thread'[i].updated = thread[i].updated
    BY DEF OldStays, Untouched
  <2>2. pc[r] = "update" /\ ~ shifted[r] /\ target'[r] = target[r]
    BY DEF run
  <2>. QED
    BY <2>1, <2>2 DEF NewestInv, NewestIsPicked, Untouched
<1>. QED
  BY <1>1, <1>2, <1>3 DEF NewestInv

LEMMA KeptStays == ASSUME Keeps, UNCHANGED <<steady, since>> PROVE OldStays
BY DEF Keeps, OldStays, Untouched

LEMMA GrownStays == ASSUME TypeOK, SteadyMarked, Grows, UNCHANGED <<steady, since>> PROVE OldStays
<1>1. \A r \in Runs, i \in DOMAIN thread' :
          thread'[i].id \in steady'[r] => i \in DOMAIN thread /\ thread[i].id \in steady[r]
  BY SteadyGrows
<1>. QED
  BY <1>1 DEF Grows, OldStays, Untouched

\* A rewritten comment is no longer untouched.
LEMMA RewrittenStays ==
    ASSUME TypeInv, SearchInv, NewestInv, NEW places, NEW text \in Runs \cup {"people"},
           NEW marked \in BOOLEAN, Rewrite(places, text, marked),
           \A q \in Runs : steady'[q] \subseteq steady[q]
    PROVE  OldStays
<1>1. /\ TypeOK /\ clock' \in Nat /\ clock <= clock' /\ DOMAIN thread' = DOMAIN thread /\ since' = since
  BY RewriteType, RewritePlaces DEF TypeInv, Rewrite
<1>2. \A i \in DOMAIN thread : thread'[i].id = thread[i].id /\ thread'[i].updated \in {clock', thread[i].updated}
  BY RewritePlaces DEF RewrittenAt
<1>3. \A q \in Runs : steady'[q] \subseteq steady[q]
  OBVIOUS
<1>4. ASSUME NEW q \in Runs, NEW i \in DOMAIN thread', Untouched(q, i)'
      PROVE  i \in DOMAIN thread /\ Untouched(q, i) /\ thread'[i].updated = thread[i].updated
  <2>1. thread'[i].updated < since[q] /\ since[q] \in Nat /\ since[q] <= clock /\ clock \in Nat
    BY <1>1, <1>4 DEF Untouched, NewestInv, TypeOK
  <2>2. thread'[i].updated # clock'
    BY <1>1, <2>1
  <2>3. i \in DOMAIN thread /\ thread'[i].updated = thread[i].updated /\ thread[i].id \in steady[q]
    BY <1>1, <1>2, <1>3, <1>4, <2>2 DEF Untouched
  <2>. QED
    BY <2>1, <2>3 DEF Untouched
<1>. QED
  BY <1>4 DEF OldStays

\* The places up to the end of a page: those before it, and its own.
LEMMA PageSeen ==
    ASSUME TypeOK, SearchInv, NewestInv, NEW r \in Runs, pc[r] = "list", ~ shifted[r],
           NEW i \in DOMAIN thread, Untouched(r, i), i <= page[r] * PerPage
    PROVE  \E m \in matches[r] \cup MatchesOn(page[r]) : thread[i].updated <= m.updated
<1>1. i \in Nat /\ thread[i].updated \in Nat /\ (page[r] - 1) * PerPage \in Int
  BY ThreadType DEF TypeOK
<1>2. CASE i <= (page[r] - 1) * PerPage
  BY <1>2 DEF NewestInv, NewestSeen
<1>3. CASE ~ (i <= (page[r] - 1) * PerPage)
  <2>1. i \in Batch(page[r])
    BY <1>1, <1>3 DEF Batch
  <2>2. thread[i].marked
    BY DEF Untouched, SearchInv, SteadyMarked
  <2>3. thread[i] \in MatchesOn(page[r])
    BY <2>1, <2>2 DEF MatchesOn
  <2>. QED
    BY <1>1, <2>3
<1>. QED
  BY <1>2, <1>3

LEMMA NewestListed ==
    ASSUME TypeInv, SearchInv, NewestInv, NEW r \in Runs, List(r)
    PROVE  NewestInv'
<1> DEFINE found == matches[r] \cup MatchesOn(page[r])
<1>1. /\ TypeOK /\ Dated /\ Listed
      /\ matches' = [matches EXCEPT ![r] = found] /\ pc[r] = "list"
      /\ UNCHANGED <<thread, clock, steady, since, shifted>>
  BY DEF TypeInv, List, github, watch
<1>2. \/ /\ ~ Short(page[r]) /\ page[r] # MaxPages
         /\ page' = [page EXCEPT ![r] = page[r] + 1] /\ pc' = pc /\ target' = target
      \/ /\ page' = page /\ pc' = [pc EXCEPT ![r] = "post"] /\ target' = target
      \/ /\ Short(page[r]) \/ page[r] = MaxPages
         /\ found # {} /\ page' = page /\ pc' = [pc EXCEPT ![r] = "update"]
         /\ target' = [target EXCEPT ![r] = PickMostRecent(found)]
  BY DEF List
<1>3. found \in SUBSET Comments /\ \A m \in found : m.updated <= clock
  BY <1>1, FoundOnPage
<1>4. found # {} => /\ PickMostRecent(found) \in found
                    /\ \A m \in found : m.updated <= PickMostRecent(found).updated
  BY <1>1, <1>3, PickIsMatch DEF TypeOK
<1>5. ~ shifted[r] => \A i \in DOMAIN thread : Untouched(r, i) /\ i <= page[r] * PerPage =>
                          \E m \in found : thread[i].updated <= m.updated
  BY <1>1, PageSeen
<1> HIDE DEF found
<1>6. \A q \in Runs, i \in DOMAIN thread : Untouched(q, i)' <=> Untouched(q, i)
  BY <1>1 DEF Untouched
<1>7. \A q \in Runs \ {r} : pc'[q] = pc[q] /\ page'[q] = page[q] /\ matches'[q] = matches[q] /\ target'[q] = target[q]
  BY <1>1, <1>2 DEF TypeOK
<1>8. matches'[r] = found /\ (pc'[r] = "list" => page'[r] = page[r] + 1)
  BY <1>1, <1>2 DEF TypeOK
<1>9. NewestSeen'
  <2>1. ASSUME NEW q \in Runs, pc'[q] = "list", ~ shifted[q], NEW i \in DOMAIN thread,
               Untouched(q, i), i <= (page'[q] - 1) * PerPage
        PROVE  \E m \in matches'[q] : thread[i].updated <= m.updated
    <3>1. CASE q = r
      <4>1. page[r] \in Nat /\ page'[r] = page[r] + 1
        BY <2>1, <3>1, <1>1, <1>8 DEF TypeOK
      <4>2. page'[r] - 1 = page[r]
        BY <4>1
      <4>. QED
        BY <2>1, <3>1, <4>2, <1>5, <1>8
    <3>2. CASE q # r
      BY <2>1, <3>2, <1>7 DEF NewestInv, NewestSeen
    <3>. QED
      BY <3>1, <3>2
  <2>. QED
    BY <2>1, <1>1, <1>6 DEF NewestSeen
<1>10. NewestIsPicked'
  <2>1. ASSUME NEW q \in Runs, pc'[q] = "update", ~ shifted[q], NEW i \in DOMAIN thread,
               Untouched(q, i), i <= MaxPages * PerPage
        PROVE  thread[i].updated <= target'[q].updated
    <3>1. CASE q = r
      <4>1. /\ Short(page[r]) \/ page[r] = MaxPages
            /\ found # {} /\ target'[r] = PickMostRecent(found)
        BY <2>1, <3>1, <1>1, <1>2 DEF TypeOK
      <4>2. i <= page[r] * PerPage
        <5>1. CASE Short(page[r])
          <6>1. /\ Len(thread) \in Nat /\ i \in 1..Len(thread) /\ page[r] * PerPage \in Nat
                /\ Len(thread) < page[r] * PerPage
            BY <1>1, <5>1, ThreadType DEF TypeOK, Short
          <6>. QED
            BY <6>1
        <5>2. CASE page[r] = MaxPages
          BY <2>1, <5>2
        <5>. QED
          BY <4>1, <5>1, <5>2
      <4>3. PICK m \in found : thread[i].updated <= m.updated
        BY <2>1, <3>1, <4>2, <1>5
      <4>4. /\ thread[i].updated \in Nat /\ m.updated \in Nat /\ PickMostRecent(found).updated \in Nat
            /\ m.updated <= PickMostRecent(found).updated
        BY <1>1, <1>3, <1>4, <4>1, ThreadType DEF TypeOK, Comments
      <4>. QED
        BY <3>1, <4>1, <4>3, <4>4
    <3>2. CASE q # r
      BY <2>1, <3>2, <1>7 DEF NewestInv, NewestIsPicked, Untouched
    <3>. QED
      BY <3>1, <3>2
  <2>. QED
    BY <2>1, <1>1 DEF NewestIsPicked, Untouched
<1>. QED
  BY <1>1, <1>9, <1>10 DEF NewestInv

LEMMA NewestStep == TypeInv /\ SearchInv /\ NewestInv /\ [Next]_vars => NewestInv'
<1> SUFFICES ASSUME TypeInv, SearchInv, NewestInv, [Next]_vars PROVE NewestInv'
  OBVIOUS
<1>0. TypeOK /\ clock \in Nat /\ SteadyMarked
  BY DEF TypeInv, TypeOK, SearchInv
<1>1. ASSUME NEW r \in Runs, Prepare(r) \/ Output(r) \/ Fail(r) \/ Missing(r) PROVE NewestInv'
  <2>1. Keeps /\ UNCHANGED <<run, watch, clock>>
    BY <1>1 DEF Prepare, Output, Fail, Missing, github, Keeps
  <2>2. \E v \in {"help", "output", "flags", "done"} : pc' = [pc EXCEPT ![r] = v]
    BY <1>1 DEF Prepare, Output, Fail, Missing, Exit
  <2>3. \A q \in Runs : pc'[q] \in {"list", "update"} => pc'[q] = pc[q]
    BY <1>0, <2>2 DEF TypeOK
  <2>. QED
    BY <1>0, <2>1, <2>3, KeptStays, NewestElsewhere DEF watch
<1>2. ASSUME NEW r \in Runs, Flags(r) PROVE NewestInv'
  <2>1. Keeps /\ UNCHANGED <<run, clock, thread>>
    BY <1>2 DEF Flags, github, Keeps
  <2>2. CASE (Exit(r, 0) \/ Exit(r, 1)) /\ UNCHANGED watch
    <3>1. \A q \in Runs : pc'[q] \in {"list", "update"} => pc'[q] = pc[q]
      BY <1>0, <2>2 DEF Exit, TypeOK
    <3>. QED
      BY <1>0, <2>1, <2>2, <3>1, KeptStays, NewestElsewhere DEF watch
  <2>3. CASE /\ pc' = [pc EXCEPT ![r] = "list"]
             /\ steady' = [steady EXCEPT ![r] = Marked(thread)]
             /\ since' = [since EXCEPT ![r] = clock]
             /\ shifted' = [shifted EXCEPT ![r] = FALSE]
    <3>1. \A q \in Runs \ {r} : /\ pc'[q] = pc[q] /\ steady'[q] = steady[q]
                                /\ since'[q] = since[q] /\ shifted'[q] = shifted[q]
      BY <2>3 DEF TypeOK
    <3>2. pc'[r] = "list" /\ since'[r] = clock /\ page'[r] = 1
      BY <1>0, <1>2, <2>1, <2>3 DEF TypeOK, SearchInv, PagesRead, run, Flags
    <3>3. \A q \in Runs : since'[q] <= clock'
      BY <1>0, <2>1, <3>1, <3>2 DEF NewestInv
    <3>4. \A i \in DOMAIN thread : ~ (i <= (1 - 1) * PerPage)
      BY <1>0, ThreadType DEF TypeOK
    <3>5. \A q \in Runs \ {r}, i \in DOMAIN thread : Untouched(q, i)' <=> Untouched(q, i)
      BY <2>1, <3>1 DEF Untouched
    <3>6. NewestSeen'
      BY <2>1, <3>1, <3>2, <3>4, <3>5 DEF NewestInv, NewestSeen, run
    <3>7. NewestIsPicked'
      BY <2>1, <3>1, <3>2 DEF NewestInv, NewestIsPicked, run
    <3>. QED
      BY <3>3, <3>6, <3>7 DEF NewestInv
  <2>. QED
    BY <1>2, <2>2, <2>3 DEF Flags
<1>3. ASSUME NEW r \in Runs, List(r) PROVE NewestInv'
  BY <1>3, NewestListed
<1>4. ASSUME NEW r \in Runs, Post(r) PROVE NewestInv'
  <2>1. Comment(created', "bot", r, Carries(r), clock').id = created'
    BY DEF Comment
  <2>2. Grows
    BY <1>0, <1>4, <2>1, AppendGrows DEF Post
  <2>3. /\ UNCHANGED <<run, steady, since, shifted>> /\ pc' = [pc EXCEPT ![r] = "done"]
        /\ clock' \in Nat /\ clock <= clock'
    BY <1>0, <1>4 DEF Post, Answered, Exit, Tick
  <2>4. \A q \in Runs : pc'[q] \in {"list", "update"} => pc'[q] = pc[q]
    BY <1>0, <2>3 DEF TypeOK
  <2>. QED
    BY <1>0, <2>2, <2>3, <2>4, GrownStays, NewestElsewhere
<1>9. ASSUME NEW places, NEW text \in Runs \cup {"people"}, NEW marked \in BOOLEAN,
             Rewrite(places, text, marked),
             pc' = pc \/ \E r \in Runs : pc' = [pc EXCEPT ![r] = "done"]
      PROVE  NewestInv'
  <2>1. /\ UNCHANGED <<run, since, shifted>> /\ clock' \in Nat /\ clock <= clock'
    BY <1>0, <1>9 DEF Rewrite, Tick
  <2>2. \A q \in Runs : pc'[q] \in {"list", "update"} => pc'[q] = pc[q]
    BY <1>0, <1>9 DEF TypeOK
  <2>3. \A q \in Runs : steady'[q] \subseteq steady[q]
    BY <1>0, <1>9, SearchRewrites
  <2>4. OldStays
    BY <1>9, <2>3, RewrittenStays
  <2>. QED
    BY <1>0, <2>1, <2>2, <2>4, NewestElsewhere
<1>5. ASSUME NEW r \in Runs, Update(r) PROVE NewestInv'
  <2>1. Carries(r) \in BOOLEAN
    BY DEF Carries
  <2>. QED
    BY <1>5, <1>9, <2>1 DEF Update, Answered, Exit
<1>10. ASSUME Edit PROVE NewestInv'
  BY <1>9, <1>10 DEF Edit
<1>6. ASSUME Say PROVE NewestInv'
  <2>1. PICK quote \in BOOLEAN :
          thread' = Append(thread, Comment(created', "people", "people", quote, clock'))
    BY <1>6 DEF Say
  <2>2. Comment(created', "people", "people", quote, clock').id = created'
    BY DEF Comment
  <2>3. Grows
    BY <1>0, <1>6, <2>1, <2>2, AppendGrows DEF Say
  <2>4. /\ UNCHANGED <<pc, run, steady, since, shifted>> /\ clock' \in Nat /\ clock <= clock'
    BY <1>0, <1>6 DEF Say, Tick
  <2>. QED
    BY <1>0, <2>3, <2>4, GrownStays, NewestElsewhere
<1>7. ASSUME Delete PROVE NewestInv'
  <2>1. /\ \A r \in Runs : shifted'[r]
        /\ UNCHANGED <<since, clock>>
    BY <1>7 DEF Delete
  <2>. QED
    BY <2>1 DEF NewestInv, NewestSeen, NewestIsPicked
<1>8. ASSUME UNCHANGED vars PROVE NewestInv'
  <2>1. Keeps /\ UNCHANGED <<run, watch, clock, pc>>
    BY <1>8 DEF vars, github, Keeps
  <2>. QED
    BY <1>0, <2>1, KeptStays, NewestElsewhere DEF watch
<1>. QED
  BY <1>1, <1>2, <1>3, <1>4, <1>5, <1>6, <1>7, <1>8, <1>10 DEF Next, Step

\* The comment a run updates is the most recent of those that carried the
\* marker when it began to list and that nobody has touched since.
THEOREM NewestIsUpdated == Spec => []NewestIsPicked
<1>1. Init => TypeInv /\ SearchInv /\ NewestInv
  <2>1. Init => NewestInv
    BY DEF Init, NewestInv, NewestSeen, NewestIsPicked
  <2>. QED
    BY <2>1, TypeInit, SearchInit
<1>2. TypeInv /\ SearchInv /\ NewestInv /\ [Next]_vars => (TypeInv /\ SearchInv /\ NewestInv)'
  <2>1. TypeInv => TypeOK
    BY DEF TypeInv
  <2>. QED
    BY <2>1, TypeStep, SearchStep, NewestStep
<1>3. NewestInv => NewestIsPicked
  BY DEF NewestInv
<1>. QED
  BY <1>1, <1>2, <1>3, PTL DEF Spec

-----------------------------------------------------------------------------
\* Other people's comments.  What a run has matched, and may be about to
\* update, carried the marker while it listed; a mark that a listing run may still
\* come upon is one of those.
Ours ==
    \A r \in Runs :
        /\ \A m \in matches[r] : m.id \in carried[r]
        /\ pc[r] = "update" => target[r].id \in carried[r]
        /\ pc[r] = "list" => Marked(thread) \subseteq carried[r]

\* A listing run forgets no mark it might have met.
Meets ==
    \A r \in Runs : /\ carried[r] \subseteq carried'[r]
                    /\ pc[r] = "list" => Marked(thread') \subseteq carried'[r]

LEMMA EverMeets == ASSUME carried' = Ever(thread') PROVE Meets
BY DEF Ever, Meets

\* Marks that stay, or go, are met already.
LEMMA FewerMeet ==
    ASSUME Ours, carried' = carried, Marked(thread') \subseteq Marked(thread)
    PROVE  Meets
BY DEF Ours, Meets

\* Steps that pick no comment.
LEMMA OursElsewhere ==
    ASSUME TypeOK, Ours, Meets, UNCHANGED <<matches, target>>,
           \A r \in Runs : pc'[r] \in {"list", "update"} => pc'[r] = pc[r]
    PROVE  Ours'
BY DEF Ours, Meets

LEMMA OursStep == TypeInv /\ SearchInv /\ Ours /\ [Next]_vars => Ours'
<1> SUFFICES ASSUME TypeInv, SearchInv, Ours, [Next]_vars PROVE Ours'
  OBVIOUS
<1>1. TypeOK /\ Dated /\ Listed
  BY DEF TypeInv
<1>2. ASSUME NEW r \in Runs, List(r) PROVE Ours'
  <2> DEFINE found == matches[r] \cup MatchesOn(page[r])
  <2>1. /\ UNCHANGED <<thread, carried>> /\ pc[r] = "list"
        /\ matches' = [matches EXCEPT ![r] = found]
    BY <1>2 DEF List, github, watch
  <2>2. \A m \in found : m.id \in carried[r]
    <3>1. ASSUME NEW m \in MatchesOn(page[r]) PROVE m.id \in Marked(thread)
      <4>1. PICK j \in DOMAIN thread : m = thread[j] /\ thread[j].marked
        BY DEF MatchesOn, Batch
      <4>. QED
        BY <4>1 DEF Marked
    <3>. QED
      BY <2>1, <3>1 DEF Ours
  <2>3. found \in SUBSET Comments /\ \A m \in found : m.updated <= clock
    BY <1>1, FoundOnPage
  <2>4. found # {} => PickMostRecent(found) \in found
    BY <1>1, <2>3, PickIsMatch DEF TypeOK
  <2>5. \/ target' = target /\ pc' = pc
        \/ target' = target /\ pc' = [pc EXCEPT ![r] = "post"]
        \/ found # {} /\ target' = [target EXCEPT ![r] = PickMostRecent(found)]
           /\ pc' = [pc EXCEPT ![r] = "update"]
    BY <1>2 DEF List
  <2> HIDE DEF found
  <2>6. ASSUME NEW q \in Runs, NEW m \in matches'[q] PROVE m.id \in carried[q]
    BY <1>1, <2>1, <2>2, <2>6 DEF TypeOK, Ours
  <2>7. ASSUME NEW q \in Runs, pc'[q] = "update" PROVE target'[q].id \in carried[q]
    <3>1. CASE pc[q] = "update" /\ target'[q] = target[q]
      BY <3>1 DEF Ours
    <3>2. CASE q = r /\ found # {} /\ target'[q] = PickMostRecent(found)
      BY <2>2, <2>4, <3>2
    <3>. QED
      BY <1>1, <2>1, <2>5, <2>7, <3>1, <3>2 DEF TypeOK
  <2>8. ASSUME NEW q \in Runs, pc'[q] = "list" PROVE pc[q] = "list"
    BY <1>1, <2>5, <2>8 DEF TypeOK
  <2>. QED
    BY <2>1, <2>6, <2>7, <2>8 DEF Ours
<1>3. ASSUME NEW r \in Runs, Flags(r) PROVE Ours'
  <2>1. UNCHANGED <<matches, target, thread>> /\ pc[r] = "flags"
    BY <1>3 DEF Flags, run, github
  <2>2. CASE (Exit(r, 0) \/ Exit(r, 1)) /\ UNCHANGED watch
    <3>1. \A q \in Runs : pc'[q] \in {"list", "update"} => pc'[q] = pc[q]
      BY <1>1, <2>2 DEF Exit, TypeOK
    <3>. QED
      BY <1>1, <2>1, <2>2, <3>1, FewerMeet, OursElsewhere DEF watch
  <2>3. CASE /\ pc' = [pc EXCEPT ![r] = "list"]
             /\ carried' = [carried EXCEPT ![r] = Marked(thread)]
    <3>1. \A q \in Runs \ {r} : pc'[q] = pc[q] /\ carried'[q] = carried[q]
      BY <2>3 DEF TypeOK
    <3>2. pc'[r] = "list" /\ carried'[r] = Marked(thread) /\ matches[r] = {}
      BY <1>1, <2>1, <2>3 DEF TypeOK, SearchInv, PagesRead
    <3>. QED
      BY <2>1, <3>1, <3>2 DEF Ours
  <2>. QED
    BY <1>3, <2>2, <2>3 DEF Flags
<1>4. ASSUME NEW r \in Runs, Prepare(r) \/ Output(r) \/ Fail(r) \/ Missing(r) PROVE Ours'
  <2>1. UNCHANGED <<matches, target, thread, carried>>
    BY <1>4 DEF Prepare, Output, Fail, Missing, run, github, watch
  <2>2. \E v \in {"help", "output", "flags", "done"} : pc' = [pc EXCEPT ![r] = v]
    BY <1>4 DEF Prepare, Output, Fail, Missing, Exit
  <2>3. \A q \in Runs : pc'[q] \in {"list", "update"} => pc'[q] = pc[q]
    BY <1>1, <2>2 DEF TypeOK
  <2>. QED
    BY <1>1, <2>1, <2>3, FewerMeet, OursElsewhere
<1>5. ASSUME NEW r \in Runs, Post(r) \/ Update(r) PROVE Ours'
  <2>1. /\ UNCHANGED <<matches, target>> /\ carried' = Ever(thread')
        /\ pc' = [pc EXCEPT ![r] = "done"]
    BY <1>5 DEF Post, Update, Rewrite, Answered, Exit, run
  <2>2. \A q \in Runs : pc'[q] \in {"list", "update"} => pc'[q] = pc[q]
    BY <1>1, <2>1 DEF TypeOK
  <2>. QED
    BY <1>1, <2>1, <2>2, EverMeets, OursElsewhere
<1>6. ASSUME Say \/ Edit PROVE Ours'
  <2>1. UNCHANGED <<matches, target, pc>> /\ carried' = Ever(thread')
    BY <1>6 DEF Say, Edit, Rewrite, run
  <2>. QED
    BY <1>1, <2>1, EverMeets, OursElsewhere
<1>7. ASSUME Delete PROVE Ours'
  <2>1. PICK k \in DOMAIN thread : thread' = Without(k)
    BY <1>7 DEF Delete
  <2>2. Len(thread) \in Nat /\ DOMAIN thread = 1..Len(thread)
    BY <1>1, ThreadType DEF TypeOK
  <2>3. ASSUME NEW j \in DOMAIN thread' PROVE \E i \in DOMAIN thread : thread'[j] = thread[i]
    <3>1. j \in DOMAIN thread /\ j + 1 \in DOMAIN thread
      BY <2>1, <2>2 DEF Without
    <3>2. thread'[j] = thread[j] \/ thread'[j] = thread[j + 1]
      BY <2>1 DEF Without
    <3>. QED
      BY <3>1, <3>2
  <2>4. Marked(thread') \subseteq Marked(thread)
    BY <2>3 DEF Marked
  <2>5. UNCHANGED <<matches, target, pc, carried>>
    BY <1>7 DEF Delete, run
  <2>. QED
    BY <1>1, <2>4, <2>5, FewerMeet, OursElsewhere
<1>8. ASSUME UNCHANGED vars PROVE Ours'
  BY <1>8 DEF Ours, vars, run, watch, github
<1>. QED
  BY <1>2, <1>3, <1>4, <1>5, <1>6, <1>7, <1>8 DEF Next, Step

\* Where a comment of the next thread comes from.
Kept(j)     == \E i \in DOMAIN thread : thread'[j] = thread[i]
Replaced(j) == \E i \in DOMAIN thread, r \in Runs :
                  /\ pc[r] = "update" /\ thread[i].id = target[r].id
                  /\ thread'[j].id = thread[i].id /\ thread'[j].text = r
Theirs(j)   == thread'[j].text = "people"
New(j)      == thread'[j].id = created + 1

LEMMA ThreadMoves ==
    ASSUME TypeInv, [Next]_vars
    PROVE  \A j \in DOMAIN thread' : Kept(j) \/ Replaced(j) \/ Theirs(j) \/ New(j)
<1>0. TypeOK
  BY DEF TypeInv
<1>1. CASE Keeps
  BY <1>1 DEF Keeps, Kept
<1>2. CASE Grows
  <2>1. Len(thread) \in Nat /\ DOMAIN thread = 1..Len(thread)
    BY <1>0, ThreadType DEF TypeOK
  <2>2. ASSUME NEW j \in DOMAIN thread' PROVE Kept(j) \/ New(j)
    <3>1. j \in DOMAIN thread \/ j = Len(thread) + 1
      BY <1>2, <2>1 DEF Grows
    <3>. QED
      BY <1>2, <3>1 DEF Grows, Kept, New
  <2>. QED
    BY <2>2
<1>3. ASSUME NEW r \in Runs, Update(r) PROVE \A j \in DOMAIN thread' : Kept(j) \/ Replaced(j)
  <2>1. pc[r] = "update" /\ Rewrite(Hit(r), r, Carries(r)) /\ Carries(r) \in BOOLEAN
    BY <1>3 DEF Update, Carries
  <2>2. /\ DOMAIN thread' = DOMAIN thread
        /\ \A j \in DOMAIN thread : RewrittenAt(Hit(r), r, j)
    BY <2>1, RewritePlaces
  <2>. QED
    BY <2>1, <2>2 DEF RewrittenAt, Hit, Kept, Replaced
<1>4. ASSUME Edit PROVE \A j \in DOMAIN thread' : Kept(j) \/ Theirs(j)
  <2>1. PICK k \in DOMAIN thread, marked \in BOOLEAN : Rewrite({k}, "people", marked)
    BY <1>4 DEF Edit
  <2>2. /\ DOMAIN thread' = DOMAIN thread
        /\ \A j \in DOMAIN thread : RewrittenAt({k}, "people", j)
    BY <2>1, RewritePlaces
  <2>. QED
    BY <2>2 DEF RewrittenAt, Kept, Theirs
<1>5. ASSUME Delete PROVE \A j \in DOMAIN thread' : Kept(j)
  <2>1. PICK k \in DOMAIN thread : thread' = Without(k)
    BY <1>5 DEF Delete
  <2>2. Len(thread) \in Nat /\ DOMAIN thread = 1..Len(thread)
    BY <1>0, ThreadType DEF TypeOK
  <2>3. ASSUME NEW j \in DOMAIN thread' PROVE Kept(j)
    <3>1. j \in DOMAIN thread /\ j + 1 \in DOMAIN thread
      BY <2>1, <2>2 DEF Without
    <3>2. thread'[j] = thread[j] \/ thread'[j] = thread[j + 1]
      BY <2>1 DEF Without
    <3>. QED
      BY <3>1, <3>2 DEF Kept
  <2>. QED
    BY <2>3
<1>6. ASSUME NEW r \in Runs, Post(r) PROVE Grows
  <2>1. Comment(created', "bot", r, Carries(r), clock').id = created'
    BY DEF Comment
  <2>. QED
    BY <1>0, <1>6, <2>1, AppendGrows DEF Post
<1>7. ASSUME Say PROVE Grows
  <2>1. PICK quote \in BOOLEAN :
          thread' = Append(thread, Comment(created', "people", "people", quote, clock'))
    BY <1>7 DEF Say
  <2>2. Comment(created', "people", "people", quote, clock').id = created'
    BY DEF Comment
  <2>. QED
    BY <1>0, <1>7, <2>1, <2>2, AppendGrows DEF Say
<1>8. ASSUME NEW r \in Runs,
             Prepare(r) \/ Output(r) \/ Flags(r) \/ List(r) \/ Fail(r) \/ Missing(r)
      PROVE  Keeps
  BY <1>8 DEF Prepare, Output, Flags, List, Fail, Missing, github, Keeps
<1>9. ASSUME UNCHANGED vars PROVE Keeps
  BY <1>9 DEF vars, github, Keeps
<1>. QED
  BY <1>1, <1>2, <1>3, <1>4, <1>5, <1>6, <1>7, <1>8, <1>9 DEF Next, Step

\* Nobody's comment is replaced that carried no marker while the run listed,
\* whatever people and other runs write, edit and delete in between.
THEOREM OthersAreKept == Spec => OthersStay
<1> DEFINE Stays ==
        \A i \in DOMAIN thread, j \in DOMAIN thread' :
          (/\ thread'[j].id = thread[i].id /\ thread'[j] # thread[i]
           /\ thread'[j].text \in Runs) => thread[i].id \in carried[thread'[j].text]
<1>1. Init => TypeInv /\ SearchInv /\ Ours
  BY TypeInit, SearchInit DEF Init, Ours
<1>2. TypeInv /\ SearchInv /\ Ours /\ [Next]_vars => (TypeInv /\ SearchInv /\ Ours)'
  <2>1. TypeInv => TypeOK
    BY DEF TypeInv
  <2>. QED
    BY <2>1, TypeStep, SearchStep, OursStep
<1>3. TypeInv /\ SearchInv /\ Ours /\ [Next]_vars => [Stays]_vars
  <2> SUFFICES ASSUME TypeInv, SearchInv, Ours, [Next]_vars,
                      NEW i \in DOMAIN thread, NEW j \in DOMAIN thread',
                      thread'[j].id = thread[i].id, thread'[j] # thread[i], thread'[j].text \in Runs
               PROVE  thread[i].id \in carried[thread'[j].text]
    OBVIOUS
  <2>1. created \in Nat /\ thread[i].id \in Nat /\ thread[i].id <= created
    BY ThreadType DEF TypeInv, TypeOK, SearchInv, IdsUnique
  <2>2. ~ Kept(j)
    BY DEF Kept, SearchInv, IdsUnique
  <2>3. ~ Theirs(j)
    BY DEF Theirs
  <2>4. ~ New(j)
    BY <2>1 DEF New
  <2>5. Replaced(j)
    BY <2>2, <2>3, <2>4, ThreadMoves
  <2>. QED
    BY <2>5 DEF Replaced, Ours
<1>. QED
  BY <1>1, <1>2, <1>3, PTL DEF Spec, OthersStay
=============================================================================
