# A verification of CloudOracle

CloudOracle lists the resources of AWS, GCP and Azure accounts into PostgreSQL,
finds waste in them, serves costs to a dashboard, comments on pull requests what
a Terraform plan will cost, and answers questions through an LLM agent. It is a
Go program (`cmd/oracle`, `internal/`), a Python service
(`insights-agent/src/insights_agent`) and a React dashboard (`web/`).

This directory models the parts of it whose behaviour depends on order, failure
and concurrency, and those whose arithmetic decides what a user is told. TLC
checks the models on small instances, and TLAPS proves their main safety
properties for every value of the constants. Paths below are relative to the
root of the repository.

    tlc -workers 2 -config MCInventory.cfg MCInventory.tla
    tlapm InventoryProofs.tla

`PROJECT.json` lists the runs, the source lines behind every definition, the
hazards and the properties that cover them, and one faulty variant of the model
(a mutant) for every property, which the property must reject.

## 1. The system

### Components

| Component | State | Operations | What is hard | Modules |
|---|---|---|---|---|
| supervisor graph (`graph/supervisor.py`) | channels of the LangGraph state, kept per thread by the checkpointer | route, model call, tool call, synthesis | budgets that must hold per turn although the transcript is per thread; any call may raise | `AgentGraph` |
| runtime, guardrails, `POST /ask` (`runtime.py`, `guardrails/`, `api/app.py`) | one runner: its graphs and its checkpointer connection | ask, lazy building of the threaded graph, run, checks, judge, `aclose` | asks interleave at every `await`; every await may fail | `AgentRunner` |
| `pr-check`: cost of a plan (`internal/iac`, `internal/pricing`, `internal/diff`) | none between runs; a plan, its estimates, the report | extract, estimate before and after, sort, file, ask the LLM, render | a lookup may fail in the middle; signs, skips, ties, attribution of notes | `Extractors`, `Estimates`, `CostDiff` |
| `pr-check`: orchestration and comment (`cmd/oracle/main.go`, `internal/github`) | GitHub's comments | list page by page, update or post, exit code | list-then-write races with people and other runs; lost answers | `CommentUpsert` |
| cache of price lists (`internal/pricing/cache.go`) and its source, the Pricing API client (`aws.go`) | one file per key on a shared disk; the pages read so far | read, judge, remove, fetch page by page, write and rename | processes share the disk and may die at any step; prices change between pages | `PricingCache` under `BoundedStaleness` |
| `oracle`'s commands, exit codes, the life of `serve` (`cmd/oracle/main.go`, `internal/api/server.go`, `internal/report`) | the process, the output file, the listener, requests under way | load, connect, migrate, one command; listen, serve, shut down | a signal at any moment of the start or the shutdown; what exit code 0 may mean | `Oracle` |
| configuration (`internal/config`, factories of providers) | none; what the environment says | parse, default, check across variables | a setting that only another one makes necessary | `Config` |
| database connection and migrations (`internal/db/db.go`, `internal/migrations`) | which files are applied | ping, apply in order | two first processes on a fresh database | `Oracle` |
| chat widget of the dashboard (`web/src/components/ChatWidget.jsx`) | messages, `thread_id`, a request under way | send, begin anew | an answer that arrives in another conversation, or never | `AgentChat` |
| retrying transport (`internal/llm/retry.go`, `http.go`) | one request | send, back off, honour Retry-After, give up | overflow, bodies, one deadline over all attempts | `RetryTransport` |
| `seed` (`internal/cloud`, `internal/db`, `runSeed`) | the clouds, tables `resources` and `cost_snapshots` | four fetchers with deadlines, upsert transaction, snapshot transaction | partial listings, row locks and deadlocks of overlapping seeds, death at any step | `Inventory` |
| `serve` (`internal/api`, `internal/analyzer`, `internal/billing`) | those tables, a source of costs | nine endpoints that sum up, filter, sort, cut and page | consistency of answers that are computed apart | `CostApi` |
| price lists (`pricing/parse.go`, JSON files) | - | decoding | data, no control | - |
| LLM providers (`internal/llm/gemini.go`, `claude.go`, `openai.go`) | one call | request, read, decode | a response that is no success, no JSON, no text, or breaks off | `LLMProvider` over `RetryTransport` |
| logging, layout of reports, the agent's own configuration | - | printing, checks of single values | no control | - |
| rest of the dashboard (`web/`) | what a page shows | render, load | `useApi` shuts an outdated answer out with one flag | - |
| agent's tools over the API (`tools/cloudoracle.py`) | none | check and normalise arguments, one request, an observation | arguments are checked twice, in two languages, with limits written twice | `AgentTools` over `CostApi` |
| knowledge base, CLI | - | one search | failures become tool results | - (an observation in `AgentGraph`) |
| GitHub Action, images | - | assemble flags | no control | - |

### Interactions

    seed ──> resources, cost_snapshots ──> serve ──> dashboard ──────────────── chat widget
     (Inventory)                          (CostApi) │                          (AgentChat) │
                                                    └──> agent tools ──> supervisor graph <── runner <── POST /ask
                                                         (AgentTools)       (AgentGraph)     (AgentRunner)
    every command of oracle but pr-check: Config, then Oracle from the start of the process to its exit code
    plan ──> extract, estimate ──> diff ──> narrative ──> comment on the pull request
               (CostDiff) │                    │            (CommentUpsert)
                 price cache             language model ──> its transport
                (PricingCache)           (LLMProvider)      (RetryTransport)

* `seed` and `serve` share only the tables. `Inventory` has every step of a
  seed, `CostApi` its two transactions as the environment of the endpoints.
* The runner calls the graph and waits. `AgentGraph` has a conversation turn by
  turn, `AgentRunner` has a run as the results it gathers and one outcome.
* The chat widget and the runner share a thread by its id: `AgentChat` is
  `AgentRunner` with the widgets on top of it and the checkpoints of the threads
  under it.
* `AgentTools` is `CostApi` with the agent's tools as one more client; `AgentGraph`
  has what a tool tells the model as a result or a failure.
* `Oracle` has the processes around the components: `seed`'s store is one step
  there and all of `Inventory` here, a handler one request there and an answer
  in `CostApi`.
* `pr-check` calls estimators that look prices up through the cache, then an LLM
  through the retrying transport (`LLMProvider` is `RetryTransport` with the call
  around it), and then posts. In `CostDiff` every lookup and
  the LLM may fail in any way those modules allow; `CommentUpsert` starts from a
  plan that could be read or not, priced or not, written or not.

The interfaces are narrow (a call that succeeds, fails or takes time), so each
module takes its neighbours as an environment that is at least as free as they
are. `CostDiff` composes `Estimates` and `Extractors`, `AgentChat` composes the
widgets, the runner and the memory of its threads, `Oracle` the processes and
`Config`; `PricingCache` implements `BoundedStaleness`, `Inventory` implements
`SeedLedger`, `AgentChat` implements `AgentRunner`, and `LLMProvider` implements
`RetryTransport`.

## 2. The modules

| Module | Lines of code it stands for | Written in the style of |
|---|---|---|
| `AgentGraph`, `AgentGraphProofs` | `graph/supervisor.py` | a program counter over nodes, one action per node |
| `AgentRunner`, `AgentRunnerProofs` | `runtime.py`, `guardrails/runner.py`, `guardrails/validation.py`, `guardrails/fallback.py`, `api/app.py` | one process per ask, an action per stretch between awaits |
| `AgentChat`, `MCAgentChat` | `ChatWidget.jsx`, and the checkpoints of `runtime.py` | `AgentRunner` extended by widgets and threads |
| `Config` | `internal/config/config.go`, the factories in `internal/llm`, `internal/cloud`, `internal/billing` | a table of what is valid, and operators over it |
| `Oracle`, `MCOracle`, `CommandProofs` | `cmd/oracle/main.go`, `internal/api/server.go`, `internal/report`, `internal/migrations`, `internal/db/db.go` | one process per run of the binary, with the goroutine of its server |
| `CommentUpsert`, `CommandProofs` | `internal/github/comments.go`, `runPRCheck` in `cmd/oracle/main.go` | one process per run, an action per HTTP request |
| `BoundedStaleness` | the promise of `Cache`'s comment and of its ttl | an abstract specification |
| `PricingCache`, `MCPricingCache`, `PricingCacheProofs` | `internal/pricing/cache.go` | one process per `oracle`, an action per system call |
| `RetryTransport`, `HttpProofs` | `internal/llm/retry.go`, `http.go` | one request with a clock |
| `LLMProvider`, `MCLLMProvider`, `HttpProofs` | `internal/llm/gemini.go`, `claude.go`, `openai.go` | `RetryTransport` extended by the call around it |
| `SeedLedger` | what `runSeed`, `InsertResources` and `CreateSnapshot` promise of the database | an abstract specification |
| `Inventory`, `MCInventory`, `InventoryProofs` | `internal/cloud`, `internal/db`, `internal/generator`, `runSeed` | one process per seed, four fetchers each, PostgreSQL around them |
| `Extractors`, `Estimates` | `internal/iac/{aws,gcp,azure}`, `internal/pricing` | operators, one per type of resource |
| `CostDiff`, `MCCostDiff`, `CostDiffProofs` | `pricing/change.go`, `internal/diff` | a sequence of phases |
| `CostApi`, `HttpProofs` | `internal/api`, `internal/analyzer`, `internal/billing`, queries of `internal/db` | requests between transactions; operators, one per handler |
| `AgentTools`, `MCCostApi`, `HttpProofs` | `insights_agent/tools/cloudoracle.py` | `CostApi` extended by a client that checks its arguments |
| `NumberFacts` | - | lemmas for the proofs: least and greatest elements, induction stated with sets, `SumFunction`, the places of an order, of a subsequence and of a stable sort |

### AgentGraph

A turn of a conversation. `Ask` is `ask_supervisor`: it appends the question and
overwrites the accounting channels (a checkpointed thread keeps the transcript
and nothing else). `Supervise` is the supervisor's node with its caps, in the
order of the code; `WorkerModel` and `CallTool` are the two halves of
`_run_react`'s loop, with the budget that is computed once per visit and the
calls that are appended before the budget is tested; `Synthesize` is the last
node and what `ask_supervisor` picks as the answer; `Raise` is any call that
raises, which leaves what was already checkpointed. Texts are "", the
placeholder "(no findings)" or any other. The models and tools are free.

### AgentRunner

Asks of one runner, each a coroutine that runs from await to await: `Ask` picks
the cached graph or starts to build, `Enter` and `Setup` are the two awaits of
opening the checkpointer, between which other asks run, `BuildFails` is either
of them raising, `Observe`, `RunEnds` and `RunFails` are the run, `Check` is the
numeric guardrail, `Judge` and `JudgeFails` the LLM judge, `Close` is `aclose`.
An amount is a model value and is grounded when the tools returned it. What the
user reads of a run has three kinds of amounts: those of a narrative, those of
the raw data of a fallback, and those that its line "Reason: ..." quotes
(`Fallback`): the ungrounded ones of a failed check, and any in the words of the
judge or of an exception.

### AgentChat

What a user of the dashboard sees of the runner. `Send`, `Deliver`, `Lose` (the
request fails while its run goes on) and `New` (a new conversation, which does
not cancel the request under way) are the widget. `Arrive`, `Build`, `Load`,
`Observes`, `Ends`, `Fails` and `Vets` are the runner's steps with what they do
to the checkpoint of a thread: a run loads it when it begins, and each superstep
replaces it by what the run started from and has added since. `heard` is a
history: what a conversation showed when a question was sent.

### Config and Oracle

`Valid`, `Default` and `Requires` are the tables of `config.go`; `Load` refuses
an environment or returns the settings, `NewLLM`, `NewCloud` and `NewBilling`
are the factories, which look at the settings again. In `Oracle` a process is
started with a command line in an environment and ends with an exit code:
`LoadConfig`, `Connect`, `Migrate` and `Create` (the statements of a file are
one transaction), `Dispatch`, and then the steps of its command. `serve` is two
threads of control, `Run`'s select (`SelectError`, `SelectDone`, `Drained`,
`DrainTimeout`) and the goroutine of the listener (`Listen`, `Track`,
`Unserve`), which a signal may meet at any point. `Fails`, `Signal` and `Dies`
may come anywhere. `late` is a history of which command met what missing after
its start, `file` how far the output file came: to its last write, or to its
close (`Written`).

### CommentUpsert

`Prepare`, `Output` and `Flags` are `pr-check` before GitHub, with their exit
codes, that of `--help` too; `List` is one page of `listComments`, `Post` and `Update` the write, whose
answer may be lost, `Missing` the 404 of a comment deleted meanwhile, `Fail` any
request that GitHub refuses or never gets. `Say`, `Edit` and `Delete` are
people, who may rewrite any comment, with the marker or without. `Update` is
unconditional, as the PATCH is. A comment is who wrote it, whether it carries the marker (quotes do) and
when it was updated; a body too long for GitHub loses its marker with its end.

### PricingCache and BoundedStaleness

`BoundedStaleness` says what a caller may rely on: an answer has every part of a
list, and each part was in force within the window before it was given.
`PricingCache` has `GetProducts` system call by system call: read, judge
(`Check`), remove an expired or corrupt entry, ask the source (`Ask`, one `Page`
per request of `Client.GetProducts`, `AskFails`, `Answered`), create the
temporary file, write it, rename it; each may fail, the removal of the temporary
file too (`GiveUp`), and a process may crash at each. A list may be longer than the pages that are read of it (`MaxPages`). The refinement maps a process's answer to the one it
is bound to give (`Decided`) and the window to the ttl plus the time of one
fetch.

### RetryTransport and LLMProvider

`Send`, `Respond`, `Break` (the network), `GiveBack`, `Retry` (drain, close,
compute the wait), `Wake` and `Cancel` (the client's timeout). `Wrap` is the
arithmetic of an int64: seconds times a billion and `base << attempt` wrap.

`LLMProvider` has `GenerateText` around it: `Do` is any step of the transport,
`DoFails`, `ReadAll` and `ReadBreaks` are what comes of it, `Judge` what is made
of a whole body (`TextOf`). `Return` closes the body on every path that has one,
as the deferred Close does. An empty text is a success, for which `CostDiff`
allows. The three models differ in one thing: Gemini's answers are
decoded without an error object, so that a body with both an error and a text is
a text there and a failure elsewhere (`Refuses`).

### Inventory and SeedLedger

`Start` runs four fetchers per real provider. `ReadPage` is a page of a listing
of a cloud that changes meanwhile (`Change`), `RequestFails` and `Expire` end a
fetcher, which discards what it has (`Discard`) except where the code keeps it:
Azure SQL goes server by server and skips the ones that fail. `Gather` joins
them, `ExecRow` upserts one row under its lock, `Deadlock` is PostgreSQL
choosing a victim, `InsertFails` rolls back, `Commit` commits (its answer may be
lost), `Stamp` and `Record` are the snapshot transaction, whose NOW() is its
beginning. `Dies` may come anywhere. `Cell` and `TotalCost` are `ListTrends`.

`SeedLedger` knows no fetchers, row locks, deadlocks, victims or lost answers: a
seed has a list (`Prepare`), which enters the table in one step, each id's row
made of the first and the last resource of that id (`Enters`), and is summed up
in one step or not at all (`Record`); or the seed gives up (`Forget`). The
refinement takes a list to be under way from the end of the fetch to the end of
the seed, and stored from the commit on; a commit whose answer is lost is a list
that enters and is forgotten.

### Extractors, Estimates and CostDiff

`Extractors` says which attributes each of the 13 extractors needs, defaults and
rejects; `Estimates` which price keys each estimator looks up with which amount,
which confidence and notes it gives, and which states it refuses. `CostDiff`
has `Estimate` for each change of the plan with any set of its lookups failing,
`Sort`, `File` (sections, totals, confidence), `Ask` (the narrative's prompt and
any answer of the LLM: none, an error, blank, nothing but a preamble, too long,
prose) and `Render`. Amounts are in tenths of a cent.

### CostApi

`Upsert` and `Record` are the two transactions of a seed; a seed may fail
between them. `Pass` is the time between requests: `clock` is NOW() and what
`time.Since` subtracts from, so that resources come of age (`Flagged`) and
snapshots leave a window (`Since`) while the tables stay. `Answered` and
`Refused` are requests: an operator per handler gives the set of the answers it
may give at a moment, a set because the analyzer sorts unstably by whole cents
and the inventory leaves ties open. `answers` is a history of two exchanges
since the tables changed, with the moment of each, which is what two requests of
a page are. `source` is where costs come from: a bill, or the snapshots a
server without credentials falls back to.

### AgentTools

`ToolCall` is one call of one of the five tools, whole: the checks of its
arguments, the request they become, every way it can fail, and the observation
for the model. The checks are those of the client (`strptime`, names stripped
and in lower case, ranges); what the server then does with the request is
`Invalid`, `Codes` and `Handled` of `CostApi`. The two disagree on dates such as
2026-4-1, which Python takes and Go refuses.

## 3. What the runs check

Each run has a type invariant (except `cost_api` and `cost_diff`, whose actions
only ever store what an operator returns, and whose properties say what that is)
and the properties below. The comment above each definition says
which behaviour of the code it is about.

**agent_graph** - two turns of a conversation with two specialists, two hops,
three tool calls, two iterations per visit and batches of up to two calls.
`ToolBudgetRespected` and `LLMCallsBounded`: the caps hold whatever the models
ask for and however the calls are spread over visits. `SynthesisFromThisTurn`:
the synthesizer sees all findings of its own turn and none of an earlier one,
also one that raised half way. `FirstHopDispatches`: an earlier turn's spending
never starves the next one. `TurnEnds`: every turn ends. The caps are small
enough to be hit in every order and large enough that a visit and the turn hit
them at different times; a second turn is what a stale channel needs.

**agent_chat** - three threaded asks of a widget that may begin a new
conversation at any time, two threads, an answer lost. `ShownIsVetted`: nobody
is told an amount, in a narrative or as data, that the tools of that very run
did not return; the reason of a fallback may quote others, and that of an
ungrounded answer quotes exactly those.
`OnlyTroubledLeak`: a database connection outlives the runner only if two first
asks raced or a building failed, which is more than "entered here, closed in
aclose" (runtime.py) and less than the code may one day want. `FollowUpsCarry`:
a run starts from every exchange its conversation had shown, because the widget
waits for an answer before it sends again; where an answer was lost it may not,
because then two runs of a thread overlap. `RepliesInTurn`: a reply stands under
its own question, or on top of the conversation that was begun meanwhile. Two
asks are needed to race and a third one to come upon what they leave; one widget
suffices for two conversations at once.

**oracle** - a process that is started with every command and with usable,
unusable and malformed flags, in complete environments and in all that differ
from one of them in one setting, beside one that serves or seeds on the same
database, port and migrations; two requests. `ZeroMeansDone`: exit code 0 means
that the command did its work (every write to a file succeeded, if not its
close), and that a server was told to stop and cut no request off. `FailsEarly`:
what `Load` and the migrations let through misses no setting and no table later,
but for `serve`, to which `Load` leaves its API key. `StopsWhenTold`: a server that is told to stop stops,
whatever its handlers do. Two processes are what the port and the race of the
migrations need, two files a process that comes upon a half-migrated database.

**comment_upsert** - two overlapping runs, up to two comments of people, one
edit and one deletion of any comment, pages of one, two pages read.
`PostsOnlyIfNone`, `NewestIsPicked`, `OthersStay`, `ExitTells`: a run posts only
when no marked comment was there all the while, updates the most recent one,
replaces only what carried the marker at some time while it listed, and exits
with a code that tells what happened. With four comments and two read, a page
ends a listing, a thread ends on a page, and a thread is too long; one edit is
what a comment needs to lose its marker between the listing and the update.

**pricing_cache** - two processes, two prices, lists of three pages of which two
are read, four moments, a ttl and a fetch of one tick each. `KeepsPromise` is the refinement of `BoundedStaleness`;
`NeverHalfWritten` is what the comment of `Cache` says of the files. Two processes are enough for an old entry to be renamed over a
younger one and for a fresh one to be removed. Processes and prices are
interchangeable, so the symmetry is sound; the run has no liveness property.

**llm_call** - a call of each model with three retries on five-bit integers, on
which five seconds and the fourth backoff overflow. `TriesSpent`: a failure
reaches the caller only after the last attempt. `BodiesWhole`: every attempt
carries the whole prompt, a text is read whole from a response that was no error,
and no body is left open. `DelayInBounds`: no wait is longer than the cap.
`Answers`: the call returns.

**inventory** - two overlapping seeds, of one AWS account, of AWS and Azure, and
of Azure and the synthetic provider, two names that collide between services,
two Azure servers, one change of the cloud. `SnapshotsTell`: a snapshot never
counts less than what stayed in the cloud all through the fetch (Azure SQL
excepted) nor more than what was there at some time. `KeepsLedger` is the
refinement of `SeedLedger`: whatever fails, the tables move by whole lists of one
seed, and the snapshots are of lists that have entered. `TrendsTell`: a trend
shows what the last seed of the day listed, in the order of their beginnings.
`SeedEnds`: every seed ends. Two names are what lists that lock in opposite
orders need to deadlock; two ticks a day let a day change between two snapshots.

**cost_diff** - every estimator at its boundaries in plans of one change, and
all plans of two and three from thirteen changes that differ in action, sign,
size, confidence and fate, with every set of failing lookups and with or without
the LLM. `PlanAccountedFor`: each managed change appears exactly once, in the
section of its fate and in its order, with the movers in front (`MoversLead`).
`NetChangeIsWorth`: the total and each row are what the
resources are worth after the plan less before, computed from the prices and not
from the deltas. `CaveatsKeepTheirResource`: the notes are those of the right
changes. `CommentComes`: whatever fails, there is a comment.
Three changes are what a tie and a limit of two need.

**cost_api** - pairs of requests of one client, at one moment or at two, before,
between and after the transactions of two of four scans. `AnswersAgree`: summary,
resources, findings, recommendations, inventory, trends and costs say the same of
the same rows, however they are filtered, cut and arranged. What is found may
only grow with time; two trends are compared by the moment their windows begin;
what is recommended for a cloud stands in the inventory under that cloud; and a
cloud's day in a trend is what its accounts cost, but for days with a
subscription's functions (section 6). `PagesInOrder`: two pages of one list at
one moment are disjoint in rank, full, and end where they should, although each
request sorts anew. `TakenAtItsWord`: what a tool of the agent lets pass, the
server neither refuses (but for a short date) nor cuts down nor replaces by a
default, so that the model gets what it asked for; the calls are on both sides
of every limit. Four moments are two days; in them two instances come of age for
their rule and a day's snapshots leave its window. The scans tie in savings and in cost, both other clouds have
a service named `functions`, and the limits are below the number of findings.

### Disagreements between the code and what is said of it

Three runs look for one property that a comment or document states, and find it
violated.

* **agent_graph_exhausted**: `supervisor.py:319` says "Iteration budget exhausted
  - return whatever the last AI message said". The last message is always a tool
  message there, so the specialist's text is lost and "(no findings)" reported.
* **comment_marker**: `docs/v2-guide.md:23` says "subsequent pushes update that
  comment in place instead of stacking new ones". With `--marker` the footer
  keeps the default marker, the search looks for the other one, and comments
  stack.
* **cost_api_period**: `cost_handlers.go:324` says "periodDays returns the
  inclusive day span of the period". From 171 days on the float64 of its hours
  no longer has the nanosecond by which the period ends before midnight, and a
  day is added twice: 200 days are scaled as 201.

### Fairness

* `AgentGraph`: weak fairness of the graph's step. The event loop resumes a
  coroutine whose awaited call returned or raised, and every call has a timeout.
  `Ask` is not fair.
* `LLMProvider`: weak fairness of its step, the transport's included. The
  client's timeout cancels what does not answer, and the read of a body.
* `Inventory`: weak fairness of `Expire`, because the context of a fetcher has a
  deadline; not of `ReadPage`, because a cloud may never answer; of `Gather`,
  `ExecRow`, `Commit`, `Stamp` and `Record`, which run on when they can; and of
  `Deadlock`, which PostgreSQL detects after its timeout. Not of `Start`,
  `Dies`, `Change`.
* `CostDiff`: weak fairness of a sequential program. Lookups end, in an error at
  the latest.
* `Oracle`: weak fairness of what a process does by itself: its start, its
  command, the goroutine of its listener, and the end of its server, which
  includes the timeout of the shutdown. Not of handlers, signals, failures or
  deaths.
* The other modules state no liveness and no fairness.

### Deadlock

It is checked in `pricing_cache`, `inventory`, `cost_diff`, `cost_api` and
`oracle`, whose processes may always be started again.
`Inventory` and `CostDiff` have an explicit step for "all has ended", so that
only a seed that waits for ever would be a deadlock. Elsewhere a behaviour may
end: the conversation, the asks and the widgets' questions, the runs of
`pr-check` or the request are over.

## 4. What is proved

The theorems hold for every value of the constants that satisfies the
assumptions named in the modules; no other assumption is made. `AmountsAreJudged`,
`OnlyTheseRaise`, `WithinWindow`, `ConfidenceIsWeakest` and
`ListingsTell` are proved and in no run: the proof says more than TLC would.

Induction theorems that take an operator are out of the provers' reach, so
`NumberFacts` states induction with sets: a set of naturals that has 0 and with
each number the next has them all, and a family of subsets of a finite set that
has a subset whenever it has each subset with one element less has them all.
What the proofs need of sums follows from it: `SumFunction` satisfies its
recursion, whichever element it takes first; it splits, grows by one summand,
is indifferent to names and to zeros, goes through differences, and of naturals
grows with its summands. So do the places of a subsequence, by their ranks: an
order of a finite set gives each element one place, and a sort that sends each
element to its stable place (`SortSeq` as the code uses it) is a permutation
after which nothing stands before what should precede it.

Some assumptions on constants carry facts of the code that the models do not
derive: a plan's actions are Terraform's (`PlansAreTerraforms`), a scan lists an
id once and is of one account (`CostApiAssumption`), and the tools of the agent
stop at what the server has to give (`AgentToolsAssumption`: 200 entries, 365
days and 1000 services, in `cloudoracle.py` as in `internal/api`). The last is
what `ServerTakesTools` is about: raise a limit on the Python side only, and
the assumption, which TLC evaluates, no longer holds.

| Theorem | Property | Inductive invariant |
|---|---|---|
| `AgentGraphProofs!TypeCorrect` | `TypeOK` | itself |
| `AgentGraphProofs!BudgetHolds` | `ToolBudgetRespected` | `BudgetInv`: within a visit calls done and calls recorded stay under the cap; outside, no visit's counters survive |
| `AgentGraphProofs!CostHolds` | `LLMCallsBounded` | `CostInv`: model calls so far against hops and iterations, node by node |
| `AgentGraphProofs!FirstHopIsFree` | `FirstHopDispatches` | `FreshInv`: before its first hop a turn has recorded no call |
| `AgentGraphProofs!SynthesisIsFresh` | `SynthesisFromThisTurn` | `TranscriptInv`: the thread's last question is this turn's, and all after it is of this turn; with the lemmas of `NumberFacts` on greatest elements |
| `AgentRunnerProofs!TypeCorrect` | `TypeOK` | itself |
| `AgentRunnerProofs!ShownHolds` | `ShownIsVetted` | `GroundedInv`: an ask under judgement is grounded already |
| `AgentRunnerProofs!AmountsGoToTheJudge`, `!RunsNeverRaise` | `AmountsAreJudged`, `OnlyTheseRaise` | `TypeOK` alone: each step is looked at |
| `AgentRunnerProofs!LeaksExplained` | `OnlyTroubledLeak` | `ConnectionInv`: an untroubled open connection is the one `aclose` knows |
| `AgentRunnerProofs!ChatRunsRunner` | the chat implements the runner | none: each step of the chat is one of the runner's or leaves it alone, so that `ShownHolds` and `LeaksExplained` hold under the chat |
| `AgentRunnerProofs!ChatTypeCorrect` | `ChatTypeOK` | `SentInv`: what is under way has a thread |
| `AgentRunnerProofs!RepliesStayInTurn` | `RepliesInTurn` | `TurnInv`: a widget waits for one question, the last of its conversation or one of the conversation before |
| `AgentRunnerProofs!FollowUpsHold` | `FollowUpsCarry` | `ThreadInv`: on a thread that is not torn at most one ask is unfinished; `MemoryInv`: its latest checkpoint, and the one a run started from, have all that ended before |
| `CommandProofs!TypeCorrect` | `TypeOK` | with `Dated`, `Listed`: nothing is dated after the clock |
| `CommandProofs!ExitCodesTell` | `ExitTells` | `RunInv`: what each stage has done |
| `CommandProofs!PostsRightly` | `PostsOnlyIfNone` | `SearchInv`: ids are unique, steady comments stay marked, and those on the pages read were matched |
| `CommandProofs!OthersAreKept` | `OthersStay` | `SearchInv` with `Ours`: what a run has matched, and is about to update, carried the marker at some time while it listed |
| `CommandProofs!NewestIsUpdated` | `NewestIsPicked` | `NewestSeen`: a steady comment of the pages read that nobody has touched since the listing began is no newer than the best match kept |
| `CommandProofs!LoadIsEnough` | no factory refuses what `Load` lets through | none: the factories' conditions against `Requires`, for every environment |
| `CommandProofs!OracleTypes`, `!ZeroIsDone`, `!NothingIsMissedLate` | `OracleTypeOK`, `ZeroMeansDone`, `FailsEarly` | `OracleInv`: for each process, the files before the one it is at are applied, its configuration is one that `Load` let through, its place fits its command, no code and no new file come before their time, and the channel tells of a shutdown only after a signal |
| `InventoryProofs!TypeCorrect` | `TypeOK` | itself |
| `InventoryProofs!LedgerKept` | `KeepsLedger` | each step maps to a step of `SeedLedger` or to a stutter, by `Locks`: no two seeds hold a row, and a seed's uncommitted rows are what the first rows of its list make of the table |
| `InventoryProofs!ListingsHold` | `ListingsTell`: what a fetcher has gathered was there, is there once, and is all that stayed when it ends with anything | `FetchInv`: a list is of names up to the fetcher's cursor and holds those of them that stayed; a page is a beginning of what follows the cursor |
| `InventoryProofs!SnapshotsHold` | `SnapshotsTell` | `ListedInv`: a gathered list tells of its slice as long as it is there; with `ListingsHold` under it, and `SumFunction` and the counts by the length of the list |
| `InventoryProofs!TrendsHold` | `TrendsTell` | `TakenInv`: snapshots are of lists of seeds that ended well, and dated no later than the clock |
| `PricingCacheProofs!TypeCorrect` | `TypeOK` | `IInv` |
| `PricingCacheProofs!NeverHalf` | `NeverHalfWritten` | `IInv` with `CacheInv`: every page of every entry anywhere was in force within one fetch of its stamp, and the pages read so far since the fetch began |
| `PricingCacheProofs!PromiseKept` | `KeepsPromise` | the same; each step maps to a step of `BoundedStaleness` or to a stutter |
| `CostDiffProofs!WeakestHolds` | `ConfidenceIsWeakest` | `FilingInv`: estimates are rated by lemmas over all estimators, and nothing is filed before they are sorted |
| `CostDiffProofs!NetChangeHolds` | `NetChangeIsWorth` | `SoundInv`: each estimate is its resource's gain, by lemmas over all estimators and over the merge of two states' lines, whose components stay distinct; `TotalInv`: the total is the sum of the gains filed so far, which grows by one address at a time |
| `CostDiffProofs!PlanIsAccountedFor` | `PlanAccountedFor` | `ShowInv`: addresses stay distinct and keep their action through the sort, and the sections hold just the changes filed so far, each once; `OrderInv`: once sorted, the absolute deltas do not increase; `CountInv`: the sections have as many as are filed, and Skipped as many as are skipped |
| `CostDiffProofs!CaveatsHold` | `CaveatsKeepTheirResource` | `ShowInv` with `CommentInv`: the prompt and the comment are made of the changes as they are filed |
| `HttpProofs!EndpointsAgree` | `AnswersAgree` | `ApiInv` (`AnswersStand`): the table has one row of each id with the cost and the service of a listed one, snapshots are of the past, and every answer that is remembered is one its handler gives of these tables at the moment of the answer; then endpoint by endpoint, by sums over equal sets of rows, over sets of findings that grow with time, and by the beginnings of a list that an order leaves open only where it ties |
| `HttpProofs!PagesFitTogether` | `PagesInOrder` | `ApiInv`; at one moment the findings of each request are a stable sort of one listing, whose ranks the pages cut |
| `HttpProofs!ToolsOnlyAsk` | `AgentTools` implements `CostApi` | none: a call reads the tables and changes `observed` alone |
| `HttpProofs!ServerTakesTools` | `TakenAtItsWord` | `ToolsInv`: what the model is told of a call is an outcome of that call; with `ApiInv` of the server under it |
| `HttpProofs!TypeCorrect`, `!TriesAreSpent`, `!DelaysBounded`, `!WindowHolds` | `TypeOK`, `TriesSpent`, `DelayInBounds`, `WithinWindow` | `IInv` with `LoopInv`: attempts against round trips, and what is open, stage by stage |
| `HttpProofs!ProviderRuns` | `LLMProvider` implements `RetryTransport` | a call's own steps change nothing of the transport's |
| `HttpProofs!ProviderTypeCorrect`, `!BodiesAreWhole` | `ProviderTypeOK`, `BodiesWhole` | `CallInv`: what is due to be closed follows from what the transport returned; with `IInv` of the transport under it |

The invariants are needed because none of the properties is inductive by itself:
`ToolBudgetRespected`, for instance, says nothing of a visit's calls that are
requested but not yet executed, and `KeepsLedger` nothing of a transaction that
is half way.

Every safety property of the passing runs is the property of a theorem. Only
model-checked is liveness (`TurnEnds`, `Answers`, `SeedEnds`, `CommentComes`,
`StopsWhenTold`), which is out of the prover's reach, as is ENABLED.

## 5. Bounds and simplifications

Counters that the code leaves unbounded are bounded by constants whose comment
begins with "bound:": turns and calls in a message (`AgentGraph`), comments made,
edited and deleted (`CommentUpsert`), ticks (`PricingCache`), changes of a cloud
(`Inventory`), seeds, ticks and remembered exchanges (`CostApi`). The theorems hold for
every value of them. Beyond the bounds:

* `AgentGraph`: texts are what the code tests of them; LangGraph's checkpointer
  saves after every node and is not modelled below that.
* `AgentChat`: a thread holds questions and answers, not the findings between
  them. An answer is lost on at most `MaxTorn` threads.
* `AgentRunner`: a number grounds another exactly; the tolerance of a cent or a
  percent is not modelled.
* `PricingCache`: one key; keys do not interact. The pages of a list are as many
  whenever they are read, and each is of the moment it is served. Time passes between system
  calls, a fetch takes at most `Latency`. Clocks agree, so an entry stamped in
  the future, which would never expire, does not occur.
* `RetryTransport`: any width of integers (`MaxInt`), so that the run can
  overflow within few states. Jitter is any value the code may draw.
* `Inventory`: a resource is a name, a service and a cost from a small set; types,
  tags and usage are not read by what is checked. The synthetic
  provider draws any list of `Count` resources whose ids keep to their service.
* `CostDiff`: the estimate of a change is one step, because its lookups share
  nothing with other changes. An attribute that is empty counts as absent, one of
  a wrong type is a single value. Deposed objects that share an address are not
  modelled; rounding for display neither.
* `CostApi`: amounts are such that averages and scaling are exact in tenths of a
  cent, because what is compared is which rows enter a sum and when it is
  rounded. A resource is idle or large by its rule's thresholds, and old by the
  clock. A request reads the clock once, where the code asks NOW() in each query
  and `time.Since` for each resource, and an exchange takes no time. Within the
  run's four moments no trend of two days is compared with one of another moment;
  `EndpointsAgree` has no such bound.
  Percentages, the counts of resources in the dashboard's trends, request ids,
  CORS, logging, the embedded UI and numbers of twenty digits are left out.
* `AgentTools`: a call comes between the exchanges of other clients and is looked
  at before anything else happens, because it neither changes the tables nor
  reads what was asked before. The types of arguments are checked by the library
  that calls the tools.
* `Config`: one variable at a time is spoilt, which is enough because `Load`
  looks at each by itself and at three choices and what they need; settings that
  any text satisfies are left out. `Oracle`: a migration is a file that is
  applied or not, a port is free or not, what is printed is left out.

Not modelled at all, with the reason in `PROJECT.json`: the decoding of price
lists, the rest of the dashboard, the agent's
knowledge base, its configuration and its CLI, and the delivery as an action.

## 6. Observations

Met while modelling, and without a run of their own:

* A Retry-After of more than 9223372036 seconds overflows the nanoseconds of an
  int64 and may become negative: the retry is immediate (`retry.go:178`).
  `DelayInBounds` bounds such a wait from above only.
* An expired entry is removed by name after its bytes were judged, and may be
  another process's fresh one by then (`cache.go:178`). The next call pays a
  fetch; the promise holds. Temporary files stay where a process crashed or their removal
  failed (`cache.go:222`). A list
  cut at the cap of pages is answered and stored like a whole one (`aws.go:125`).
* What stands in for an answer with ungrounded amounts quotes those amounts in its
  line "Reason: ..." (`fallback.py:33`), above the raw data.
* `pr-check` overwrites a comment that a person has rewritten after it was listed,
  with the marker or without: the PATCH is unconditional (`comments.go:264`).
* `export` defers the close of its file and drops its error (`main.go:419`): what a
  full disk makes of the last write may end with 0. gofpdf, which writes the
  report, is outside `src/` and taken to do the same.
* Two runs of `pr-check` on one pull request may both find no comment and both
  post. A deletion between two page requests shifts the marked comment onto a
  page already read.
* `supervisor.py:227` calls the answer it picks the "synthesizer output". An
  empty synthesis makes the scan go on to an older message: a finding, or on a
  thread an answer to an earlier question.
* Two first threaded asks that race leave a connection open (`runtime.py:89`).
  An exception of the judge gets past `run_guarded`. After an exception of the
  run the fallback says that no data was retrieved, although some was.
* The tables are keyed by id alone, and names of databases and functions are
  unique only within a service, region or account: a row may keep the first
  one's account and service with the last one's cost.
* `ListTrends` keeps one snapshot per day and service, whatever the account, so
  that of several accounts with one service only the last counts. `oracle trend`
  takes the first snapshot of the latest date for the latest.
* The real providers leave the usage metric 0, so that every volume and every
  instance older than a week is flagged; no rule ever matches a service of GCP
  or Azure.
* Trends and recommendations derive the cloud without the account, so that
  Azure's `functions` count as GCP's in a trend and as Azure's in the summary, the
  inventory and the costs. No rule finds anything in `functions`, so that
  recommendations are not wrong yet.
  Two clouds' `functions` at equal cost have no fixed order in the inventory.
  `ListResources` has no tiebreak, so that ties may repeat or be missed.
* Azure's billing reads one page of results only.
* `docker-compose.yml` starts `serve` without a `CLOUDORACLE_API_KEY`, so that
  the container exits with 1 and is restarted for ever, while `README.md:119`
  promises a dashboard from `docker compose up`.
* `insights-agent-ingest` is said to refresh the corpus (`rag/ingest.py:15`) and
  appends, as the agent's README says at line 267: without `--recreate` the
  chunks of an edited document stay beside those that replace them and crowd the
  four a search returns.
* Two first processes on a fresh database may both find no table: one of them
  fails on `CREATE TABLE IF NOT EXISTS` and exits with 1.
* A listener that breaks in the moment a signal comes may end `serve` with 0
  (`server.go:121` chooses either). A second signal during the shutdown is
  ignored.
* `export --format=wrong` empties the output file before it looks at the format.
  Flags pass by the checks of the configuration: `seed --count -1` panics and
  `serve --port 70000` fails in the listener.
* Skipped changes sort before priced ones without a delta, although
  `diff/types.go:21` expects them last, and the notes speak of an increase where
  the header shows $0.00. An "unsupported engine" counts as unsupported in the
  notes and as a failure in the narrative. No estimator is ever of high
  confidence.

## 7. Plan

Done, in this order: `AgentGraph`, `PricingCache` under `BoundedStaleness`,
`RetryTransport`, `CommentUpsert`, `AgentRunner`, `Inventory`, `Extractors`,
`Estimates`, `CostDiff`, `CostApi`, and their proofs.

Then `AgentChat` over `AgentRunner`, with its proofs, `Config` and `Oracle`, and
`SeedLedger` with the proof that `Inventory` implements it, and `LLMProvider`,
and `AgentTools` over `CostApi`. Last, the pages of the price lists under
`PricingCache`, and the proofs that changes are filed once, caveats kept, the
newest comment updated and the listings whole; then `NumberFacts`, and on it
the proofs about exit codes and serving, snapshots and trends, the amounts,
movers and counts of a comment, and that the endpoints agree, their pages fit
together and the tools get what they ask for.

Next:

* An abstract specification of the history of snapshots that `CostApi` and
  `Inventory` both implement: each has its own tables so far, `CostApi` one seed
  at a time.
* The files the reports write and the dashboard stay outside (section 1): what
  could go wrong there is wording and layout.
