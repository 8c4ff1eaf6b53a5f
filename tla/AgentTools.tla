----------------------------- MODULE AgentTools -----------------------------
(***************************************************************************)
(* The tools by which the insights agent asks the versioned endpoints of   *)
(* `oracle serve` (insights_agent/tools/cloudoracle.py).  The language     *)
(* model chooses the arguments, a tool checks and normalises them, makes   *)
(* one request, and turns every failure into an observation.  The server   *)
(* checks the parameters once more, in its own way and in another          *)
(* language.                                                               *)
(***************************************************************************)
EXTENDS CostApi

CONSTANTS
    Calls,      \* the calls the language model may make
    ToolLimit,  \* [Lists -> Nat]: the most a tool lets it ask for
    Spellings,  \* [names spelled oddly -> the names in lower case without blanks]
    None,       \* an argument that is left out
    NoCall

Tools == {"cost_summary", "cost_by_service", "recommendations", "cost_trends", "inventory"}

\* The tools ask for no more than the server has to give: both sides stop at 200
\* entries (maxPageSize), 365 days (maxTrendDays) and 1000 services.
ASSUME AgentToolsAssumption ==
    /\ ToolLimit \in [Lists -> Nat] /\ \A list \in Lists : ToolLimit[list] <= Limit[list]
    /\ \A c \in Calls :
        /\ c.tool \in Tools
        /\ c.tool \in {"cost_summary", "cost_by_service"} => c.start.day \in Int /\ c.end.day \in Int
        /\ c.tool = "cost_trends" => c.days \in Int
        /\ c.tool \in {"cost_by_service", "recommendations", "inventory"} => c.top \in Int

VARIABLE observed   \* the call last made and what the model is told of it

toolVars == <<source, table, unsaved, snapshots, clock, seeds, answers, observed>>

ToolsInit == ApiInit /\ observed = NoCall

-----------------------------------------------------------------------------
(* What the tools refuse.  A date is a day in one of three forms: padded    *)
(* as in 2026-04-01, "short" as in 2026-4-1, or no date at all.             *)

CallDates(c) == IF c.tool \in {"cost_summary", "cost_by_service"} THEN {c.start, c.end} ELSE {}
Short(c) == \E d \in CallDates(c) : d.form = "short"

\* strptime takes short dates too.
Dated(c) == /\ \A d \in CallDates(c) : d.form # "none"
            /\ CallDates(c) # {} => c.start.day <= c.end.day

Normal(name) == IF name \in DOMAIN Spellings THEN Spellings[name] ELSE name

\* Optional but for the services of one cloud; an empty name is none of them.
Known(c) ==
    CASE c.tool = "cost_summary"    -> \A p \in c.providers : Normal(p) \in Clouds
      [] c.tool = "cost_by_service" -> Normal(c.provider) \in Clouds
      [] OTHER -> /\ c.provider # None => Normal(c.provider) \in Clouds
                  /\ (c.tool = "recommendations" /\ c.severity # None) => Normal(c.severity) \in Severities

\* Mutant: the upper bound of a range is forgotten.
InRangeAbove(asked, list) == asked >= 1
InRange(asked, list) == asked \in 1..ToolLimit[list]

Bounded(c) ==
    CASE c.tool = "cost_summary"    -> TRUE
      [] c.tool = "cost_by_service" -> InRange(c.top, "services")
      [] c.tool = "cost_trends"     -> InRange(c.days, "trends")
      [] OTHER                      -> InRange(c.top, c.tool)

Accepted(c) == Dated(c) /\ Known(c) /\ Bounded(c)

-----------------------------------------------------------------------------
(* The one request of a call and what comes of it.                         *)

Filter(name) == IF name = None THEN Absent ELSE Normal(name)

Request(c) ==
    CASE c.tool = "cost_summary" ->
              [to |-> "cost-summary", start |-> c.start.day, end |-> c.end.day,
               providers |-> {Normal(p) : p \in c.providers}]
      [] c.tool = "cost_by_service" ->
              [to |-> "cost-by-service", start |-> c.start.day, end |-> c.end.day,
               provider |-> Normal(c.provider), top |-> c.top]
      [] c.tool = "recommendations" ->
              [to |-> "recommendations", provider |-> Filter(c.provider),
               severity |-> Filter(c.severity), top |-> c.top]
      [] c.tool = "cost_trends" ->
              [to |-> "cost-trends", provider |-> Filter(c.provider), days |-> c.days]
      [] c.tool = "inventory" ->
              [to |-> "inventory", provider |-> Filter(c.provider), top |-> c.top]

\* time.Parse takes no short dates.
Refusals(c) == {"unauthorized"} \cup (IF Short(c) THEN {"invalid_date_range"} ELSE Codes(Request(c)))

\* The server may not be reached, its reply may come too late or be no object.
Failures(c) == Refusals(c) \cup {"transport", "reply"}

Data(c) == IF Short(c) \/ Invalid(Request(c)) # {} THEN {} ELSE Handled(Request(c), clock)

Observations(c) ==
    IF Accepted(c) THEN {[error |-> e] : e \in Failures(c)} \cup {[data |-> d] : d \in Data(c)}
    ELSE {[error |-> "argument"]}

\* Bound: a call comes between the exchanges of other clients and is looked
\* at before anything else happens.  It changes nothing of the server.
ToolCall(c) ==
    /\ observed = NoCall
    /\ answers = {}
    /\ \E o \in Observations(c) : observed' = [call |-> c, of |-> o]
    /\ UNCHANGED apiVars

LookedAt ==
    /\ observed # NoCall
    /\ observed' = NoCall
    /\ UNCHANGED apiVars

ToolsNext ==
    \/ \E c \in Calls : ToolCall(c)
    \/ LookedAt
    \/ observed = NoCall /\ ApiNext /\ UNCHANGED observed

ToolsSpec == ToolsInit /\ [][ToolsNext]_toolVars

-----------------------------------------------------------------------------
Fewer(m, n) == IF m < n THEN m ELSE n

\* An observation of data answers just what the model asked for: lists have
\* the length asked for unless there is no more, the days of a trend are those
\* asked for, and costs are of the clouds asked for.
JustAsAsked(c, d) ==
    CASE c.tool = "cost_summary" ->
              c.providers # {} => DOMAIN d.providers \subseteq {Normal(p) : p \in c.providers}
      [] c.tool = "cost_by_service" ->
              Len(d.list) = Fewer(c.top, Cardinality({rec \in Costs(c.start.day, c.end.day) :
                                                        rec.provider = Normal(c.provider)}))
      [] c.tool = "recommendations" -> Len(d.list) = Fewer(c.top, d.count)
      [] c.tool = "inventory"       -> Len(d.list) = Fewer(c.top, d.services)
      [] c.tool = "cost_trends" ->
              {p.date : p \in Range(d.points)} =
                  {Day(s.taken) : s \in {x \in snapshots : clock - x.taken <= c.days * TicksPerDay}}

\* What a tool accepts the server takes at its word: it refuses no argument
\* but a short date (an error the model can correct), and neither cuts a number
\* down nor puts a default in its place, as it does with numbers out of its own
\* range without a word of it in the answer.
TakenAtItsWord ==
    observed # NoCall =>
        LET c == observed.call
            o == observed.of
        IN  /\ ("error" \in DOMAIN o /\ o.error \notin {"argument", "transport", "reply", "unauthorized", "query_failed"}) =>
                  o.error = "invalid_date_range" /\ Short(c)
            /\ "data" \in DOMAIN o => JustAsAsked(c, o.data)
=============================================================================
