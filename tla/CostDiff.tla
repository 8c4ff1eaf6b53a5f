------------------------------- MODULE CostDiff -------------------------------
(***************************************************************************)
(* `oracle pr-check` up to its comment: every change of a Terraform plan   *)
(* is estimated (internal/pricing/change.go), the estimates are sorted and *)
(* filed into a CostDiff (internal/diff/engine.go), the LLM is asked for a *)
(* narrative (narrative.go) and the comment is rendered (markdown.go).     *)
(* Lookups of the Pricing API may fail one by one, and so may the LLM.     *)
(* Amounts are in tenths of a cent; a change is known by its place in the  *)
(* plan, which stands for its address.                                     *)
(***************************************************************************)
EXTENDS Estimates, FiniteSets, Functions, SequencesExt

CONSTANTS
    Plans,              \* the plans given with --plan-file
    TopMoversCount,     \* of engine.go
    promptTopMoversN,   \* of narrative.go
    Nothing             \* no prompt, no comment, no primary driver


\* What the LLM may answer; "off" is --no-llm or no provider.
Answers == {"off", "error", "blank", "only a preamble", "too long", "prose"}

VARIABLES
    plan,       \* sequence of resource changes
    phase,      \* "estimating", "filing", "narrating" or "done"
    changes,    \* the estimates so far; sorted once all are there
    filed,      \* how many of the sorted ones are filed
    total,      \* TotalMonthlyDelta
    confidence, \* the weakest of the priced ones filed
    sections,   \* Created, Deleted, Updated, Replaced and Skipped
    prompt,     \* what the LLM was asked
    comment     \* the rendered comment

vars == <<plan, phase, changes, filed, total, confidence, sections, prompt, comment>>

CostActions == {"create", "delete", "update", "replace"}
SectionNames == CostActions \cup {"skipped"}

-----------------------------------------------------------------------------
\* EstimateChange

Action(rc) ==
    IF rc.actions \in {<<"delete", "create">>, <<"create", "delete">>} THEN "replace"
    ELSE IF rc.actions = << >> THEN "no-op" ELSE Head(rc.actions)

\* A plan as Terraform writes it: "Before is nil for a create; After is nil for
\* a delete" (terraform.go), and what a provider declares a number is one.
ASSUME PlansAreTerraforms ==
    \A p \in Plans :
        /\ p \in Seq(Range(p))
        /\ \A i \in DOMAIN p :
            /\ Action(p[i]) = "create" => p[i].before = NoAttributes
            /\ Action(p[i]) = "delete" => p[i].after = NoAttributes
            /\ HasNumbers(p[i].type, p[i].before) /\ HasNumbers(p[i].type, p[i].after)

\* An address is no model value.
ASSUME NothingIsNoAddress == Nothing \notin Nat

ASSUME MoversAreCounted == TopMoversCount \in Nat

\* The states an action prices, in order.
SidesOf == [create |-> <<"after">>, delete |-> <<"before">>, update |-> <<"before", "after">>,
            replace |-> <<"before", "after">>]

Costs(rc) == Action(rc) \in CostActions /\ rc.mode = "managed"

\* The estimates of one state of a change, whichever of its lookups fail.  A
\* state the action does not price counts for nothing.
EstimatesOf(rc, side) ==
    IF Costs(rc) /\ side \in Range(SidesOf[Action(rc)])
    THEN {EstimateState(rc.type, rc[side], down) : down \in SUBSET LookedUp(rc.type, rc[side])}
    ELSE {Priced(<< >>, High, {})}

Sum(lines) == SumFunction([i \in DOMAIN lines |-> lines[i].usd])

Component(lines, name) ==
    SumFunction([i \in DOMAIN lines |-> IF lines[i].component = name THEN lines[i].usd ELSE 0])

\* What a sequence has at some of its places, in their order.
At(s, places) ==
    [k \in 1..Cardinality(places) |->
        s[CHOOSE i \in places : Cardinality({j \in places : j < i}) = k - 1]]

MergeDeltaOfAfter(before, after) ==
    [i \in DOMAIN after |->
        [component |-> after[i].component,
         usd       |-> after[i].usd - Component(before, after[i].component)]]

\* The components of the after state in their order, then those of the before state alone.
MergeDelta(before, after) ==
    LET gone  == {j \in DOMAIN before : \A i \in DOMAIN after : after[i].component # before[j].component}
        lines == after \o At(before, gone)
    IN  [i \in DOMAIN lines |->
            [component |-> lines[i].component,
             usd       |-> Component(after, lines[i].component) - Component(before, lines[i].component)]]

Weakest(a, b) == IF a >= b THEN a ELSE b

SkippedChange(i, why) ==
    [address |-> i, action |-> Action(plan[i]), delta |-> 0, confidence |-> High, notes |-> {},
     breakdown |-> << >>, skipped |-> TRUE, why |-> why]

EstimateChange(i, before, after) ==
    LET rc == plan[i]
        first(how) == IF before.is = how THEN before ELSE after
    IN  IF Action(rc) \in {"no-op", "read"}             THEN SkippedChange(i, {"no cost impact"})
        ELSE IF rc.mode # "managed"                     THEN SkippedChange(i, {"data source"})
        ELSE IF Action(rc) \notin CostActions           THEN SkippedChange(i, {"unsupported"})
        ELSE IF "failed" \in {before.is, after.is}      THEN SkippedChange(i, first("failed").why)
        ELSE IF "skipped" \in {before.is, after.is}     THEN SkippedChange(i, first("skipped").why)
        ELSE [address    |-> i,
              action     |-> Action(rc),
              delta      |-> Sum(after.lines) - Sum(before.lines),
              confidence |-> Weakest(before.confidence, after.confidence),
              notes      |-> before.notes \cup after.notes,
              breakdown  |-> MergeDelta(before.lines, after.lines),
              skipped    |-> FALSE,
              why        |-> {}]

-----------------------------------------------------------------------------
\* Analyze

Abs(d) == IF d < 0 THEN -d ELSE d

\* sort.SliceStable by the absolute delta: the orders p that put the greatest
\* first and leave equals as they are.  There is just one.
InOrder(s, p) ==
    \A j, k \in DOMAIN s : j < k =>
        \/ Abs(s[p[j]].delta) > Abs(s[p[k]].delta)
        \/ Abs(s[p[j]].delta) = Abs(s[p[k]].delta) /\ p[j] < p[k]

SectionOfAction(ce) == ce.action

Section(ce) == IF ce.skipped THEN "skipped" ELSE ce.action

Take(s, n) == SubSeq(s, 1, IF n < Len(s) THEN n ELSE Len(s))

TopMovers == Take(At(changes, {k \in DOMAIN changes : ~ changes[k].skipped}), TopMoversCount)

Stats ==
    LET idle == {k \in DOMAIN changes : changes[k].action \in {"no-op", "read"}}
        lost == {k \in DOMAIN changes : changes[k].skipped} \ idle
    IN  [total    |-> Len(changes),
         created  |-> Len(sections["create"]),  deleted  |-> Len(sections["delete"]),
         updated  |-> Len(sections["update"]),  replaced |-> Len(sections["replace"]),
         priced   |-> Len(sections["create"]) + Len(sections["delete"])
                      + Len(sections["update"]) + Len(sections["replace"]),
         noOp     |-> Cardinality(idle),
         skipped  |-> Cardinality(lost)]

\* buildNotes: each skipped change is counted at most once, by the first word found.
PlanNotes ==
    LET left        == sections["skipped"]
        unsupported == {k \in DOMAIN left : "unsupported" \in left[k].why}
        failed      == {k \in DOMAIN left : "estimation failed" \in left[k].why} \ unsupported
    IN  [skipped     |-> Len(left),
         unsupported |-> Cardinality(unsupported),
         failures    |-> Cardinality(failed),
         direction   |-> IF Len(left) = Len(changes) THEN "nothing priceable"
                         ELSE IF total > 0 THEN "increase"
                         ELSE IF total < 0 THEN "reduction" ELSE "zero"]

-----------------------------------------------------------------------------
\* The comment

centavoTolerance == 5

Trend(d) == IF Abs(d) < centavoTolerance THEN "none" ELSE IF d > 0 THEN "increase" ELSE "decrease"

Notes(s) == UNION {s[k].notes : k \in DOMAIN s}

\* deduplicateNotes: the addresses each note applies to.
Caveats == [n \in Notes(changes) |-> {changes[k].address : k \in {j \in DOMAIN changes : n \in changes[j].notes}}]

BuildFlatPrompt ==
    [priced       |-> Stats.priced,
     direction    |-> Trend(total),
     movers       |-> Take(TopMovers, promptTopMoversN),
     primary      |-> IF TopMovers = << >> THEN Nothing ELSE TopMovers[1].address,
     primaryNotes |-> Notes(changes),
     otherNotes   |-> {},
     planNotes    |-> PlanNotes]

\* The notes of the primary driver apart from those of the others, which carry their address.
BuildPRNarrativePrompt ==
    LET primary == IF TopMovers = << >> THEN Nothing ELSE TopMovers[1].address
    IN  [priced       |-> Stats.priced,
         direction    |-> Trend(total),
         movers       |-> Take(TopMovers, promptTopMoversN),
         primary      |-> primary,
         primaryNotes |-> IF TopMovers = << >> THEN {} ELSE TopMovers[1].notes,
         otherNotes   |-> UNION {{ce.address} \X ce.notes : ce \in {c \in Range(changes) : c.address # primary}},
         planNotes    |-> PlanNotes]

\* renderNarrative counts failures by another rule than the notes do.
TemplateNarrative ==
    LET left == sections["skipped"]
    IN  [by        |-> "template",
         stats     |-> Stats,
         direction |-> Trend(total),
         failures  |-> Cardinality({k \in DOMAIN left : "estimation failed" \in left[k].why})]

Narrative(answer) == IF answer = "prose" THEN [by |-> "LLM"] ELSE TemplateNarrative

RenderMarkdown(answer) ==
    [net        |-> total,
     trend      |-> Trend(total),
     narrative  |-> Narrative(answer),
     movers     |-> TopMovers,
     sections   |-> sections,
     stats      |-> Stats,
     notes      |-> PlanNotes,
     caveats    |-> Caveats,
     confidence |-> confidence]

-----------------------------------------------------------------------------
Init ==
    /\ plan \in Plans
    /\ phase = "estimating"
    /\ changes = << >> /\ filed = 0 /\ total = 0 /\ confidence = High
    /\ sections = [name \in SectionNames |-> << >>]
    /\ prompt = Nothing /\ comment = Nothing

EstimateOrGiveUp ==
    /\ phase = "estimating" /\ Len(changes) < Len(plan)
    /\ LET i == Len(changes) + 1
       IN  \E before \in EstimatesOf(plan[i], "before"), after \in EstimatesOf(plan[i], "after") :
            LET ce == EstimateChange(i, before, after)
            IN  /\ changes' = Append(changes, ce)
                /\ phase' = IF "estimation failed" \in ce.why THEN "done" ELSE phase
    /\ UNCHANGED <<plan, filed, total, confidence, sections, prompt, comment>>

\* The next change, with the lookups that fail: an error makes it a skipped one.
Estimate ==
    /\ phase = "estimating" /\ Len(changes) < Len(plan)
    /\ LET i == Len(changes) + 1
       IN  \E before \in EstimatesOf(plan[i], "before"), after \in EstimatesOf(plan[i], "after") :
            changes' = Append(changes, EstimateChange(i, before, after))
    /\ UNCHANGED <<plan, phase, filed, total, confidence, sections, prompt, comment>>

Sort ==
    /\ phase = "estimating" /\ Len(changes) = Len(plan)
    /\ \E p \in Bijection(DOMAIN changes, DOMAIN changes) :
        InOrder(changes, p) /\ changes' = [k \in DOMAIN changes |-> changes[p[k]]]
    /\ phase' = "filing"
    /\ UNCHANGED <<plan, filed, total, confidence, sections, prompt, comment>>

\* One turn of the loop that totals and files the sorted changes.
File ==
    /\ phase = "filing" /\ filed < Len(changes)
    /\ LET ce == changes[filed + 1]
       IN  /\ total' = total + ce.delta
           /\ confidence' = IF ce.skipped THEN confidence ELSE Weakest(confidence, ce.confidence)
           /\ sections' = [sections EXCEPT ![Section(ce)] = Append(@, ce)]
    /\ filed' = filed + 1
    /\ UNCHANGED <<plan, phase, changes, prompt, comment>>

Ask ==
    /\ phase = "filing" /\ filed = Len(changes)
    /\ prompt' \in {Nothing, BuildPRNarrativePrompt}
    /\ phase' = "narrating"
    /\ UNCHANGED <<plan, changes, filed, total, confidence, sections, comment>>

\* --no-llm or no provider means no prompt.
Render ==
    /\ phase = "narrating"
    /\ \E answer \in Answers :
        /\ (answer = "off") <=> (prompt = Nothing)
        /\ comment' = RenderMarkdown(answer)
    /\ phase' = "done"
    /\ UNCHANGED <<plan, changes, filed, total, confidence, sections, prompt>>

Done == phase = "done" /\ UNCHANGED vars

Next == Estimate \/ Sort \/ File \/ Ask \/ Render \/ Done

\* The program goes on; every lookup and the LLM end in an answer or an error.
Spec == Init /\ [][Next]_vars /\ WF_vars(Next)

-----------------------------------------------------------------------------
\* The changes of the comment's sections.
Shown == UNION {Range(comment.sections[name]) : name \in SectionNames}

\* The movers are priced, the greatest first, and as many as there are up to
\* the limit; no other priced change outweighs them.
MoversLead ==
    LET movers == comment.movers
        priced == {ce \in Shown : ~ ce.skipped}
    IN  /\ Range(movers) \subseteq priced
        /\ \A j, k \in DOMAIN movers :
            j < k => movers[j] # movers[k] /\ Abs(movers[j].delta) >= Abs(movers[k].delta)
        /\ \A ce \in priced \ Range(movers) :
            Len(movers) = TopMoversCount /\ \A k \in DOMAIN movers : Abs(movers[k].delta) >= Abs(ce.delta)

\* Each change of the plan is in one place of one section, the one of its
\* action or Skipped.
FiledOnce ==
    \A i \in DOMAIN plan : \E name \in SectionNames : \E k \in DOMAIN comment.sections[name] :
        /\ comment.sections[name][k].address = i
        /\ name \in {"skipped", Action(plan[i])}
        /\ \A other \in SectionNames : \A j \in DOMAIN comment.sections[other] :
            comment.sections[other][j].address = i => other = name /\ j = k

\* The comment accounts for every change of the plan once: in the section of
\* its action when it is priced, under Skipped when it is not; the counts of
\* Stats are a partition of the plan, and the header counts what is shown; its
\* top movers are the priced changes of the greatest impact
\* (engine.go: categorize, computeStats, topMovers; types.go: Stats).
PlanAccountedFor ==
    phase = "done" =>
        /\ MoversLead
        /\ FiledOnce
        /\ LET s == comment.stats
           IN  /\ s.total = Len(plan)
               /\ s.created + s.deleted + s.updated + s.replaced + s.noOp + s.skipped = s.total
               /\ s.noOp + s.skipped = comment.notes.skipped
               /\ s.noOp = Cardinality({i \in DOMAIN plan : Action(plan[i]) \in {"no-op", "read"}})

\* What a state costs, by the prices alone.
Worth(type, s) ==
    IF s = NoAttributes THEN 0
    ELSE LET lines == Estimator(type, s).lines
         IN  SumFunction([k \in DOMAIN lines |-> Rate[lines[k].key] * lines[k].amount])

\* The net change is what the priced resources are worth after the plan less
\* what they were worth before it, whatever the actions, and so is each row;
\* the components of a row are distinct and add up to it (change.go: the sign
\* convention of ChangeEstimate, mergeDeltaBreakdown).
NetChangeIsWorth ==
    phase = "done" =>
        LET gain(i) == Worth(plan[i].type, plan[i].after) - Worth(plan[i].type, plan[i].before)
            priced  == {ce \in Shown : ~ ce.skipped}
            gains   == [i \in {ce.address : ce \in priced} |-> gain(i)]
        IN  /\ comment.net = SumFunction(gains)
            /\ \A ce \in Shown : ce.delta = IF ce.skipped THEN 0 ELSE gain(ce.address)
            /\ \A ce \in priced :
                /\ ce.delta = Sum(ce.breakdown)
                /\ \A j, k \in DOMAIN ce.breakdown :
                    ce.breakdown[j].component = ce.breakdown[k].component => j = k

\* The confidence of the comment is the weakest of the priced changes filed so
\* far, and the strongest when there is none (engine.go: weakestConfidence).
ConfidenceIsWeakest ==
    phase # "estimating" =>
        LET ranks == {changes[k].confidence : k \in {j \in 1..filed : ~ changes[j].skipped}}
        IN  confidence \in ranks \cup {High} /\ \A rank \in ranks : rank <= confidence

\* In the comment each note lists just the resources it applies to.
CaveatsOfShown ==
    /\ \A ce \in Shown : \A n \in ce.notes : n \in DOMAIN comment.caveats /\ ce.address \in comment.caveats[n]
    /\ \A n \in DOMAIN comment.caveats : \A i \in comment.caveats[n] :
        \E ce \in Shown : ce.address = i /\ n \in ce.notes

\* No caveat is lost and none is given to another resource, neither in the
\* comment nor in the prompt, where those of the change with the greatest
\* impact are apart from the others, which carry their addresses (markdown.go:
\* deduplicateNotes; narrative.go: caveatGroup, "attributed by the model to the
\* RDS primary driver").
CaveatsKeepTheirResource ==
    phase = "done" =>
        /\ CaveatsOfShown
        /\ prompt # Nothing =>
            /\ \A ce \in Shown : \A n \in ce.notes :
                IF ce.address = prompt.primary THEN n \in prompt.primaryNotes
                ELSE <<ce.address, n>> \in prompt.otherNotes
            /\ \A n \in prompt.primaryNotes : prompt.primary \in comment.caveats[n]
            /\ \A pair \in prompt.otherNotes : pair[1] # prompt.primary /\ pair[1] \in comment.caveats[pair[2]]

\* Whatever fails, there is a comment (engine.go: "Failures on individual
\* changes are NOT fatal"; narrative.go: "always emits a valid PR comment").
CommentComes == <>(comment # Nothing)
=============================================================================
