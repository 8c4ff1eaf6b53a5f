----------------------------- MODULE AgentRunner -----------------------------
(***************************************************************************)
(* The agent runtime behind POST /ask: one GeminiAgentRunner shared by     *)
(* concurrent requests (runtime.py), which builds the checkpointed graph   *)
(* on the first threaded ask, and run_guarded around each run of the graph *)
(* (guardrails/runner.py, validation.py, fallback.py).  The asks share an  *)
(* event loop: an action is what runs between two awaits.  What the graph  *)
(* does inside a run is AgentGraph.                                        *)
(***************************************************************************)
EXTENDS Naturals, FiniteSets

CONSTANTS
    Asks,       \* requests to the runner
    Threaded,   \* those with a thread_id
    Figures,    \* amounts an answer or a tool result may state
    Validate,   \* settings.enable_answer_validation
    UseJudge,   \* settings.enable_llm_judge
    Database    \* whether settings.database_url is set

ASSUME RunnerAssumption ==
    /\ Threaded \subseteq Asks /\ "none" \notin Asks
    /\ Validate \in BOOLEAN /\ UseJudge \in BOOLEAN /\ Database \in BOOLEAN

VARIABLES
    pc,         \* where each ask is
    threaded,   \* self._threaded: the ask whose saver its graph has, if any
    cm,         \* self._checkpointer_cm: the ask that made it, if any
    open,       \* checkpointer connections, by the ask that opened them
    closed,     \* whether the runner has been closed
    seen,       \* the numbers in the tool results of each run so far
    stated,     \* the amounts in the graph's answer
    shown,      \* what the user gets
    troubled      \* history: asks whose building failed or met another's

asks == <<seen, stated, shown>>
vars == <<pc, threaded, cm, open, closed, asks, troubled>>

None == "none"
Building == {"enter", "setup"}

\* What the user reads of a run: the amounts the narrative states, those that the
\* line "Reason: ..." may quote, those that the raw data may hold, and the verdict.
Replies == [kind : {"none", "answer", "failed", "rejected", "error"},
            amounts : SUBSET Figures, quoted : SUBSET Figures, data : SUBSET Figures,
            verdict : {"none", "valid", "ungrounded", "misleading"}]

Bare(kind) ==
    [kind |-> kind, amounts |-> {}, quoted |-> {}, data |-> {}, verdict |-> "none"]
Unset == Bare("none")

\* The runner has just been constructed.
Init ==
    /\ pc = [a \in Asks |-> "idle"]
    /\ threaded = None /\ cm = None /\ open = {} /\ closed = FALSE
    /\ seen = [a \in Asks |-> {}]
    /\ stated = [a \in Asks |-> {}]
    /\ shown = [a \in Asks |-> Unset]
    /\ troubled = {}

Goto(a, where) == pc' = [pc EXCEPT ![a] = where]

Reply(a, reply) == shown' = [shown EXCEPT ![a] = reply] /\ Goto(a, "done")

\* The graph's answer as it is.
Narrative(a, verdict) ==
    [kind |-> "answer", amounts |-> stated[a], quoted |-> {}, data |-> {},
     verdict |-> verdict]

\* deterministic_answer, with a reason that may quote amounts.
Fallback(kind, quoted, data, verdict) ==
    [kind |-> kind, amounts |-> {}, quoted |-> quoted, data |-> data,
     verdict |-> verdict]

-----------------------------------------------------------------------------
\* A fault: the built graph is not kept for the next ask.
CachedNot == FALSE

\* self._threaded is not None
Cached == threaded # None

\* ask, up to its first await: no thread, no database, a graph that is there,
\* or a checkpointer of its own, which replaces the one of a building in progress.
Ask(a) ==
    /\ pc[a] = "idle" /\ ~ closed
    /\ IF a \notin Threaded \/ Cached \/ ~ Database
       THEN Goto(a, "run") /\ UNCHANGED <<cm, troubled>>
       ELSE /\ cm' = a
            /\ troubled' = LET others == {b \in Asks : pc[b] \in Building}
                         IN IF others = {} THEN troubled ELSE troubled \cup others \cup {a}
            /\ Goto(a, "enter")
    /\ UNCHANGED <<threaded, open, closed, asks>>

\* await __aenter__: Postgres answers.
Enter(a) ==
    /\ pc[a] = "enter"
    /\ open' = open \cup {a}
    /\ Goto(a, "setup")
    /\ UNCHANGED <<threaded, cm, closed, asks, troubled>>

\* await saver.setup(), and the graph with that saver.
Setup(a) ==
    /\ pc[a] = "setup"
    /\ threaded' = a
    /\ Goto(a, "run")
    /\ UNCHANGED <<cm, open, closed, asks, troubled>>

\* Either of the two fails; nothing catches it.
BuildFails(a) ==
    /\ pc[a] \in Building
    /\ Reply(a, Bare("error"))
    /\ troubled' = troubled \cup {a}
    /\ UNCHANGED <<threaded, cm, open, closed, seen, stated>>

\* A tool result of the run: AgentGraph's Act.
Observe(a) ==
    /\ pc[a] = "run"
    /\ \E n \in Figures \ seen[a] : seen' = [seen EXCEPT ![a] = @ \cup {n}]
    /\ UNCHANGED <<pc, threaded, cm, open, closed, stated, shown, troubled>>

\* A fault: the exception gets past run_guarded.
FailReplyNot(a) == Reply(a, Bare("error"))

\* deterministic_answer(question, [], ...): what the tools returned is lost, and
\* the reason is the text of the exception, which may quote any amount.
FailReply(a) == Reply(a, Fallback("failed", Figures, {}, "none"))

\* The run raises: quota, timeout, recursion limit.
RunFails(a) ==
    /\ pc[a] = "run"
    /\ FailReply(a)
    /\ UNCHANGED <<threaded, cm, open, closed, seen, stated, troubled>>

\* ask_supervisor returns; the model may state any amounts.
RunEnds(a) ==
    /\ pc[a] = "run"
    /\ \E amounts \in SUBSET Figures : stated' = [stated EXCEPT ![a] = amounts]
    /\ Goto(a, "check")
    /\ UNCHANGED <<threaded, cm, open, closed, seen, shown, troubled>>

\* A fault: every run's results count as evidence.
GroundedAnywhere(a) == stated[a] \subseteq UNION {seen[b] : b \in Asks}

\* deterministic_grounding.  An amount is the number it is within a cent or a
\* percent of.
Ungrounded(a) == stated[a] \ seen[a]
Grounded(a) == Ungrounded(a) = {}

\* A fault: the verdict is lost.
RejectReplySkipped(a, quoted, verdict) ==
    Reply(a, Fallback("rejected", quoted, seen[a], "skipped"))

\* deterministic_answer(question, result.observations, ...).  The raw data holds no
\* other amounts, if not all: each result is cut at 600 characters.
RejectReply(a, quoted, verdict) ==
    Reply(a, Fallback("rejected", quoted, seen[a], verdict))

\* A fault: the judge only sees answers that state nothing.
JudgeSkips(a) == stated[a] # {} \/ ~ UseJudge

\* There is nothing to second-guess, or nobody to do it.
NoJudge(a) == stated[a] = {} \/ ~ UseJudge

\* validate_answer up to the judge.
Check(a) ==
    /\ pc[a] = "check"
    /\ \/ ~ Validate /\ Reply(a, Narrative(a, "none"))
       \/ Validate /\ ~ Grounded(a) /\ RejectReply(a, Ungrounded(a), "ungrounded")
       \/ Validate /\ Grounded(a) /\ NoJudge(a) /\ Reply(a, Narrative(a, "valid"))
       \/ Validate /\ Grounded(a) /\ ~ NoJudge(a) /\ Goto(a, "judge") /\ UNCHANGED shown
    /\ UNCHANGED <<threaded, cm, open, closed, seen, stated, troubled>>

\* _judge: an explicit FAIL rejects, in words of the judge's that may quote any
\* amount; anything else passes.
Judge(a) ==
    /\ pc[a] = "judge"
    /\ \/ RejectReply(a, Figures, "misleading")
       \/ Reply(a, Narrative(a, "valid"))
    /\ UNCHANGED <<threaded, cm, open, closed, seen, stated, troubled>>

\* The judge's model raises; nothing catches it.
JudgeFails(a) ==
    /\ pc[a] = "judge"
    /\ Reply(a, Bare("error"))
    /\ UNCHANGED <<threaded, cm, open, closed, seen, stated, troubled>>

\* aclose, once the server has let its requests finish.
Close ==
    /\ ~ closed /\ \A a \in Asks : pc[a] \in {"idle", "done"}
    /\ open' = open \ {cm}
    /\ cm' = None
    /\ closed' = TRUE
    /\ UNCHANGED <<pc, threaded, asks, troubled>>

Step(a) ==
    \/ Ask(a) \/ Enter(a) \/ Setup(a) \/ BuildFails(a)
    \/ Observe(a) \/ RunFails(a) \/ RunEnds(a)
    \/ Check(a) \/ Judge(a) \/ JudgeFails(a)

Next == (\E a \in Asks : Step(a)) \/ Close

Spec == Init /\ [][Next]_vars

-----------------------------------------------------------------------------
TypeOK ==
    /\ pc \in [Asks -> {"idle", "enter", "setup", "run", "check", "judge", "done"}]
    /\ threaded \in Asks \cup {None} /\ cm \in Asks \cup {None}
    /\ open \subseteq Asks /\ troubled \subseteq Asks
    /\ closed \in BOOLEAN
    /\ seen \in [Asks -> SUBSET Figures] /\ stated \in [Asks -> SUBSET Figures]
    /\ shown \in [Asks -> Replies]

\* What the user sees is vetted (insights-agent/README.md: "every monetary figure
\* in the answer must match a number in the tool observations"): no amount is
\* stated in a narrative, or given as raw data, that the tools of this very run did
\* not return, whatever other runs do; a rejected or failed run shows no narrative.
\* The reply to a rejected or failed run is not free of other amounts: its reason
\* may quote any, and the reason of one that is not grounded quotes exactly the
\* amounts that no tool of the run returned (fallback.py: f"Reason: {reason}.").
ShownIsVetted ==
    \A a \in Asks :
        /\ Validate => shown[a].amounts \subseteq seen[a]
        /\ shown[a].data \subseteq seen[a]
        /\ shown[a].kind \in {"failed", "rejected"} => shown[a].amounts = {}
        /\ shown[a].quoted # {} => shown[a].kind \in {"failed", "rejected"}
        /\ shown[a].verdict = "ungrounded" =>
              shown[a].quoted = Ungrounded(a) /\ ~ Grounded(a)
        /\ shown[a].kind = "rejected" <=> shown[a].verdict \in {"ungrounded", "misleading"}
        /\ shown[a].kind = "answer" /\ shown[a].verdict = "none" => ~ Validate

\* An unasked judge lets no amount pass: with the judge on, an answer that states
\* amounts was judged (validation.py: "escalate to the judge").
AmountsAreJudged ==
    [][\A a \in Asks :
          (UseJudge /\ Validate /\ shown'[a] # shown[a] /\ shown'[a].kind = "answer"
             /\ shown'[a].amounts # {}) => pc[a] = "judge"]_vars

\* An exception reaches the user only from building the graph or from the judge,
\* never from the run itself.
OnlyTheseRaise ==
    [][\A a \in Asks : shown'[a].kind = "error" /\ shown[a].kind # "error"
          => pc[a] \in Building \cup {"judge"}]_vars

\* "Entered here, closed in aclose": a connection outlives the runner only if
\* two first asks built at the same time or a building failed.
OnlyTroubledLeak == closed => open \subseteq troubled
=============================================================================
