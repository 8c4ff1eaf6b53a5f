----------------------------- MODULE AgentGraph -----------------------------
(***************************************************************************)
(* The supervisor graph of the insights agent (graph/supervisor.py): one   *)
(* conversation, turn after turn.  A turn routes from the supervisor to a  *)
(* specialist and back until the supervisor finishes or a cap is reached,  *)
(* and the synthesizer then writes the answer.  The language model and the *)
(* tools are the environment: what they return is chosen by \E, and every  *)
(* call to them may raise.                                                 *)
(*                                                                         *)
(* Texts are abstracted to what the code tests: EMPTY is "", NONE is the   *)
(* placeholder "(no findings)", SAID any other text that is not blank.      *)
(***************************************************************************)
EXTENDS Integers, Sequences, FiniteSetsExt

CONSTANTS
    Workers,          \* the specialists (WORKER_NAMES)
    MaxHops,          \* RunLimits.max_hops
    MaxToolCalls,     \* RunLimits.max_tool_calls
    MaxWorkerIters,   \* RunLimits.max_worker_iters
    MaxBatch,         \* bound: tool calls in one AI message
    MaxTurns          \* bound: turns of the conversation

\* config.py declares every cap with ge=1.
ASSUME CapsAssumption ==
    /\ MaxHops \in Nat \ {0}
    /\ MaxToolCalls \in Nat \ {0}
    /\ MaxWorkerIters \in Nat \ {0}
    /\ MaxBatch \in Nat \ {0}
    /\ MaxTurns \in Nat \ {0}

VARIABLES
    pc,            \* the node about to run; "idle", "ended", "failed" between turns
    turn,          \* number of the current turn
    threaded,      \* the graph has a checkpointer and the request a thread_id
    messages,      \* the "messages" channel: accumulates over a thread
    toolCalls,     \* length of the "tool_calls" channel of this turn
    observations,  \* length of the "observations" channel of this turn
    route,         \* the "route" channel: what the supervisor named last
    hops,          \* supervisor decisions of this turn
    callsMade,     \* _run_react: tool calls requested in this visit
    observed,      \* _run_react: tool calls executed in this visit
    iter,          \* _run_react: model calls of this visit
    pending,       \* _run_react: calls of the last AI message still to handle
    lastText,      \* _run_react: content of that AI message
    llmCalls,      \* history: model invocations of this turn
    answer         \* what ask_supervisor returned last

conversation == <<turn, threaded, messages, answer>>
accounting   == <<toolCalls, observations, route, hops>>
react        == <<callsMade, observed, iter, pending, lastText>>
vars == <<pc, conversation, accounting, react, llmCalls>>

Texts    == {"EMPTY", "NONE", "SAID"}
Message  == [kind : {"human", "finding", "final"}, turn : Nat, text : Texts]
Routes   == Workers \cup {"finish", "unknown"}
\* A visit of a specialist starts with, and leaves behind, nothing.
NoVisit ==
    /\ callsMade' = 0 /\ observed' = 0 /\ iter' = 0 /\ pending' = 0
    /\ lastText' = "EMPTY"

Msg(k, t) == [kind |-> k, turn |-> turn, text |-> t]

NoAnswer == [kind |-> "final", turn |-> 0, text |-> "EMPTY"]

Init ==
    /\ pc = "idle"
    /\ turn = 0
    /\ threaded \in BOOLEAN
    /\ messages = <<>>
    /\ toolCalls = 0 /\ observations = 0 /\ route = "unset" /\ hops = 0
    /\ callsMade = 0 /\ observed = 0 /\ iter = 0 /\ pending = 0
    /\ lastText = "EMPTY"
    /\ llmCalls = 0
    /\ answer = NoAnswer

-----------------------------------------------------------------------------
\* A fault: the accounting is carried over from the thread's last turn.
KeepAccounting == route' = "unset" /\ hops' = 0 /\ UNCHANGED <<toolCalls, observations>>

\* The input of a turn overwrites the LastValue channels.
ResetAccounting == toolCalls' = 0 /\ observations' = 0 /\ route' = "unset" /\ hops' = 0

\* A new question.  It is appended to the thread's messages; without a
\* checkpointer there are none.
Ask ==
    /\ pc \in {"idle", "ended", "failed"}
    /\ turn < MaxTurns
    /\ turn' = turn + 1
    /\ messages' = Append(IF threaded THEN messages ELSE <<>>,
                          [kind |-> "human", turn |-> turn + 1, text |-> "SAID"])
    /\ ResetAccounting
    /\ llmCalls' = 0
    /\ pc' = "supervisor"
    /\ UNCHANGED <<threaded, answer, react>>

\* Faults: one dispatch too many; the route taken for a node without a look.
DecideOneHopMore(h, r) ==
    IF h > MaxHops + 1 \/ toolCalls >= MaxToolCalls \/ r \notin Workers
    THEN "synthesize" ELSE "model"
DecideUnfiltered(h, r) ==
    IF h > MaxHops \/ toolCalls >= MaxToolCalls THEN "synthesize"
    ELSE IF r \in Workers THEN "model" ELSE r

\* The conditional edge after the supervisor: the caps win over the route.
Decide(h, r) ==
    IF h > MaxHops \/ toolCalls >= MaxToolCalls \/ r \notin Workers
    THEN "synthesize" ELSE "model"

\* One routing decision.  No tool call routes to "finish"; a name that is no
\* specialist goes to the synthesizer.
Supervise ==
    /\ pc = "supervisor"
    /\ hops' = hops + 1
    /\ llmCalls' = llmCalls + 1
    /\ route' \in Routes
    /\ pc' = Decide(hops', route')
    /\ NoVisit
    /\ UNCHANGED <<conversation, toolCalls, observations>>

\* A worker's tool budget: what the turn has left (the max(0, remaining) of the node).
ToolBudget == IF MaxToolCalls > toolCalls THEN MaxToolCalls - toolCalls ELSE 0

\* The node returns: one contribution to the transcript, and the accumulated
\* accounting.  An empty answer becomes the placeholder.
Report(text, calls, obs) ==
    /\ messages' = Append(messages, Msg("finding", IF text = "EMPTY" THEN "NONE" ELSE text))
    /\ toolCalls' = toolCalls + calls
    /\ observations' = observations + obs
    /\ NoVisit
    /\ pc' = "supervisor"

\* One iteration of the loop: the model answers with n tool calls and a text.
WorkerModel ==
    /\ pc = "model"
    /\ llmCalls' = llmCalls + 1
    /\ \E n \in 0..MaxBatch, t \in {"EMPTY", "SAID"} :
          \/ /\ n = 0
             /\ Report(t, callsMade, observed)
          \/ /\ n > 0
             /\ pc' = "call"
             /\ iter' = iter + 1
             /\ pending' = n
             /\ lastText' = t
             /\ UNCHANGED <<messages, toolCalls, observations, callsMade, observed>>
    /\ UNCHANGED <<turn, threaded, answer, route, hops>>

\* A fault: the budget is compared before the call is counted.
ExecutesOneMore(known) == callsMade <= ToolBudget /\ known

\* The call is executed: within the budget, and the tool is one the worker has.
Executes(known) == callsMade + 1 <= ToolBudget /\ known

\* After the iterations are used up the transcript ends with a tool message,
\* never with an AI message, so the text the loop returns is the empty one.
ExhaustedText == "EMPTY"

\* One requested tool call.  After the last one of the message the loop goes
\* round, or returns when the iterations are used up.
CallTool ==
    /\ pc = "call"
    /\ \E known \in BOOLEAN :
          LET made == callsMade + 1
              obs  == observed + (IF Executes(known) THEN 1 ELSE 0)
          IN \/ /\ pending > 1
                /\ callsMade' = made /\ observed' = obs /\ pending' = pending - 1
                /\ UNCHANGED <<pc, messages, toolCalls, observations, iter, lastText>>
             \/ /\ pending = 1 /\ iter < MaxWorkerIters
                /\ callsMade' = made /\ observed' = obs /\ pending' = 0
                /\ pc' = "model"
                /\ UNCHANGED <<messages, toolCalls, observations, iter, lastText>>
             \/ /\ pending = 1 /\ iter >= MaxWorkerIters
                /\ Report(ExhaustedText, made, obs)
    /\ UNCHANGED <<turn, threaded, answer, route, hops, llmCalls>>

\* ask_supervisor keeps the last AI message of the thread that has content.
LastAI(ms) ==
    LET ai == {i \in DOMAIN ms : ms[i].kind # "human" /\ ms[i].text # "EMPTY"}
    IN IF ai = {} THEN NoAnswer ELSE ms[Max(ai)]

\* The synthesizer's answer ends the turn.
Synthesize ==
    /\ pc = "synthesize"
    /\ llmCalls' = llmCalls + 1
    /\ \E t \in {"EMPTY", "SAID"} : messages' = Append(messages, Msg("final", t))
    /\ answer' = LastAI(messages')
    /\ pc' = "ended"
    /\ UNCHANGED <<turn, threaded, accounting, react>>

\* Any awaited call raises: the model (quota, timeout) or a tool.  What the
\* finished nodes wrote stays in the thread's checkpoint.
Raise ==
    /\ pc \in {"supervisor", "model", "call", "synthesize"}
    /\ llmCalls' = llmCalls + (IF pc = "call" THEN 0 ELSE 1)
    /\ NoVisit
    /\ pc' = "failed"
    /\ UNCHANGED <<conversation, accounting>>

Graph == Supervise \/ WorkerModel \/ CallTool \/ Synthesize \/ Raise
Next  == Ask \/ Graph

Spec == Init /\ [][Next]_vars
\* The event loop resumes a coroutine whose awaited call has returned or
\* raised, and every awaited call has a timeout.
FairSpec == Spec /\ WF_vars(Graph)

-----------------------------------------------------------------------------
TypeOK ==
    /\ pc \in {"idle", "supervisor", "model", "call", "synthesize", "ended", "failed"}
    /\ turn \in Nat /\ threaded \in BOOLEAN
    /\ messages \in Seq(Message)
    /\ toolCalls \in Nat /\ observations \in Nat /\ hops \in Nat
    /\ route \in Routes \cup {"unset"}
    /\ callsMade \in Nat /\ observed \in Nat /\ iter \in Nat /\ pending \in Nat
    /\ lastText \in {"EMPTY", "SAID"}
    /\ llmCalls \in Nat
    /\ answer \in Message

\* A turn never executes more tools than the cap, whatever the models ask for
\* and however the calls are spread over the specialists (README: "bound total
\* tool calls"; test_tool_call_budget_forces_synthesis tries one schedule).
ToolBudgetRespected == observations + observed <= MaxToolCalls

\* The caps bound the model invocations of a turn: at most MaxHops + 1 routing
\* decisions, MaxHops visits of MaxWorkerIters calls, and one synthesis
\* (README: "a confused or injected loop can't run up unbounded LLM/tool cost").
LLMCallsBounded == llmCalls <= (MaxHops + 1) + MaxHops * MaxWorkerIters + 1

\* Where the questions of the thread are.
Questions == {i \in DOMAIN messages : messages[i].kind = "human"}

\* The findings among the given positions, the placeholder excepted.
FindingsAt(I) == {i \in I : messages[i].kind = "finding" /\ messages[i].text = "SAID"}

\* A fault: the transcript is cut at the thread's first question.
SynthesisWholeThread == FindingsAt({i \in DOMAIN messages : i > Min(Questions)})

\* What the synthesizer is given, as positions of the transcript: the findings
\* after the last question.
SynthesisInput == FindingsAt({i \in DOMAIN messages : i > Max(Questions)})

\* The synthesizer never sees an earlier turn's finding as if it were fresh,
\* also when that turn failed half way and left its findings in the thread,
\* and it misses none of this turn's.
SynthesisFromThisTurn ==
    pc = "synthesize" =>
        SynthesisInput = FindingsAt({i \in DOMAIN messages : messages[i].turn = turn})

\* The caps are per turn: however much earlier turns of the thread spent, the
\* first routing decision of a turn that names a specialist reaches it
\* (supervisor.py: the caps apply "to this turn alone, not the whole thread").
FirstHopDispatches ==
    [][(hops = 0 /\ hops' = 1 /\ route' \in Workers) => pc' = "model"]_vars

\* Every turn that is asked ends, in an answer or in an exception, even when
\* the supervisor never finishes and the specialists always ask for tools.
TurnEnds == (pc = "supervisor") ~> (pc \in {"ended", "failed"})

-----------------------------------------------------------------------------
\* The comment of _run_react: "Iteration budget exhausted - return whatever the
\* last AI message said".
ExhaustedWorkerKeepsText ==
    [][(pc = "call" /\ pc' = "supervisor" /\ lastText = "SAID")
          => messages'[Len(messages')].text = "SAID"]_vars
=============================================================================
