-------------------------- MODULE AgentGraphProofs --------------------------
(***************************************************************************)
(* Safety of the supervisor graph for every value of the caps, of the set  *)
(* of specialists and of the bounds.                                       *)
(***************************************************************************)
EXTENDS AgentGraph, NumberFacts, TLAPS

-----------------------------------------------------------------------------
\* A non-empty set of naturals below a bound has the maximum Max chooses.
LEMMA MaxOfBounded ==
    ASSUME NEW S \in SUBSET Nat, S # {}, NEW n \in Nat, \A x \in S : x <= n
    PROVE  Max(S) \in S /\ \A y \in S : Max(S) >= y
<1>1. \E m \in S : \A y \in S : m >= y
  BY GreatestOfBounded
<1>. QED
  BY <1>1 DEF Max

\* A cap times a larger factor is larger, and one more visit costs one more cap.
LEMMA VisitCost ==
    ASSUME NEW h \in Nat, NEW g \in Nat, h <= g, NEW m \in Nat
    PROVE  /\ h * m \in Nat
           /\ h * m <= g * m
           /\ (h + 1) * m = h * m + m
OBVIOUS

-----------------------------------------------------------------------------
\* The message ask_supervisor keeps is one of the thread's, or the empty answer.
LEMMA LastAIType ==
    ASSUME NEW ms \in Seq(Message)
    PROVE  LastAI(ms) \in Message
<1> DEFINE ai == {i \in DOMAIN ms : ms[i].kind # "human" /\ ms[i].text # "EMPTY"}
<1>1. ASSUME ai # {} PROVE Max(ai) \in ai
  <2>1. ai \in SUBSET Nat /\ Len(ms) \in Nat /\ \A x \in ai : x <= Len(ms)
    OBVIOUS
  <2>. QED
    BY <1>1, <2>1, MaxOfBounded
<1>2. ASSUME ai = {} PROVE LastAI(ms) = NoAnswer
  BY <1>2 DEF LastAI
<1>3. ASSUME ai # {} PROVE LastAI(ms) = ms[Max(ai)]
  BY <1>3 DEF LastAI
<1>4. NoAnswer \in Message
  BY DEF NoAnswer, Message, Texts
<1>5. ASSUME NEW i \in ai PROVE ms[i] \in Message
  OBVIOUS
<1> HIDE DEF ai
<1>. QED
  BY <1>1, <1>2, <1>3, <1>4, <1>5

USE CapsAssumption DEF CapsAssumption

\* The initial state has the types.
LEMMA TypeInit == Init => TypeOK
BY DEF Init, TypeOK, NoAnswer, Message, Texts, Routes

\* Every step keeps the types.
LEMMA TypeStep == TypeOK /\ [Next]_vars => TypeOK'
<1> SUFFICES ASSUME TypeOK, [Next]_vars PROVE TypeOK'
  OBVIOUS
<1> USE DEF TypeOK, conversation, accounting, react
<1>1. CASE Ask
  <2>1. messages' \in Seq(Message)
    <3>1. [kind |-> "human", turn |-> turn + 1, text |-> "SAID"] \in Message
      BY DEF Message, Texts
    <3>2. (IF threaded THEN messages ELSE <<>>) \in Seq(Message)
      OBVIOUS
    <3>. QED
      BY <1>1, <3>1, <3>2 DEF Ask
  <2>. QED
    BY <1>1, <2>1 DEF Ask, ResetAccounting
<1>2. CASE Supervise
  BY <1>2 DEF Supervise, Decide, NoVisit, Routes
<1>3. ASSUME NEW t \in {"EMPTY", "SAID"}, NEW c \in Nat, NEW o \in Nat, Report(t, c, o)
      PROVE  /\ messages' \in Seq(Message) /\ toolCalls' \in Nat /\ observations' \in Nat
             /\ pc' = "supervisor" /\ callsMade' \in Nat /\ observed' \in Nat
             /\ iter' \in Nat /\ pending' \in Nat /\ lastText' \in {"EMPTY", "SAID"}
  <2>1. Msg("finding", IF t = "EMPTY" THEN "NONE" ELSE t) \in Message
    BY DEF Msg, Message, Texts
  <2>. QED
    BY <1>3, <2>1 DEF Report, NoVisit
<1>4. CASE WorkerModel
  BY <1>3, <1>4 DEF WorkerModel
<1>5. CASE CallTool
  BY <1>3, <1>5 DEF CallTool, ExhaustedText
<1>6. CASE Synthesize
  <2>1. PICK t \in {"EMPTY", "SAID"} : messages' = Append(messages, Msg("final", t))
    BY <1>6 DEF Synthesize
  <2>2. Msg("final", t) \in Message
    BY DEF Msg, Message, Texts
  <2>3. messages' \in Seq(Message)
    BY <2>1, <2>2
  <2>4. answer' \in Message
    BY <1>6, <2>3, LastAIType DEF Synthesize
  <2>. QED
    BY <1>6, <2>3, <2>4 DEF Synthesize
<1>7. CASE Raise
  BY <1>7 DEF Raise, NoVisit
<1>8. CASE UNCHANGED vars
  BY <1>8 DEF vars
<1>. QED
  BY <1>1, <1>2, <1>4, <1>5, <1>6, <1>7, <1>8 DEF Next, Graph

\* The state of the graph always has its type: supervisor.py's channels, the
\* locals of _run_react, and the answer ask_supervisor picked.
THEOREM TypeCorrect == Spec => []TypeOK
BY TypeInit, TypeStep, PTL DEF Spec

-----------------------------------------------------------------------------
\* A specialist is only entered with budget left, and what it executes stays
\* within what it was given; finished visits executed no more than they asked.
BudgetInv ==
    /\ observations <= toolCalls
    /\ observed <= callsMade
    /\ pc \in {"model", "call"} => toolCalls + observed <= MaxToolCalls
    /\ pc \notin {"model", "call"} => observed = 0 /\ observations <= MaxToolCalls

\* A node that returns leaves the budget invariant intact.
LEMMA BudgetReport ==
    ASSUME TypeOK, NEW t, NEW c \in Nat, NEW o \in Nat, Report(t, c, o),
           observations <= toolCalls, o <= c, toolCalls + o <= MaxToolCalls
    PROVE  BudgetInv'
BY DEF TypeOK, Report, NoVisit, BudgetInv

\* Every step keeps the budget invariant.
LEMMA BudgetStep == TypeOK /\ BudgetInv /\ [Next]_vars => BudgetInv'
<1> SUFFICES ASSUME TypeOK, BudgetInv, [Next]_vars PROVE BudgetInv'
  OBVIOUS
<1>1. CASE Ask
  BY <1>1 DEF Ask, ResetAccounting, BudgetInv, TypeOK, react
<1>2. CASE Supervise
  BY <1>2 DEF Supervise, Decide, NoVisit, BudgetInv, TypeOK
<1>3. CASE WorkerModel
  <2>1. PICK n \in 0..MaxBatch, t \in {"EMPTY", "SAID"} :
           \/ Report(t, callsMade, observed)
           \/ /\ pc' = "call"
              /\ UNCHANGED <<messages, toolCalls, observations, callsMade, observed>>
    BY <1>3 DEF WorkerModel
  <2>2. CASE Report(t, callsMade, observed)
    BY <1>3, <2>2, BudgetReport DEF WorkerModel, BudgetInv, TypeOK
  <2>. QED
    BY <1>3, <2>1, <2>2 DEF WorkerModel, BudgetInv
<1>4. CASE CallTool
  <2> DEFINE Obs(k) == observed + (IF Executes(k) THEN 1 ELSE 0)
  <2>1. PICK known \in BOOLEAN :
           \/ /\ callsMade' = callsMade + 1 /\ observed' = Obs(known)
              /\ pc' \in {pc, "model"} /\ UNCHANGED <<toolCalls, observations>>
           \/ Report(ExhaustedText, callsMade + 1, Obs(known))
    BY <1>4 DEF CallTool
  <2>2. Obs(known) \in Nat /\ Obs(known) <= callsMade + 1
    BY DEF TypeOK, BudgetInv
  <2>3. toolCalls + Obs(known) <= MaxToolCalls
    BY <1>4 DEF TypeOK, BudgetInv, Executes, ToolBudget, CallTool
  <2> HIDE DEF Obs
  <2>4. CASE Report(ExhaustedText, callsMade + 1, Obs(known))
    <3>1. callsMade + 1 \in Nat
      BY DEF TypeOK
    <3>. QED
      BY <2>2, <2>3, <2>4, <3>1, BudgetReport DEF BudgetInv
  <2>. QED
    BY <1>4, <2>1, <2>2, <2>3, <2>4 DEF BudgetInv, CallTool
<1>5. CASE Synthesize
  BY <1>5 DEF Synthesize, BudgetInv, accounting, react
<1>6. CASE Raise
  BY <1>6 DEF Raise, NoVisit, BudgetInv, accounting, TypeOK
<1>7. CASE UNCHANGED vars
  BY <1>7 DEF vars, BudgetInv, accounting, react
<1>. QED
  BY <1>1, <1>2, <1>3, <1>4, <1>5, <1>6, <1>7 DEF Next, Graph

\* A turn executes at most max_tool_calls tools, whatever the models request
\* and whatever way the calls are spread over specialists and iterations.
THEOREM BudgetHolds == Spec => []ToolBudgetRespected
<1>1. Init => BudgetInv
  BY DEF Init, BudgetInv
<1>2. TypeOK /\ BudgetInv => ToolBudgetRespected
  <2> SUFFICES ASSUME TypeOK, BudgetInv PROVE ToolBudgetRespected
    OBVIOUS
  <2>1. {toolCalls, observations, callsMade, observed} \subseteq Nat
    BY DEF TypeOK
  <2>. QED
    BY <2>1 DEF BudgetInv, ToolBudgetRespected
<1>. QED
  BY <1>1, <1>2, TypeCorrect, BudgetStep, PTL DEF Spec

-----------------------------------------------------------------------------
\* Until the first decision of a turn nothing is spent: the channels were reset.
FreshInv == pc = "supervisor" /\ hops = 0 => toolCalls = 0

\* Every step keeps it: a node that returns comes after a decision.
LEMMA FreshStep ==
    TypeOK /\ FreshInv /\ (pc \in {"model", "call"} => hops > 0) /\ [Next]_vars
        => FreshInv' /\ (pc \in {"model", "call"} => hops > 0)'
<1> SUFFICES ASSUME TypeOK, FreshInv, pc \in {"model", "call"} => hops > 0, [Next]_vars
             PROVE  FreshInv' /\ (pc \in {"model", "call"} => hops > 0)'
  OBVIOUS
<1>1. CASE Ask
  BY <1>1 DEF Ask, ResetAccounting, FreshInv
<1>2. CASE Supervise
  BY <1>2 DEF Supervise, Decide, FreshInv, TypeOK
<1>3. CASE WorkerModel
  BY <1>3 DEF WorkerModel, Report, FreshInv
<1>4. CASE CallTool
  BY <1>4 DEF CallTool, Report, FreshInv
<1>5. CASE Synthesize
  BY <1>5 DEF Synthesize, FreshInv
<1>6. CASE Raise
  BY <1>6 DEF Raise, FreshInv
<1>7. CASE UNCHANGED vars
  BY <1>7 DEF vars, FreshInv, accounting
<1>. QED
  BY <1>1, <1>2, <1>3, <1>4, <1>5, <1>6, <1>7 DEF Next, Graph

\* The caps apply to this turn alone: whatever the thread spent before, a first
\* decision that names a specialist reaches it.
THEOREM FirstHopIsFree == Spec => FirstHopDispatches
<1> DEFINE Inv == FreshInv /\ (pc \in {"model", "call"} => hops > 0)
<1>1. Init => Inv
  BY DEF Init, FreshInv
<1>2. TypeOK /\ Inv /\ [Next]_vars => Inv'
  BY FreshStep
<1>3. TypeOK /\ Inv /\ [Next]_vars
         => [(hops = 0 /\ hops' = 1 /\ route' \in Workers) => pc' = "model"]_vars
  <2> SUFFICES ASSUME FreshInv, Next, hops = 0, hops' = 1, route' \in Workers
               PROVE  pc' = "model"
    BY DEF vars, accounting
  <2>1. Supervise
    BY DEF Next, Graph, Ask, ResetAccounting, WorkerModel, CallTool, Synthesize, Raise,
           accounting
  <2>. QED
    BY <2>1 DEF Supervise, Decide, FreshInv
<1>. QED
  BY <1>1, <1>2, <1>3, TypeCorrect, PTL DEF Spec, FirstHopDispatches

-----------------------------------------------------------------------------
\* What the model invocations of a turn may number at each node.
CostInv ==
    /\ pc = "supervisor" => hops <= MaxHops /\ llmCalls <= hops + hops * MaxWorkerIters
    /\ pc \in {"model", "call"} =>
          /\ hops \in 1..MaxHops
          /\ llmCalls <= hops + (hops - 1) * MaxWorkerIters + iter
    /\ pc = "model" => iter < MaxWorkerIters
    /\ pc = "call" => iter <= MaxWorkerIters
    /\ pc = "synthesize" => llmCalls <= (MaxHops + 1) + MaxHops * MaxWorkerIters
    /\ LLMCallsBounded

\* Every step keeps the cost invariant.
LEMMA CostStep == TypeOK /\ CostInv /\ [Next]_vars => CostInv'
<1> SUFFICES ASSUME TypeOK, CostInv, [Next]_vars PROVE CostInv'
  OBVIOUS
<1>0. /\ {hops, iter, llmCalls, MaxHops, MaxWorkerIters} \subseteq Nat
      /\ MaxWorkerIters > 0
  BY DEF TypeOK
<1>. DEFINE M == MaxWorkerIters
            All == MaxHops * M
<1>a. /\ All \in Nat /\ hops * M \in Nat /\ (hops + 1) * M = hops * M + M
      /\ hops <= MaxHops => hops * M <= All
  BY <1>0, VisitCost
<1>b. hops > 0 => (hops - 1) * M \in Nat /\ hops * M = (hops - 1) * M + M
  <2>1. ASSUME hops > 0 PROVE hops - 1 \in Nat /\ (hops - 1) + 1 = hops
    BY <1>0, <2>1
  <2>. QED
    BY <1>0, <2>1, VisitCost
<1>1. CASE Ask
  BY <1>0, <1>1, <1>a DEF Ask, ResetAccounting, CostInv, LLMCallsBounded
<1>2. CASE Supervise
  <2>1. hops' = hops + 1 /\ llmCalls' = llmCalls + 1 /\ iter' = 0 /\ pc = "supervisor"
    BY <1>2 DEF Supervise, NoVisit
  <2>2. (hops' - 1) * M = hops * M
    BY <1>0, <2>1
  <2>3. \/ pc' = "synthesize"
        \/ pc' = "model" /\ hops' <= MaxHops
    BY <1>0, <1>2, <2>1 DEF Supervise, Decide
  <2>4. llmCalls' <= hops' + hops * M /\ hops * M <= All /\ hops' <= MaxHops + 1
    BY <1>0, <1>a, <2>1 DEF CostInv
  <2> HIDE DEF M, All
  <2>. QED
    BY <1>0, <1>a, <2>1, <2>2, <2>3, <2>4 DEF CostInv, LLMCallsBounded, M, All
<1>3. ASSUME pc \in {"model", "call"}, hops' = hops, pc' = "supervisor",
             llmCalls' <= hops + (hops - 1) * M + M, llmCalls' \in Nat
      PROVE  CostInv'
  <2>1. hops > 0 /\ hops <= MaxHops
    BY <1>0, <1>3 DEF CostInv
  <2>2. llmCalls' <= hops + hops * M /\ hops * M <= All
    BY <1>0, <1>3, <1>a, <1>b, <2>1
  <2>. QED
    BY <1>0, <1>3, <1>a, <2>1, <2>2 DEF CostInv, LLMCallsBounded
<1>4. CASE WorkerModel
  <2>1. /\ pc = "model" /\ hops' = hops /\ llmCalls' = llmCalls + 1
        /\ pc' = "supervisor" \/ (pc' = "call" /\ iter' = iter + 1)
    BY <1>4 DEF WorkerModel, Report
  <2>2. /\ hops \in 1..MaxHops /\ iter < M
        /\ llmCalls <= hops + (hops - 1) * M + iter
    BY <2>1 DEF CostInv
  <2>3. CASE pc' = "supervisor"
    BY <1>0, <1>b, <1>3, <2>1, <2>2, <2>3
  <2>4. CASE pc' = "call" /\ iter' = iter + 1
    <3>1. llmCalls' <= hops + (hops - 1) * M + iter' /\ iter' <= M
      BY <1>0, <1>b, <2>1, <2>2, <2>4
    <3>2. llmCalls' <= hops + hops * M
      BY <1>0, <1>b, <2>1, <2>2, <2>4, <3>1
    <3>. QED
      BY <1>0, <1>a, <2>1, <2>2, <2>4, <3>1, <3>2 DEF CostInv, LLMCallsBounded
  <2>. QED
    BY <2>1, <2>3, <2>4
<1>5. CASE CallTool
  <2>1. /\ pc = "call" /\ hops' = hops /\ llmCalls' = llmCalls
        /\ \/ pc' = "supervisor"
           \/ pc' = "call" /\ iter' = iter
           \/ pc' = "model" /\ iter' = iter /\ iter < M
    BY <1>0, <1>5 DEF CallTool, Report
  <2>2. /\ hops \in 1..MaxHops /\ iter <= M
        /\ llmCalls <= hops + (hops - 1) * M + iter
    BY <2>1 DEF CostInv
  <2>3. CASE pc' = "supervisor"
    BY <1>0, <1>b, <1>3, <2>1, <2>2, <2>3
  <2>. QED
    BY <2>1, <2>2, <2>3 DEF CostInv, LLMCallsBounded
<1>6. CASE Synthesize
  BY <1>0, <1>6, <1>a DEF Synthesize, CostInv, LLMCallsBounded, accounting, react
<1>7. CASE Raise
  <2>1. /\ pc' = "failed" /\ hops' = hops /\ llmCalls' \in {llmCalls, llmCalls + 1}
        /\ pc \in {"supervisor", "model", "call", "synthesize"}
        /\ pc = "call" => llmCalls' = llmCalls
    BY <1>0, <1>7 DEF Raise, accounting
  <2>2. CASE pc = "model"
    <3>1. /\ hops \in 1..MaxHops /\ iter < M
          /\ llmCalls <= hops + (hops - 1) * M + iter
      BY <2>2 DEF CostInv
    <3>2. llmCalls' <= hops + hops * M
      BY <1>0, <1>b, <2>1, <3>1
    <3>. QED
      BY <1>0, <1>a, <2>1, <3>1, <3>2 DEF CostInv, LLMCallsBounded
  <2>3. CASE pc # "model"
    BY <1>0, <1>a, <2>1, <2>3 DEF CostInv, LLMCallsBounded
  <2>. QED
    BY <2>2, <2>3
<1>8. CASE UNCHANGED vars
  BY <1>8 DEF vars, CostInv, LLMCallsBounded, accounting, react
<1>. QED
  BY <1>1, <1>2, <1>4, <1>5, <1>6, <1>7, <1>8 DEF Next, Graph

\* The caps bound the model invocations of a turn.
THEOREM CostHolds == Spec => []LLMCallsBounded
<1>1. Init => CostInv
  <2>1. MaxHops * MaxWorkerIters \in Nat
    OBVIOUS
  <2>. QED
    BY <2>1 DEF Init, CostInv, LLMCallsBounded
<1>2. CostInv => LLMCallsBounded
  BY DEF CostInv
<1>. QED
  BY <1>1, <1>2, TypeCorrect, CostStep, PTL DEF Spec

-----------------------------------------------------------------------------
\* The question of the turn is the last one of the thread: what is before it
\* belongs to earlier turns, what is after it to this one.
AskedAt(h) ==
    /\ h \in DOMAIN messages
    /\ messages[h].kind = "human" /\ messages[h].turn = turn
    /\ \A i \in DOMAIN messages : i < h => messages[i].turn < turn
    /\ \A i \in DOMAIN messages : i > h => messages[i].kind # "human" /\ messages[i].turn = turn

TranscriptInv ==
    /\ \A i \in DOMAIN messages : messages[i].turn <= turn
    /\ pc \in {"supervisor", "model", "call", "synthesize"} => \E h \in Nat : AskedAt(h)

\* A node's contribution follows the question it belongs to.
LEMMA ContributionFollows ==
    ASSUME TypeOK, TranscriptInv, NEW k \in {"finding", "final"}, NEW t \in Texts,
           pc \in {"supervisor", "model", "call", "synthesize"},
           messages' = Append(messages, Msg(k, t)), turn' = turn
    PROVE  TranscriptInv'
<1>1. PICK h \in Nat : AskedAt(h)
  BY DEF TranscriptInv
<1>2. messages \in Seq(Message) /\ turn \in Nat /\ Msg(k, t) \in Message
  BY DEF TypeOK, Msg, Message
<1>3. /\ Len(messages) \in Nat /\ DOMAIN messages = 1..Len(messages)
      /\ DOMAIN messages' = 1..(Len(messages) + 1)
      /\ messages'[Len(messages) + 1] = Msg(k, t)
      /\ \A i \in DOMAIN messages : messages'[i] = messages[i]
  BY <1>2
<1>4. /\ Msg(k, t).kind # "human" /\ Msg(k, t).turn = turn
  BY DEF Msg
<1>5. \A i \in DOMAIN messages : messages[i].turn <= turn
  BY DEF TranscriptInv
<1>6. \A i \in DOMAIN messages' : i \in DOMAIN messages \/ i = Len(messages) + 1
  BY <1>3
<1>7. AskedAt(h)'
  <2>1. h \in DOMAIN messages' /\ h < Len(messages) + 1
    BY <1>1, <1>3 DEF AskedAt
  <2>. QED
    BY <1>1, <1>3, <1>4, <1>6, <2>1 DEF AskedAt
<1>8. \A i \in DOMAIN messages' : messages'[i].turn <= turn
  BY <1>2, <1>3, <1>4, <1>5, <1>6
<1>. QED
  BY <1>7, <1>8 DEF TranscriptInv

\* Every step keeps the transcript in order.
LEMMA TranscriptStep == TypeOK /\ TranscriptInv /\ [Next]_vars => TranscriptInv'
<1> SUFFICES ASSUME TypeOK, TranscriptInv, [Next]_vars PROVE TranscriptInv'
  OBVIOUS
<1>1. CASE Ask
  <2> DEFINE old == IF threaded THEN messages ELSE <<>>
             new == [kind |-> "human", turn |-> turn + 1, text |-> "SAID"]
  <2>1. /\ old \in Seq(Message) /\ new \in Message /\ turn \in Nat
        /\ \A i \in DOMAIN old : old[i].turn \in Nat /\ old[i].turn <= turn
    <3>1. messages \in Seq(Message) /\ turn \in Nat
      BY DEF TypeOK
    <3>2. \A i \in DOMAIN messages : messages[i] \in Message
      BY <3>1
    <3>3. \A i \in DOMAIN messages : messages[i].turn \in Nat /\ messages[i].turn <= turn
      BY <3>2 DEF Message, TranscriptInv
    <3>4. new \in Message
      BY <3>1 DEF Message, Texts
    <3>5. CASE threaded
      BY <3>1, <3>3, <3>4, <3>5
    <3>6. CASE ~ threaded
      BY <3>1, <3>4, <3>6
    <3>. QED
      BY <3>5, <3>6
  <2>2. messages' = Append(old, new) /\ turn' = turn + 1
    BY <1>1 DEF Ask
  <2>3. new.kind = "human" /\ new.turn = turn + 1
    OBVIOUS
  <2> HIDE DEF old, new
  <2>4. /\ Len(old) \in Nat /\ DOMAIN old = 1..Len(old)
        /\ DOMAIN messages' = 1..(Len(old) + 1)
        /\ messages'[Len(old) + 1] = new
        /\ \A i \in DOMAIN old : messages'[i] = old[i]
    BY <2>1, <2>2
  <2>5. \A i \in DOMAIN messages' : i \in DOMAIN old \/ i = Len(old) + 1
    BY <2>4
  <2>6. PICK h \in Nat : h = Len(old) + 1
    BY <2>4
  <2>7. AskedAt(h)'
    <3>1. ASSUME NEW i \in DOMAIN messages', i < h PROVE messages'[i].turn < turn'
      BY <2>1, <2>2, <2>4, <2>5, <2>6, <3>1
    <3>2. ASSUME NEW i \in DOMAIN messages', i > h PROVE FALSE
      BY <2>4, <2>6, <3>2
    <3>3. h \in DOMAIN messages' /\ messages'[h] = new
      BY <2>4, <2>6
    <3>. QED
      BY <2>2, <2>3, <3>1, <3>2, <3>3 DEF AskedAt
  <2>8. \A i \in DOMAIN messages' : messages'[i].turn <= turn'
    BY <2>1, <2>2, <2>3, <2>4, <2>5
  <2>. QED
    BY <2>7, <2>8 DEF TranscriptInv
<1>2. ASSUME NEW t \in {"EMPTY", "SAID"}, NEW c, NEW o, Report(t, c, o), turn' = turn,
             pc \in {"model", "call"}
      PROVE  TranscriptInv'
  <2>1. (IF t = "EMPTY" THEN "NONE" ELSE t) \in Texts
    BY DEF Texts
  <2>. QED
    BY <1>2, <2>1, ContributionFollows DEF Report
<1>3. CASE Supervise
  BY <1>3 DEF Supervise, conversation, TranscriptInv, AskedAt
<1>4. CASE WorkerModel
  <2>1. PICK n \in 0..MaxBatch, t \in {"EMPTY", "SAID"} :
           Report(t, callsMade, observed) \/ UNCHANGED messages
    BY <1>4 DEF WorkerModel
  <2>2. CASE Report(t, callsMade, observed)
    BY <1>2, <1>4, <2>2 DEF WorkerModel
  <2>3. CASE UNCHANGED messages
    BY <1>4, <2>3 DEF WorkerModel, TranscriptInv, AskedAt
  <2>. QED
    BY <2>1, <2>2, <2>3
<1>5. CASE CallTool
  <2>1. (\E c, o : Report(ExhaustedText, c, o)) \/ UNCHANGED messages
    BY <1>5 DEF CallTool
  <2>2. CASE \E c, o : Report(ExhaustedText, c, o)
    BY <1>2, <1>5, <2>2 DEF CallTool, ExhaustedText
  <2>3. CASE UNCHANGED messages
    BY <1>5, <2>3 DEF CallTool, TranscriptInv, AskedAt
  <2>. QED
    BY <2>1, <2>2, <2>3
<1>6. CASE Synthesize
  <2>1. PICK t \in {"EMPTY", "SAID"} : messages' = Append(messages, Msg("final", t))
    BY <1>6 DEF Synthesize
  <2>. QED
    BY <1>6, <2>1, ContributionFollows DEF Synthesize, Texts
<1>7. CASE Raise
  BY <1>7 DEF Raise, conversation, TranscriptInv
<1>8. CASE UNCHANGED vars
  BY <1>8 DEF vars, conversation, TranscriptInv, AskedAt
<1>. QED
  BY <1>1, <1>3, <1>4, <1>5, <1>6, <1>7, <1>8 DEF Next, Graph

\* The cut at the last question selects this turn's findings and no others.
LEMMA CutIsTurn == TypeOK /\ TranscriptInv => SynthesisFromThisTurn
<1> SUFFICES ASSUME TypeOK, TranscriptInv, pc = "synthesize"
             PROVE  SynthesisInput = FindingsAt({i \in DOMAIN messages : messages[i].turn = turn})
  BY DEF SynthesisFromThisTurn
<1>1. PICK h \in Nat : AskedAt(h)
  BY DEF TranscriptInv
<1>2. /\ messages \in Seq(Message) /\ turn \in Nat
      /\ Len(messages) \in Nat /\ DOMAIN messages = 1..Len(messages)
  BY DEF TypeOK
<1>3. /\ Questions \in SUBSET Nat /\ h \in Questions
      /\ \A x \in Questions : x <= Len(messages)
  BY <1>1, <1>2 DEF Questions, AskedAt
<1>4. Max(Questions) \in Questions /\ \A y \in Questions : Max(Questions) >= y
  BY <1>2, <1>3, MaxOfBounded
<1>5. Max(Questions) = h
  <2>1. \A x \in Questions : x <= h
    BY <1>1, <1>2 DEF Questions, AskedAt
  <2>2. Max(Questions) \in Nat /\ Max(Questions) >= h /\ Max(Questions) <= h
    BY <1>3, <1>4, <2>1
  <2>. QED
    BY <2>2
<1>6. \A i \in DOMAIN messages :
         messages[i].kind = "finding" => (i > h <=> messages[i].turn = turn)
  <2>1. \A i \in DOMAIN messages : messages[i].turn \in Nat
    <3>1. \A i \in DOMAIN messages : messages[i] \in Message
      BY <1>2
    <3>. QED
      BY <3>1 DEF Message
  <2>. QED
    BY <1>1, <1>2, <2>1 DEF AskedAt
<1>. QED
  BY <1>5, <1>6 DEF SynthesisInput, FindingsAt

\* The synthesizer is given this turn's findings, all of them and only them,
\* whatever earlier turns left in the thread.
THEOREM SynthesisIsFresh == Spec => []SynthesisFromThisTurn
<1>1. Init => TranscriptInv
  BY DEF Init, TranscriptInv
<1>. QED
  BY <1>1, TypeCorrect, TranscriptStep, CutIsTurn, PTL DEF Spec

=============================================================================
