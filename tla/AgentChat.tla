------------------------------ MODULE AgentChat ------------------------------
(***************************************************************************)
(* The dashboard's chat (web/src/components/ChatWidget.jsx) on top of the  *)
(* agent's runner, with the memory of its threads: each widget sends the   *)
(* questions of its conversation to POST /ask under one thread_id, and the *)
(* runner's checkpointed graph loads a thread when a run begins and saves  *)
(* it as the run goes on (runtime.py, graph/supervisor.py).  The network   *)
(* may lose an answer whose run goes on.                                   *)
(***************************************************************************)
EXTENDS AgentRunner, Sequences

CONSTANTS
    Widgets,    \* chat widgets, one per open dashboard
    Threads,    \* ids newThreadId can draw
    NoThread,   \* of an ask nobody has sent
    MaxTorn     \* bound: answers are lost until that many threads are torn

ASSUME ChatAssumption == NoThread \notin Threads /\ MaxTorn \in Nat

VARIABLES
    threadId,   \* threadId of each widget
    messages,   \* messages of each widget
    loading,    \* loading of each widget
    fetching,   \* the requests it has under way
    sentOn,     \* the thread_id each ask was sent with
    loaded,     \* asks whose run has loaded its thread
    base,       \* what it loaded
    memory,     \* the latest checkpoint of each thread
    heard,      \* history: the answers a conversation showed when an ask was sent
    torn        \* history: threads on which an answer was lost

widgetVars == <<threadId, messages, loading, fetching, sentOn, heard, torn>>
threadVars == <<loaded, base, memory>>
chatVars   == <<vars, widgetVars, threadVars>>

\* What a thread holds of an ask: its question, and the graph's answer to it.
Said == [of : Asks, part : {"question", "answer"}]
Question(a) == [of |-> a, part |-> "question"]
Answer(a)   == [of |-> a, part |-> "answer"]

Message(role, a) == [role |-> role, of |-> a]
Messages == [role : {"user", "assistant", "error"}, of : Asks]

ChatInit ==
    /\ Init
    /\ threadId \in [Widgets -> Threads]
    /\ \A w, x \in Widgets : w # x => threadId[w] # threadId[x]
    /\ messages = [w \in Widgets |-> <<>>]
    /\ loading = [w \in Widgets |-> FALSE]
    /\ fetching = [w \in Widgets |-> {}]
    /\ sentOn = [a \in Asks |-> NoThread]
    /\ heard = [a \in Asks |-> {}]
    /\ torn = {}
    /\ loaded = {} /\ base = [a \in Asks |-> {}]
    /\ memory = [t \in Threads |-> {}]

-----------------------------------------------------------------------------
(* The widget. *)

\* A fault: the Enter key sends although the button is disabled.
MaySendAnyTime(w) == TRUE

\* A question is only sent when none is under way.
MaySend(w) == ~ loading[w]

\* The answers to this conversation's questions that it shows.
Heard(w) == {b \in Asks : /\ sentOn[b] = threadId[w]
                          /\ \E i \in DOMAIN messages[w] : messages[w][i] = Message("assistant", b)}

\* send, up to the await of fetch
Send(w, a) ==
    /\ MaySend(w)
    /\ a \in Threaded /\ sentOn[a] = NoThread
    /\ messages' = [messages EXCEPT ![w] = Append(@, Message("user", a))]
    /\ loading' = [loading EXCEPT ![w] = TRUE]
    /\ fetching' = [fetching EXCEPT ![w] = @ \cup {a}]
    /\ sentOn' = [sentOn EXCEPT ![a] = threadId[w]]
    /\ heard' = [heard EXCEPT ![a] = Heard(w)]
    /\ UNCHANGED <<vars, threadId, torn, threadVars>>

\* The answer, or the catch clause, and finally.
Settle(w, a, role) ==
    /\ a \in fetching[w]
    /\ messages' = [messages EXCEPT ![w] = Append(@, Message(role, a))]
    /\ loading' = [loading EXCEPT ![w] = FALSE]
    /\ fetching' = [fetching EXCEPT ![w] = @ \ {a}]
    /\ UNCHANGED <<vars, threadId, sentOn, heard, threadVars>>

\* The runner's reply arrives: an answer, or a status of 500.
Deliver(w, a) ==
    /\ pc[a] = "done"
    /\ Settle(w, a, IF shown[a].kind = "error" THEN "error" ELSE "assistant")
    /\ UNCHANGED torn

\* fetch rejects, or the service refuses (401, 422, a proxy's 504): the run, if
\* there is one, goes on.
Lose(w, a) ==
    /\ Cardinality(torn) < MaxTorn
    /\ torn' = torn \cup {sentOn[a]}
    /\ Settle(w, a, "error")

\* A uuid nobody has drawn.
Fresh(w, t) == (\A x \in Widgets : threadId[x] # t) /\ (\A a \in Asks : sentOn[a] # t)

\* reset; the request under way is neither cancelled nor forgotten.
New(w) ==
    /\ \E t \in Threads : Fresh(w, t) /\ threadId' = [threadId EXCEPT ![w] = t]
    /\ messages' = [messages EXCEPT ![w] = <<>>]
    /\ UNCHANGED <<vars, loading, fetching, sentOn, heard, torn, threadVars>>

-----------------------------------------------------------------------------
(* The runner, with the checkpoints of its threads. *)

\* Whether the run of an ask goes through the checkpointed graph.
OnThread(a) == a \in Threaded /\ Database

\* The request arrives.
Arrive(a) ==
    /\ a \in Threaded => sentOn[a] # NoThread
    /\ Ask(a)
    /\ UNCHANGED <<widgetVars, threadVars>>

\* The graph is built, or is not.
Build(a) == (Enter(a) \/ Setup(a) \/ BuildFails(a)) /\ UNCHANGED <<widgetVars, threadVars>>

\* A fault: the channel of the messages has no reducer.
SavedNot(a, from, parts) == parts

\* The messages of a checkpoint: add_messages to what was loaded.
Saved(a, from, parts) == from \cup parts

\* A superstep ends: its checkpoint becomes the latest of the thread.
Save(a, from, parts) == memory' = [memory EXCEPT ![sentOn[a]] = Saved(a, from, parts)]

\* ainvoke loads the latest checkpoint of the thread and saves it with the question.
Load(a) ==
    /\ pc[a] = "run" /\ OnThread(a) /\ a \notin loaded
    /\ loaded' = loaded \cup {a}
    /\ base' = [base EXCEPT ![a] = memory[sentOn[a]]]
    /\ Save(a, memory[sentOn[a]], {Question(a)})
    /\ UNCHANGED <<vars, widgetVars>>

\* The run may go on: it has its thread, or needs none.
Ready(a) == a \in loaded \/ ~ OnThread(a)

\* A specialist's tool answers; its superstep ends and is saved.
Observes(a) ==
    /\ Ready(a) /\ Observe(a)
    /\ IF OnThread(a) THEN Save(a, base[a], {Question(a)}) ELSE UNCHANGED memory
    /\ UNCHANGED <<widgetVars, loaded, base>>

\* The last superstep: the synthesis is in the thread before it is judged.
Ends(a) ==
    /\ Ready(a) /\ RunEnds(a)
    /\ IF OnThread(a) THEN Save(a, base[a], {Question(a), Answer(a)}) ELSE UNCHANGED memory
    /\ UNCHANGED <<widgetVars, loaded, base>>

\* What was saved before the exception stays.
Fails(a) == RunFails(a) /\ UNCHANGED <<widgetVars, threadVars>>

Vets(a) == (Check(a) \/ Judge(a) \/ JudgeFails(a)) /\ UNCHANGED <<widgetVars, threadVars>>

Closes == Close /\ UNCHANGED <<widgetVars, threadVars>>

ChatNext ==
    \/ \E w \in Widgets, a \in Asks : Send(w, a) \/ Deliver(w, a) \/ Lose(w, a)
    \/ \E w \in Widgets : New(w)
    \/ \E a \in Asks :
          \/ Arrive(a) \/ Build(a) \/ Load(a) \/ Observes(a)
          \/ Ends(a) \/ Fails(a) \/ Vets(a)
    \/ Closes

ChatSpec == ChatInit /\ [][ChatNext]_chatVars

-----------------------------------------------------------------------------
ChatTypeOK ==
    /\ TypeOK
    /\ threadId \in [Widgets -> Threads]
    /\ messages \in [Widgets -> Seq(Messages)]
    /\ loading \in [Widgets -> BOOLEAN]
    /\ fetching \in [Widgets -> SUBSET Asks]
    /\ sentOn \in [Asks -> Threads \cup {NoThread}]
    /\ heard \in [Asks -> SUBSET Asks] /\ torn \subseteq Threads
    /\ loaded \subseteq Asks /\ base \in [Asks -> SUBSET Said]
    /\ memory \in [Threads -> SUBSET Said]

\* Multi-turn memory (README.md: "a thread's prior messages carry into
\* follow-ups"): a run starts from every question of its conversation that had
\* been answered, vetted or not, when this one was sent, together with what the
\* graph said to it; unless an answer of the thread was lost, because then two
\* runs of the thread may overlap and the later checkpoint hides the other's.
FollowUpsCarry ==
    \A a \in loaded : sentOn[a] \notin torn =>
        \A b \in heard[a] : shown[b].kind \in {"answer", "rejected"} =>
            {Question(b), Answer(b)} \subseteq base[a]

\* A reply stands under its own question.  The only other place for one is the
\* top of a conversation that was begun while it was under way, and then it
\* answers a question of the conversation before.
RepliesInTurn ==
    \A w \in Widgets : \A i \in DOMAIN messages[w] :
        LET m == messages[w][i]
        IN m.role # "user" =>
              \/ i > 1 /\ messages[w][i - 1] = Message("user", m.of)
              \/ i = 1 /\ sentOn[m.of] # threadId[w]
=============================================================================
