-------------------------- MODULE AgentRunnerProofs --------------------------
(***************************************************************************)
(* Safety of the agent runtime for any number of concurrent asks, and of   *)
(* the chat on top of it for any number of widgets and threads.            *)
(***************************************************************************)
EXTENDS AgentChat, TLAPS

USE RunnerAssumption DEF RunnerAssumption

LEMMA TypeInit == Init => TypeOK
<1>1. Unset \in Replies
  BY DEF Unset, Bare, Replies
<1>. QED
  BY <1>1 DEF Init, TypeOK, None

\* A reply has its type.
LEMMA ReplyType ==
    ASSUME TypeOK, NEW a \in Asks, NEW reply \in Replies, Reply(a, reply)
    PROVE  /\ shown' \in [Asks -> Replies]
           /\ pc' \in [Asks -> {"idle", "enter", "setup", "run", "check", "judge", "done"}]
BY DEF Reply, Goto, TypeOK

LEMMA ErrorType == Bare("error") \in Replies
BY DEF Bare, Replies

\* The narrative and what stands in for it are replies.
LEMMA NarrativeType ==
    ASSUME TypeOK, NEW a \in Asks, NEW verdict \in {"none", "valid"}
    PROVE  Narrative(a, verdict) \in Replies
BY DEF Narrative, Replies, TypeOK

LEMMA FallbackType ==
    ASSUME NEW kind \in {"failed", "rejected"}, NEW quoted \in SUBSET Figures,
           NEW data \in SUBSET Figures, NEW verdict \in {"none", "ungrounded", "misleading"}
    PROVE  Fallback(kind, quoted, data, verdict) \in Replies
BY DEF Fallback, Replies

LEMMA RejectType ==
    ASSUME TypeOK, NEW a \in Asks, NEW quoted \in SUBSET Figures,
           NEW verdict \in {"ungrounded", "misleading"}, RejectReply(a, quoted, verdict)
    PROVE  /\ shown' \in [Asks -> Replies]
           /\ pc' \in [Asks -> {"idle", "enter", "setup", "run", "check", "judge", "done"}]
<1>1. Reply(a, Fallback("rejected", quoted, seen[a], verdict))
  BY DEF RejectReply
<1>2. seen[a] \in SUBSET Figures
  BY DEF TypeOK
<1>3. Fallback("rejected", quoted, seen[a], verdict) \in Replies
  BY <1>2, FallbackType
<1>. QED
  BY <1>1, <1>3, ReplyType

LEMMA FailType ==
    ASSUME TypeOK, NEW a \in Asks, FailReply(a)
    PROVE  /\ shown' \in [Asks -> Replies]
           /\ pc' \in [Asks -> {"idle", "enter", "setup", "run", "check", "judge", "done"}]
<1>1. Reply(a, Fallback("failed", Figures, {}, "none"))
  BY DEF FailReply
<1>2. Fallback("failed", Figures, {}, "none") \in Replies
  BY FallbackType
<1>. QED
  BY <1>1, <1>2, ReplyType

\* What a check or the judge does to the reply.
LEMMA CheckType ==
    ASSUME TypeOK, NEW a \in Asks, Check(a) \/ Judge(a)
    PROVE  /\ shown' \in [Asks -> Replies]
           /\ pc' \in [Asks -> {"idle", "enter", "setup", "run", "check", "judge", "done"}]
<1>1. Ungrounded(a) \in SUBSET Figures
  BY DEF TypeOK, Ungrounded
<1>2. ASSUME NEW v \in {"none", "valid"}, Reply(a, Narrative(a, v))
      PROVE  shown' \in [Asks -> Replies] /\ pc' \in [Asks -> {"idle", "enter", "setup", "run", "check", "judge", "done"}]
  BY <1>2, NarrativeType, ReplyType
<1>3. ASSUME NEW quoted \in SUBSET Figures, NEW v \in {"ungrounded", "misleading"},
             RejectReply(a, quoted, v)
      PROVE  shown' \in [Asks -> Replies] /\ pc' \in [Asks -> {"idle", "enter", "setup", "run", "check", "judge", "done"}]
  BY <1>3, RejectType
<1>4. ASSUME Goto(a, "judge"), UNCHANGED shown
      PROVE  shown' \in [Asks -> Replies] /\ pc' \in [Asks -> {"idle", "enter", "setup", "run", "check", "judge", "done"}]
  BY <1>4 DEF Goto, TypeOK
<1>. QED
  BY <1>1, <1>2, <1>3, <1>4 DEF Check, Judge

LEMMA TypeStep == TypeOK /\ [Next]_vars => TypeOK'
<1> SUFFICES ASSUME TypeOK, [Next]_vars PROVE TypeOK'
  OBVIOUS
<1>1. ASSUME NEW a \in Asks, Ask(a) PROVE TypeOK'
  BY <1>1 DEF Ask, Goto, TypeOK, asks
<1>2. ASSUME NEW a \in Asks, Enter(a) \/ Setup(a) PROVE TypeOK'
  BY <1>2 DEF Enter, Setup, Goto, TypeOK, asks
<1>3. ASSUME NEW a \in Asks, BuildFails(a) PROVE TypeOK'
  <2>1. Reply(a, Bare("error"))
    BY <1>3 DEF BuildFails
  <2>. QED
    BY <1>3, <2>1, ErrorType, ReplyType DEF BuildFails, TypeOK
<1>4. ASSUME NEW a \in Asks, Observe(a) PROVE TypeOK'
  BY <1>4 DEF Observe, TypeOK
<1>5. ASSUME NEW a \in Asks, RunFails(a) PROVE TypeOK'
  <2>1. FailReply(a)
    BY <1>5 DEF RunFails
  <2>. QED
    BY <1>5, <2>1, FailType DEF RunFails, TypeOK
<1>6. ASSUME NEW a \in Asks, RunEnds(a) PROVE TypeOK'
  BY <1>6 DEF RunEnds, Goto, TypeOK
<1>7. ASSUME NEW a \in Asks, Check(a) \/ Judge(a) PROVE TypeOK'
  <2>1. UNCHANGED <<threaded, cm, open, closed, seen, stated, troubled>>
    BY <1>7 DEF Check, Judge
  <2>. QED
    BY <1>7, <2>1, CheckType DEF TypeOK
<1>8. ASSUME NEW a \in Asks, JudgeFails(a) PROVE TypeOK'
  <2>1. Reply(a, Bare("error"))
    BY <1>8 DEF JudgeFails
  <2>. QED
    BY <1>8, <2>1, ErrorType, ReplyType DEF JudgeFails, TypeOK
<1>9. ASSUME Close PROVE TypeOK'
  BY <1>9 DEF Close, TypeOK, asks
<1>10. ASSUME UNCHANGED vars PROVE TypeOK'
  BY <1>10 DEF vars, asks, TypeOK
<1>. QED
  BY <1>1, <1>2, <1>3, <1>4, <1>5, <1>6, <1>7, <1>8, <1>9, <1>10 DEF Next, Step

\* Every reachable state has the types.
THEOREM TypeCorrect == Spec => []TypeOK
BY TypeInit, TypeStep, PTL DEF Spec

-----------------------------------------------------------------------------
\* What is shown stays grounded: the tool results and the answer of an ask stay
\* once it has its reply, and the judge is asked only about grounded answers.
GroundedInv ==
    /\ ShownIsVetted
    /\ \A a \in Asks : pc[a] = "judge" => Grounded(a)
    /\ \A a \in Asks : pc[a] # "done" => shown[a].verdict = "none"

\* What is vetted of one reply.
VettedReply(a, reply) ==
    /\ Validate => reply.amounts \subseteq seen[a]
    /\ reply.data \subseteq seen[a]
    /\ reply.kind \in {"failed", "rejected"} => reply.amounts = {}
    /\ reply.quoted # {} => reply.kind \in {"failed", "rejected"}
    /\ reply.verdict = "ungrounded" => reply.quoted = Ungrounded(a) /\ ~ Grounded(a)
    /\ reply.kind = "rejected" <=> reply.verdict \in {"ungrounded", "misleading"}
    /\ reply.kind = "answer" /\ reply.verdict = "none" => ~ Validate

\* A vetted reply keeps what is shown vetted.
LEMMA ReplyIsVetted ==
    ASSUME TypeOK, GroundedInv, NEW a \in Asks, NEW reply,
           Reply(a, reply), VettedReply(a, reply), UNCHANGED <<seen, stated>>
    PROVE  GroundedInv'
BY DEF Reply, Goto, VettedReply, GroundedInv, ShownIsVetted, Grounded, Ungrounded, TypeOK

LEMMA RejectIsVetted ==
    ASSUME TypeOK, GroundedInv, NEW a \in Asks, NEW quoted, NEW verdict,
           RejectReply(a, quoted, verdict), UNCHANGED <<seen, stated>>,
           \/ verdict = "misleading"
           \/ verdict = "ungrounded" /\ quoted = Ungrounded(a) /\ ~ Grounded(a)
    PROVE  GroundedInv'
<1>1. Reply(a, Fallback("rejected", quoted, seen[a], verdict))
  BY DEF RejectReply
<1>2. VettedReply(a, Fallback("rejected", quoted, seen[a], verdict))
  BY DEF VettedReply, Fallback
<1>. QED
  BY <1>1, <1>2, ReplyIsVetted

LEMMA GroundedStep == TypeOK /\ GroundedInv /\ [Next]_vars => GroundedInv'
<1> SUFFICES ASSUME TypeOK, GroundedInv, [Next]_vars PROVE GroundedInv'
  OBVIOUS
<1>0. ASSUME UNCHANGED <<stated, shown>>, NEW a \in Asks,
             \A b \in Asks : b # a => pc'[b] = pc[b] /\ seen'[b] = seen[b],
             pc[a] \notin {"judge", "done"}, pc'[a] # "judge", seen[a] \subseteq seen'[a]
      PROVE  GroundedInv'
  BY <1>0 DEF GroundedInv, ShownIsVetted, Grounded, Ungrounded
<1>1. ASSUME NEW a \in Asks, Ask(a) PROVE GroundedInv'
  <2>1. pc[a] = "idle" /\ UNCHANGED asks /\ (Goto(a, "run") \/ Goto(a, "enter"))
    BY <1>1 DEF Ask
  <2>. QED
    BY <1>0, <2>1 DEF Goto, TypeOK, asks
<1>2. ASSUME NEW a \in Asks, Enter(a) \/ Setup(a) PROVE GroundedInv'
  BY <1>0, <1>2 DEF Enter, Setup, Goto, TypeOK, asks
<1>3. ASSUME NEW a \in Asks, BuildFails(a) \/ JudgeFails(a) PROVE GroundedInv'
  <2>1. Reply(a, Bare("error")) /\ UNCHANGED <<seen, stated>>
    BY <1>3 DEF BuildFails, JudgeFails
  <2>2. VettedReply(a, Bare("error"))
    BY DEF VettedReply, Bare
  <2>. QED
    BY <2>1, <2>2, ReplyIsVetted
<1>4. ASSUME NEW a \in Asks, RunFails(a) PROVE GroundedInv'
  <2>1. Reply(a, Fallback("failed", Figures, {}, "none"))
    BY <1>4 DEF RunFails, FailReply
  <2>2. VettedReply(a, Fallback("failed", Figures, {}, "none"))
    BY DEF VettedReply, Fallback
  <2>. QED
    BY <1>4, <2>1, <2>2, ReplyIsVetted DEF RunFails
<1>5. ASSUME NEW a \in Asks, Observe(a) PROVE GroundedInv'
  BY <1>0, <1>5 DEF Observe, TypeOK
<1>6. ASSUME NEW a \in Asks, RunEnds(a) PROVE GroundedInv'
  BY <1>6 DEF RunEnds, Goto, TypeOK, GroundedInv, ShownIsVetted, Grounded, Ungrounded
<1>7. ASSUME NEW a \in Asks, Check(a) PROVE GroundedInv'
  <2>0. UNCHANGED <<seen, stated>>
    BY <1>7 DEF Check
  <2>1. CASE ~ Validate /\ Reply(a, Narrative(a, "none"))
    <3>1. VettedReply(a, Narrative(a, "none"))
      BY <2>1 DEF VettedReply, Narrative
    <3>. QED
      BY <2>0, <2>1, <3>1, ReplyIsVetted
  <2>2. CASE ~ Grounded(a) /\ RejectReply(a, Ungrounded(a), "ungrounded")
    BY <2>0, <2>2, RejectIsVetted
  <2>3. CASE Validate /\ Grounded(a) /\ Reply(a, Narrative(a, "valid"))
    <3>1. VettedReply(a, Narrative(a, "valid"))
      BY <2>3 DEF VettedReply, Narrative, Grounded, Ungrounded
    <3>. QED
      BY <2>0, <2>3, <3>1, ReplyIsVetted
  <2>4. CASE Grounded(a) /\ Goto(a, "judge") /\ UNCHANGED shown
    BY <1>7, <2>0, <2>4 DEF Check, Goto, TypeOK, GroundedInv, ShownIsVetted, Grounded, Ungrounded
  <2>. QED
    BY <1>7, <2>1, <2>2, <2>3, <2>4 DEF Check
<1>8. ASSUME NEW a \in Asks, Judge(a) PROVE GroundedInv'
  <2>0. UNCHANGED <<seen, stated>> /\ Grounded(a)
    BY <1>8 DEF Judge, GroundedInv
  <2>1. CASE RejectReply(a, Figures, "misleading")
    BY <2>0, <2>1, RejectIsVetted
  <2>2. CASE Reply(a, Narrative(a, "valid"))
    <3>1. VettedReply(a, Narrative(a, "valid"))
      BY <2>0 DEF VettedReply, Narrative, Grounded, Ungrounded
    <3>. QED
      BY <2>0, <2>2, <3>1, ReplyIsVetted
  <2>. QED
    BY <1>8, <2>1, <2>2 DEF Judge
<1>9. ASSUME Close \/ UNCHANGED vars PROVE GroundedInv'
  BY <1>9 DEF Close, vars, asks, GroundedInv, ShownIsVetted, Grounded, Ungrounded
<1>. QED
  BY <1>1, <1>2, <1>3, <1>4, <1>5, <1>6, <1>7, <1>8, <1>9 DEF Next, Step

\* What reaches the user is vetted against the tools' results of the very run: no
\* other amount in a narrative or in raw data, and a reason that quotes exactly
\* those that are not grounded.
THEOREM ShownHolds == Spec => []ShownIsVetted
<1>1. Init => GroundedInv
  BY DEF Init, GroundedInv, ShownIsVetted, Unset, Bare
<1>2. GroundedInv => ShownIsVetted
  BY DEF GroundedInv
<1>. QED
  BY <1>1, <1>2, TypeInit, TypeStep, GroundedStep, PTL DEF Spec

-----------------------------------------------------------------------------
\* The connections.  Outside races and failures the one cm holds is the only one,
\* whether it is being opened, set up or used.
ConnectionInv ==
    /\ \A b \in open \ troubled : ~ closed => b = cm
    /\ \A b \in open : pc[b] = "setup" \/ threaded # None \/ b \in troubled
    /\ \A b \in Asks : pc[b] \in Building /\ b \notin troubled => b = cm
    /\ closed => \A b \in Asks : pc[b] \in {"idle", "run", "check", "judge", "done"}
    /\ OnlyTroubledLeak

LEMMA ConnectionStep == TypeOK /\ ConnectionInv /\ [Next]_vars => ConnectionInv'
<1> SUFFICES ASSUME TypeOK, ConnectionInv, [Next]_vars PROVE ConnectionInv'
  OBVIOUS
<1> USE DEF ConnectionInv, OnlyTroubledLeak, Building, None
<1>1. ASSUME NEW a \in Asks, Ask(a) PROVE ConnectionInv'
  <2>1. CASE Goto(a, "run") /\ UNCHANGED <<cm, troubled>>
    BY <1>1, <2>1 DEF Ask, Goto, TypeOK
  <2>2. CASE /\ ~ Cached /\ cm' = a /\ Goto(a, "enter")
             /\ \A b \in Asks : pc[b] \in Building => b \in troubled' /\ a \in troubled'
             /\ troubled \subseteq troubled'
    BY <1>1, <2>2 DEF Ask, Goto, TypeOK, Cached
  <2>. QED
    BY <1>1, <2>1, <2>2 DEF Ask
<1>2. ASSUME NEW a \in Asks, Enter(a) PROVE ConnectionInv'
  BY <1>2 DEF Enter, Goto, TypeOK
<1>3. ASSUME NEW a \in Asks, Setup(a) PROVE ConnectionInv'
  BY <1>3 DEF Setup, Goto, TypeOK
<1>4. ASSUME NEW a \in Asks, BuildFails(a) PROVE ConnectionInv'
  BY <1>4 DEF BuildFails, Reply, Goto, TypeOK
<1>5. ASSUME NEW a \in Asks,
             Observe(a) \/ RunFails(a) \/ RunEnds(a) \/ Check(a) \/ Judge(a) \/ JudgeFails(a)
      PROVE  ConnectionInv'
  <2>1. UNCHANGED <<threaded, cm, open, closed, troubled>>
    BY <1>5 DEF Observe, RunFails, RunEnds, Check, Judge, JudgeFails
  <2>2. /\ pc[a] \notin Building
        /\ pc' = pc \/ \E v \in {"check", "judge", "done"} : pc' = [pc EXCEPT ![a] = v]
    BY <1>5 DEF Observe, RunFails, RunEnds, Check, Judge, JudgeFails, FailReply, RejectReply, Reply, Goto
  <2>. QED
    BY <2>1, <2>2 DEF TypeOK
<1>6. ASSUME Close PROVE ConnectionInv'
  BY <1>6 DEF Close, TypeOK
<1>7. ASSUME UNCHANGED vars PROVE ConnectionInv'
  BY <1>7 DEF vars, asks
<1>. QED
  BY <1>1, <1>2, <1>3, <1>4, <1>5, <1>6, <1>7 DEF Next, Step

\* A connection outlives the runner only if first asks raced or a building failed.
THEOREM LeaksExplained == Spec => []OnlyTroubledLeak
<1>1. Init => ConnectionInv
  BY DEF Init, ConnectionInv, OnlyTroubledLeak, Building
<1>2. ConnectionInv => OnlyTroubledLeak
  BY DEF ConnectionInv
<1>. QED
  BY <1>1, <1>2, TypeInit, TypeStep, ConnectionStep, PTL DEF Spec

-----------------------------------------------------------------------------
\* Replies.  What each step shows to the ask that takes it; the others' replies
\* stay.
Vetted(a) ==
    shown'[a] = shown[a] \/ shown'[a].kind # "answer" \/ ~ Validate \/ ~ UseJudge
    \/ shown'[a].amounts = {} \/ pc[a] = "judge"
Raises(a) == shown'[a] = shown[a] \/ shown'[a].kind # "error" \/ pc[a] \in Building \cup {"judge"}

LEMMA StepShows ==
    ASSUME TypeOK, [Next]_vars, NEW a \in Asks
    PROVE  Vetted(a) /\ Raises(a)
<1> USE DEF Vetted, Raises
<1>1. ASSUME NEW b \in Asks, Ask(b) \/ Enter(b) \/ Setup(b) \/ Observe(b) \/ RunEnds(b)
      PROVE  Vetted(a) /\ Raises(a)
  BY <1>1 DEF Ask, Enter, Setup, Observe, RunEnds, asks
<1>2. ASSUME NEW b \in Asks, BuildFails(b) \/ JudgeFails(b) PROVE Vetted(a) /\ Raises(a)
  BY <1>2 DEF BuildFails, JudgeFails, Reply, Bare, TypeOK
<1>3. ASSUME NEW b \in Asks, RunFails(b) PROVE Vetted(a) /\ Raises(a)
  BY <1>3 DEF RunFails, FailReply, Fallback, Reply, TypeOK
<1>4. ASSUME NEW b \in Asks, Check(b) PROVE Vetted(a) /\ Raises(a)
  BY <1>4 DEF Check, NoJudge, RejectReply, Narrative, Fallback, Reply, TypeOK
<1>5. ASSUME NEW b \in Asks, Judge(b) PROVE Vetted(a) /\ Raises(a)
  BY <1>5 DEF Judge, RejectReply, Narrative, Fallback, Reply, TypeOK
<1>6. ASSUME Close \/ UNCHANGED vars PROVE Vetted(a) /\ Raises(a)
  BY <1>6 DEF Close, vars, asks
<1>. QED
  BY <1>1, <1>2, <1>3, <1>4, <1>5, <1>6 DEF Next, Step

\* With the judge on, no answer that states amounts gets past it.
THEOREM AmountsGoToTheJudge == Spec => AmountsAreJudged
<1>1. TypeOK /\ [Next]_vars =>
        \A a \in Asks :
          (UseJudge /\ Validate /\ shown'[a] # shown[a] /\ shown'[a].kind = "answer"
             /\ shown'[a].amounts # {}) => pc[a] = "judge"
  BY StepShows DEF Vetted
<1>. QED
  BY <1>1, TypeInit, TypeStep, PTL DEF Spec, AmountsAreJudged

\* A failing run never raises to the user; only building and judging do.
THEOREM RunsNeverRaise == Spec => OnlyTheseRaise
<1>1. TypeOK /\ [Next]_vars =>
        \A a \in Asks : shown'[a].kind = "error" /\ shown[a].kind # "error"
          => pc[a] \in Building \cup {"judge"}
  BY StepShows DEF Raises
<1>. QED
  BY <1>1, TypeInit, TypeStep, PTL DEF Spec, OnlyTheseRaise

-----------------------------------------------------------------------------
(* The chat: every step of it is one of the runner or leaves the runner alone, *)
(* so what holds of the runner holds under the chat.                           *)

LEMMA ChatSteps == [ChatNext]_chatVars => [Next]_vars
<1> SUFFICES ASSUME [ChatNext]_chatVars PROVE [Next]_vars
  OBVIOUS
<1>1. ASSUME NEW w \in Widgets, NEW a \in Asks, Send(w, a) \/ Deliver(w, a) \/ Lose(w, a)
      PROVE  [Next]_vars
  BY <1>1 DEF Send, Deliver, Lose, Settle
<1>2. ASSUME NEW w \in Widgets, New(w) PROVE [Next]_vars
  BY <1>2 DEF New
<1>3. ASSUME NEW a \in Asks,
             Arrive(a) \/ Build(a) \/ Observes(a) \/ Ends(a) \/ Fails(a) \/ Vets(a)
      PROVE  [Next]_vars
  BY <1>3 DEF Arrive, Build, Observes, Ends, Fails, Vets, Next, Step
<1>4. ASSUME NEW a \in Asks, Load(a) PROVE [Next]_vars
  BY <1>4 DEF Load
<1>5. ASSUME Closes PROVE [Next]_vars
  BY <1>5 DEF Closes, Next
<1>6. ASSUME UNCHANGED chatVars PROVE [Next]_vars
  BY <1>6 DEF chatVars
<1>. QED
  BY <1>1, <1>2, <1>3, <1>4, <1>5, <1>6 DEF ChatNext

\* The chat runs the runner: AgentChat implements AgentRunner.
THEOREM ChatRunsRunner == ChatSpec => Spec
<1>1. ChatInit => Init
  BY DEF ChatInit
<1>. QED
  BY <1>1, ChatSteps, PTL DEF ChatSpec, Spec

\* Whatever the widgets ask, what they are shown is vetted.
COROLLARY ChatShowsVetted == ChatSpec => []ShownIsVetted
BY ChatRunsRunner, ShownHolds, PTL

\* Whatever the widgets ask, only troubled asks leave a connection behind.
COROLLARY ChatLeaksExplained == ChatSpec => []OnlyTroubledLeak
BY ChatRunsRunner, LeaksExplained, PTL

-----------------------------------------------------------------------------
USE ChatAssumption DEF ChatAssumption

\* An ask that is under way, in a widget or in the runner, has been sent on a thread.
SentInv ==
    /\ ChatTypeOK
    /\ \A w \in Widgets : \A a \in fetching[w] : sentOn[a] # NoThread
    /\ \A a \in Threaded : pc[a] # "idle" => sentOn[a] # NoThread

LEMMA SentInit == ChatInit => SentInv
BY TypeInit DEF ChatInit, Init, ChatTypeOK, SentInv

LEMMA SettleType ==
    ASSUME SentInv, TypeOK', NEW w \in Widgets, NEW a \in Asks,
           NEW role \in {"assistant", "error"}, Settle(w, a, role), torn' \subseteq Threads
    PROVE  SentInv'
<1>1. Message(role, a) \in Messages /\ messages[w] \in Seq(Messages)
  BY DEF Message, Messages, ChatTypeOK, SentInv
<1>2. Append(messages[w], Message(role, a)) \in Seq(Messages)
  BY <1>1
<1>. QED
  BY <1>2 DEF Settle, ChatTypeOK, SentInv, threadVars, vars

LEMMA SentStep == SentInv /\ [ChatNext]_chatVars => SentInv'
<1> SUFFICES ASSUME SentInv, [ChatNext]_chatVars PROVE SentInv'
  OBVIOUS
<1>0. TypeOK'
  BY ChatSteps, TypeStep DEF ChatTypeOK, SentInv
<1>1. ASSUME NEW w \in Widgets, NEW a \in Asks, Send(w, a) PROVE SentInv'
  <2>1. Message("user", a) \in Messages /\ messages[w] \in Seq(Messages)
    BY DEF Message, Messages, ChatTypeOK, SentInv
  <2>2. Append(messages[w], Message("user", a)) \in Seq(Messages)
    BY <2>1
  <2>3. Heard(w) \in SUBSET Asks
    BY DEF Heard
  <2>. QED
    BY <1>0, <1>1, <2>2, <2>3 DEF Send, ChatTypeOK, SentInv, threadVars, vars
<1>2. ASSUME NEW w \in Widgets, NEW a \in Asks, Deliver(w, a) PROVE SentInv'
  <2>1. PICK role \in {"assistant", "error"} : Settle(w, a, role)
    BY <1>2 DEF Deliver
  <2>2. torn' \subseteq Threads
    BY <1>2 DEF Deliver, ChatTypeOK, SentInv
  <2>. QED
    BY <1>0, <2>1, <2>2, SettleType
<1>3. ASSUME NEW w \in Widgets, NEW a \in Asks, Lose(w, a) PROVE SentInv'
  <2>1. torn' \subseteq Threads
    BY <1>3 DEF Lose, Settle, ChatTypeOK, SentInv
  <2>. QED
    BY <1>0, <1>3, <2>1, SettleType DEF Lose
<1>4. ASSUME NEW w \in Widgets, New(w) PROVE SentInv'
  <2>1. <<>> \in Seq(Messages)
    OBVIOUS
  <2>. QED
    BY <1>0, <1>4, <2>1 DEF New, ChatTypeOK, SentInv, threadVars, vars
<1>5. ASSUME NEW a \in Asks, Arrive(a) \/ Build(a) \/ Fails(a) \/ Vets(a) PROVE SentInv'
  <2>1. UNCHANGED <<widgetVars, threadVars>> /\ (a \in Threaded => sentOn[a] # NoThread)
    BY <1>5 DEF Arrive, Build, Fails, Vets, Enter, Setup, BuildFails, RunFails, Check, Judge,
                JudgeFails, Building, SentInv
  <2>2. \A b \in Asks : b # a => pc'[b] = pc[b]
    BY <1>5 DEF Arrive, Build, Fails, Vets, Ask, Enter, Setup, BuildFails, RunFails, FailReply,
                Check, Judge, JudgeFails, RejectReply, Reply, Goto, SentInv, ChatTypeOK, TypeOK
  <2>. QED
    BY <1>0, <2>1, <2>2 DEF ChatTypeOK, SentInv, widgetVars, threadVars
<1>6. ASSUME NEW a \in Asks, Load(a) \/ Observes(a) \/ Ends(a) PROVE SentInv'
  <2>1. /\ UNCHANGED widgetVars
        /\ pc[a] = "run"
        /\ \A b \in Asks : b # a => pc'[b] = pc[b]
    BY <1>6 DEF Load, Observes, Ends, Observe, RunEnds, Goto, SentInv, ChatTypeOK, TypeOK, vars
  <2>2. \A b \in Threaded : pc'[b] # "idle" => sentOn'[b] # NoThread
    BY <2>1 DEF SentInv, widgetVars
  <2>3. ASSUME NEW from \in SUBSET Said, NEW parts \in SUBSET Said, Save(a, from, parts)
        PROVE  memory' \in [Threads -> SUBSET Said]
    BY <2>3 DEF Save, Saved, ChatTypeOK, SentInv
  <2>4. {Question(a)} \in SUBSET Said /\ {Question(a), Answer(a)} \in SUBSET Said
    BY DEF Question, Answer, Said
  <2>5. base[a] \in SUBSET Said /\ (OnThread(a) => memory[sentOn[a]] \in SUBSET Said)
    BY <2>1 DEF ChatTypeOK, SentInv, OnThread
  <2>6. memory' \in [Threads -> SUBSET Said]
    <3>1. CASE Load(a)
      BY <2>3, <2>4, <2>5, <3>1 DEF Load
    <3>2. CASE Observes(a)
      BY <2>3, <2>4, <2>5, <3>2 DEF Observes, ChatTypeOK, SentInv
    <3>3. CASE Ends(a)
      BY <2>3, <2>4, <2>5, <3>3 DEF Ends, ChatTypeOK, SentInv
    <3>. QED
      BY <1>6, <3>1, <3>2, <3>3
  <2>7. loaded' \in SUBSET Asks /\ base' \in [Asks -> SUBSET Said]
    BY <1>6, <2>5 DEF Load, Observes, Ends, ChatTypeOK, SentInv
  <2>. QED
    BY <1>0, <2>1, <2>2, <2>6, <2>7 DEF ChatTypeOK, SentInv, widgetVars
<1>7. ASSUME Closes \/ UNCHANGED chatVars PROVE SentInv'
  BY <1>0, <1>7 DEF Closes, Close, chatVars, vars, ChatTypeOK, SentInv, widgetVars, threadVars
<1>. QED
  BY <1>1, <1>2, <1>3, <1>4, <1>5, <1>6, <1>7 DEF ChatNext

\* Every reachable state of the chat has the types.
THEOREM ChatTypeCorrect == ChatSpec => []ChatTypeOK
<1>1. SentInv => ChatTypeOK
  BY DEF SentInv
<1>. QED
  BY <1>1, SentInit, SentStep, PTL DEF ChatSpec

-----------------------------------------------------------------------------
\* A widget waits for one question at a time: the last one of its conversation,
\* or one of the conversation before, and then nothing has been asked since.
TurnInv ==
    /\ \A w \in Widgets : ~ loading[w] => fetching[w] = {}
    /\ \A w \in Widgets : \A a, b \in fetching[w] : a = b
    /\ \A w \in Widgets : \A a \in fetching[w] :
          IF messages[w] = <<>> THEN sentOn[a] # threadId[w]
          ELSE messages[w][Len(messages[w])] = Message("user", a)
    /\ \A w \in Widgets : \A i \in DOMAIN messages[w] : sentOn[messages[w][i].of] # NoThread
    /\ RepliesInTurn

\* Steps of the runner leave the conversations alone.
LEMMA OnlyWidgets ==
    [ChatNext]_chatVars =>
        \/ \E w \in Widgets, a \in Asks : Send(w, a)
        \/ \E w \in Widgets, a \in Asks, role \in {"assistant", "error"} : Settle(w, a, role)
        \/ \E w \in Widgets : New(w)
        \/ UNCHANGED <<threadId, messages, loading, fetching, sentOn, heard>>
<1> SUFFICES ASSUME [ChatNext]_chatVars
             PROVE  \/ \E w \in Widgets, a \in Asks : Send(w, a)
                    \/ \E w \in Widgets, a \in Asks, role \in {"assistant", "error"} : Settle(w, a, role)
                    \/ \E w \in Widgets : New(w)
                    \/ UNCHANGED <<threadId, messages, loading, fetching, sentOn, heard>>
  OBVIOUS
<1>1. ASSUME NEW w \in Widgets, NEW a \in Asks, Deliver(w, a) \/ Lose(w, a)
      PROVE  \E role \in {"assistant", "error"} : Settle(w, a, role)
  BY <1>1 DEF Deliver, Lose
<1>2. ASSUME NEW a \in Asks,
             \/ Arrive(a) \/ Build(a) \/ Load(a) \/ Observes(a) \/ Ends(a) \/ Fails(a) \/ Vets(a)
             \/ Closes \/ UNCHANGED chatVars
      PROVE  UNCHANGED <<threadId, messages, loading, fetching, sentOn, heard>>
  BY <1>2 DEF Arrive, Build, Load, Observes, Ends, Fails, Vets, Closes, chatVars, widgetVars
<1>3. ASSUME Closes \/ UNCHANGED chatVars
      PROVE  UNCHANGED <<threadId, messages, loading, fetching, sentOn, heard>>
  BY <1>3 DEF Closes, chatVars, widgetVars
<1>. QED
  BY <1>1, <1>2, <1>3 DEF ChatNext

LEMMA TurnStep == SentInv /\ TurnInv /\ [ChatNext]_chatVars => TurnInv'
<1> SUFFICES ASSUME SentInv, TurnInv, [ChatNext]_chatVars PROVE TurnInv'
  OBVIOUS
<1> USE DEF TurnInv, RepliesInTurn
<1>0. /\ messages \in [Widgets -> Seq(Messages)] /\ fetching \in [Widgets -> SUBSET Asks]
      /\ loading \in [Widgets -> BOOLEAN] /\ threadId \in [Widgets -> Threads]
      /\ sentOn \in [Asks -> Threads \cup {NoThread}]
  BY DEF SentInv, ChatTypeOK
<1>1. ASSUME NEW w \in Widgets, NEW a \in Asks, Send(w, a) PROVE TurnInv'
  <2>1. /\ fetching[w] = {} /\ sentOn[a] = NoThread
        /\ messages' = [messages EXCEPT ![w] = Append(messages[w], Message("user", a))]
        /\ fetching' = [fetching EXCEPT ![w] = {a}]
        /\ loading' = [loading EXCEPT ![w] = TRUE]
        /\ sentOn' = [sentOn EXCEPT ![a] = threadId[w]]
        /\ threadId' = threadId
    BY <1>0, <1>1 DEF Send, MaySend
  <2>2. ASSUME NEW x \in Widgets
        PROVE  /\ ~ loading'[x] => fetching'[x] = {}
               /\ \A b, c \in fetching'[x] : b = c
    BY <1>0, <2>1
  <2>3. /\ messages[w] \in Seq(Messages)
        /\ Message("user", a) \in Messages
        /\ Message("user", a).of = a /\ Message("user", a).role = "user"
    BY <1>0 DEF Message, Messages
  <2>4. /\ Len(messages'[w]) = Len(messages[w]) + 1 /\ messages'[w] # <<>>
        /\ messages'[w][Len(messages'[w])] = Message("user", a)
        /\ DOMAIN messages'[w] = 1..(Len(messages[w]) + 1)
        /\ \A i \in 1..Len(messages[w]) : messages'[w][i] = messages[w][i]
        /\ Len(messages[w]) \in Nat /\ DOMAIN messages[w] = 1..Len(messages[w])
    <3>1. messages'[w] = Append(messages[w], Message("user", a))
      BY <1>0, <2>1
    <3>. QED
      BY <2>3, <3>1
  <2>5. ASSUME NEW x \in Widgets, NEW b \in fetching'[x]
        PROVE  IF messages'[x] = <<>> THEN sentOn'[b] # threadId'[x]
               ELSE messages'[x][Len(messages'[x])] = Message("user", b)
    <3>1. CASE x = w
      BY <1>0, <2>1, <2>4, <3>1
    <3>2. CASE x # w
      <4>1. b \in fetching[x] /\ b \in Asks /\ sentOn[b] # NoThread
        BY <1>0, <2>1, <3>2 DEF SentInv
      <4>. QED
        BY <1>0, <2>1, <3>2, <4>1
    <3>. QED
      BY <3>1, <3>2
  <2>6. ASSUME NEW x \in Widgets, NEW i \in DOMAIN messages'[x]
        PROVE  /\ sentOn'[messages'[x][i].of] # NoThread
               /\ LET m == messages'[x][i]
                  IN m.role # "user" => \/ i > 1 /\ messages'[x][i - 1] = Message("user", m.of)
                                        \/ i = 1 /\ sentOn'[m.of] # threadId'[x]
    <3>1. CASE x = w /\ i = Len(messages[w]) + 1
      <4>1. messages'[x][i].of = a /\ messages'[x][i].role = "user"
        BY <2>3, <2>4, <3>1
      <4>2. sentOn'[a] = threadId[w] /\ threadId[w] \in Threads
        BY <1>0, <2>1
      <4>. QED
        BY <4>1, <4>2
    <3>2. CASE ~ (x = w /\ i = Len(messages[w]) + 1)
      <4>1. i \in DOMAIN messages[x] /\ messages'[x][i] = messages[x][i]
        BY <1>0, <2>1, <2>4, <3>2
      <4>2. i \in Nat /\ (i > 1 => messages'[x][i - 1] = messages[x][i - 1])
        BY <1>0, <2>1, <2>4, <3>2, <4>1
      <4>3. messages[x][i] \in Messages /\ messages[x][i].of \in Asks
        <5>1. messages[x] \in Seq(Messages)
          BY <1>0
        <5>2. messages[x][i] \in Messages
          BY <4>1, <5>1
        <5>. QED
          BY <5>2 DEF Messages
      <4>4. sentOn[messages[x][i].of] # NoThread
        BY <4>1
      <4>5. sentOn'[messages[x][i].of] = sentOn[messages[x][i].of]
        BY <1>0, <2>1, <4>3, <4>4
      <4>. QED
        BY <2>1, <4>1, <4>2, <4>4, <4>5
    <3>. QED
      BY <3>1, <3>2
  <2>. QED
    BY <2>2, <2>5, <2>6
<1>2. ASSUME NEW w \in Widgets, NEW a \in Asks, NEW role \in {"assistant", "error"},
             Settle(w, a, role)
      PROVE  TurnInv'
  <2>1. /\ a \in fetching[w] /\ sentOn[a] # NoThread
        /\ messages' = [messages EXCEPT ![w] = Append(messages[w], Message(role, a))]
        /\ fetching' = [fetching EXCEPT ![w] = {}]
        /\ loading' = [loading EXCEPT ![w] = FALSE]
        /\ sentOn' = sentOn /\ threadId' = threadId
    <3>1. a \in fetching[w] /\ fetching[w] \ {a} = {}
      BY <1>0, <1>2 DEF Settle
    <3>. QED
      BY <1>0, <1>2, <3>1 DEF Settle, SentInv
  <2>2. ASSUME NEW x \in Widgets
        PROVE  /\ ~ loading'[x] => fetching'[x] = {}
               /\ \A b, c \in fetching'[x] : b = c
    BY <1>0, <2>1
  <2>3. /\ messages[w] \in Seq(Messages)
        /\ Message(role, a) \in Messages
        /\ Message(role, a).of = a
    BY <1>0 DEF Message, Messages
  <2>4. /\ DOMAIN messages'[w] = 1..(Len(messages[w]) + 1)
        /\ messages'[w][Len(messages[w]) + 1] = Message(role, a)
        /\ \A i \in 1..Len(messages[w]) : messages'[w][i] = messages[w][i]
        /\ Len(messages[w]) \in Nat /\ DOMAIN messages[w] = 1..Len(messages[w])
    BY <1>0, <2>1, <2>3
  <2>5. ASSUME NEW x \in Widgets, NEW b \in fetching'[x]
        PROVE  IF messages'[x] = <<>> THEN sentOn'[b] # threadId'[x]
               ELSE messages'[x][Len(messages'[x])] = Message("user", b)
    BY <1>0, <2>1
  <2>6. ASSUME NEW x \in Widgets, NEW i \in DOMAIN messages'[x]
        PROVE  /\ sentOn'[messages'[x][i].of] # NoThread
               /\ LET m == messages'[x][i]
                  IN m.role # "user" => \/ i > 1 /\ messages'[x][i - 1] = Message("user", m.of)
                                        \/ i = 1 /\ sentOn'[m.of] # threadId'[x]
    <3>1. CASE x = w /\ i = Len(messages[w]) + 1
      <4>1. messages'[x][i].of = a
        BY <2>3, <2>4, <3>1
      <4>2. CASE messages[w] = <<>>
        BY <2>1, <2>4, <3>1, <4>1, <4>2
      <4>3. CASE messages[w] # <<>>
        <5>1. Len(messages[w]) >= 1 /\ i > 1 /\ i - 1 = Len(messages[w])
          BY <2>3, <2>4, <3>1, <4>3
        <5>. QED
          BY <2>1, <2>4, <3>1, <4>1, <4>3, <5>1
      <4>. QED
        BY <4>2, <4>3
    <3>2. CASE ~ (x = w /\ i = Len(messages[w]) + 1)
      <4>1. i \in DOMAIN messages[x] /\ messages'[x][i] = messages[x][i]
        BY <1>0, <2>1, <2>4, <3>2
      <4>2. i \in Nat /\ (i > 1 => messages'[x][i - 1] = messages[x][i - 1])
        BY <1>0, <2>1, <2>4, <3>2, <4>1
      <4>. QED
        BY <2>1, <4>1, <4>2
    <3>. QED
      BY <3>1, <3>2
  <2>. QED
    BY <2>2, <2>5, <2>6
<1>3. ASSUME NEW w \in Widgets, New(w) PROVE TurnInv'
  <2>1. PICK t \in Threads : Fresh(w, t) /\ threadId' = [threadId EXCEPT ![w] = t]
    BY <1>3 DEF New
  <2>2. /\ messages' = [messages EXCEPT ![w] = <<>>]
        /\ UNCHANGED <<loading, fetching, sentOn>>
    BY <1>3 DEF New
  <2>3. ASSUME NEW x \in Widgets, NEW i \in DOMAIN messages'[x]
        PROVE  x # w /\ threadId'[x] = threadId[x] /\ messages'[x] = messages[x]
    BY <1>0, <2>1, <2>2
  <2>4. ASSUME NEW x \in Widgets, NEW b \in fetching'[x]
        PROVE  IF messages'[x] = <<>> THEN sentOn'[b] # threadId'[x]
               ELSE messages'[x][Len(messages'[x])] = Message("user", b)
    <3>1. b \in fetching[x] /\ b \in Asks
      BY <1>0, <2>2
    <3>. QED
      BY <1>0, <2>1, <2>2, <3>1 DEF Fresh
  <2>. QED
    BY <2>2, <2>3, <2>4
<1>4. ASSUME UNCHANGED <<threadId, messages, loading, fetching, sentOn, heard>> PROVE TurnInv'
  BY <1>4
<1>. QED
  BY <1>1, <1>2, <1>3, <1>4, OnlyWidgets

\* Every reply stands under its question, or on top of the next conversation.
THEOREM RepliesStayInTurn == ChatSpec => []RepliesInTurn
<1>1. ChatInit => TurnInv
  BY DEF ChatInit, TurnInv, RepliesInTurn
<1>2. TurnInv => RepliesInTurn
  BY DEF TurnInv
<1>. QED
  BY <1>1, <1>2, SentInit, SentStep, TurnStep, PTL DEF ChatSpec

-----------------------------------------------------------------------------
\* The graph of an ask has ended with an answer.
Ended(b) == pc[b] \in {"check", "judge"} \/ shown[b].kind \in {"answer", "rejected"}
Begun(b) == pc[b] \notin {"idle", "enter", "setup"}
QuietInv == \A b \in Asks : shown[b].kind # "none" => pc[b] = "done"

\* How the runner moves: what has begun goes on, what is done is final, and a run
\* ends in RunEnds alone.
Forward(b) ==
    /\ Begun(b) => Begun(b)' /\ (pc'[b] = "run" => pc[b] = "run")
    /\ pc[b] = "done" => pc'[b] = "done" /\ shown'[b] = shown[b]
    /\ shown'[b].kind # "none" => pc'[b] = "done"
NoEnd(b) == Ended(b)' => Ended(b)

LEMMA Forwards ==
    ASSUME TypeOK, QuietInv, [Next]_vars, NEW b \in Asks
    PROVE  Forward(b) /\ (NoEnd(b) \/ RunEnds(b))
<1> USE DEF Forward, NoEnd, Begun, Ended, QuietInv
<1>1. ASSUME NEW a \in Asks, Ask(a) \/ Enter(a) \/ Setup(a) PROVE Forward(b) /\ NoEnd(b)
  BY <1>1 DEF Ask, Enter, Setup, Goto, TypeOK, asks
<1>2. ASSUME NEW a \in Asks, BuildFails(a) \/ RunFails(a) \/ JudgeFails(a)
      PROVE  Forward(b) /\ NoEnd(b)
  BY <1>2 DEF BuildFails, RunFails, JudgeFails, FailReply, Fallback, Bare, Reply, Goto, TypeOK,
              Building
<1>3. ASSUME NEW a \in Asks, Observe(a) PROVE Forward(b) /\ NoEnd(b)
  BY <1>3 DEF Observe, TypeOK
<1>4. ASSUME NEW a \in Asks, RunEnds(a) PROVE Forward(b) /\ (NoEnd(b) \/ RunEnds(b))
  BY <1>4 DEF RunEnds, Goto, TypeOK
<1>5. ASSUME NEW a \in Asks, Check(a) PROVE Forward(b) /\ NoEnd(b)
  BY <1>5 DEF Check, RejectReply, Reply, Goto, TypeOK
<1>6. ASSUME NEW a \in Asks, Judge(a) PROVE Forward(b) /\ NoEnd(b)
  BY <1>6 DEF Judge, RejectReply, Reply, Goto, TypeOK
<1>7. ASSUME Close \/ UNCHANGED vars PROVE Forward(b) /\ NoEnd(b)
  BY <1>7 DEF Close, vars, asks
<1>. QED
  BY <1>1, <1>2, <1>3, <1>4, <1>5, <1>6, <1>7 DEF Next, Step

\* Who speaks on which thread.  A widget that has moved on still waits on its old
\* thread, which nobody draws again; on a thread that is not torn everybody else
\* is done when somebody speaks.
ThreadInv ==
    /\ QuietInv
    /\ \A w, x \in Widgets : w # x => threadId[w] # threadId[x]
    /\ \A w, x \in Widgets : \A a \in fetching[w] : w # x => sentOn[a] # threadId[x]
    /\ \A w, x \in Widgets : \A a \in fetching[w], b \in fetching[x] :
          sentOn[a] = sentOn[b] => w = x
    /\ \A a \in Asks :
          sentOn[a] = NoThread \/ sentOn[a] \in torn \/ pc[a] = "done"
             \/ \E w \in Widgets : a \in fetching[w]
    /\ \A a \in Asks : sentOn[a] # NoThread => a \in Threaded
    /\ \A w \in Widgets : \A i \in DOMAIN messages[w] :
          messages[w][i].role = "assistant" => pc[messages[w][i].of] = "done"
    /\ \A a \in Asks : \A b \in heard[a] : pc[b] = "done" /\ sentOn[b] = sentOn[a]
    /\ \A a \in loaded : OnThread(a) /\ Begun(a)

\* On a thread that is not torn the latest checkpoint, and the one that a run
\* started from, have all that ended before.
Both(b) == {Question(b), Answer(b)}
Remembered == \A b \in Asks :
    Database /\ Ended(b) /\ sentOn[b] \notin torn \cup {NoThread} => Both(b) \subseteq memory[sentOn[b]]
Based == \A a \in loaded, b \in Asks :
    pc[a] = "run" /\ Ended(b) /\ sentOn[b] = sentOn[a] /\ sentOn[a] \notin torn
       => Both(b) \subseteq base[a]
MemoryInv == Remembered /\ Based /\ FollowUpsCarry

\* Two asks of a thread that is not torn are never both unfinished.
LEMMA OneSpeaks ==
    ASSUME SentInv, TurnInv, ThreadInv, NEW a \in Asks, NEW b \in Asks,
           a # b, sentOn[a] = sentOn[b], sentOn[a] \notin torn \cup {NoThread}
    PROVE  pc[a] = "done" \/ pc[b] = "done"
<1> SUFFICES ASSUME pc[a] # "done", pc[b] # "done" PROVE FALSE
  OBVIOUS
<1>1. PICK w \in Widgets : a \in fetching[w]
  BY DEF ThreadInv
<1>2. PICK x \in Widgets : b \in fetching[x]
  BY DEF ThreadInv
<1>3. w = x
  BY <1>1, <1>2 DEF ThreadInv
<1>. QED
  BY <1>1, <1>2, <1>3 DEF TurnInv

LEMMA ThreadStep == SentInv /\ TurnInv /\ ThreadInv /\ [ChatNext]_chatVars => ThreadInv'
<1> SUFFICES ASSUME SentInv, TurnInv, ThreadInv, [ChatNext]_chatVars PROVE ThreadInv'
  OBVIOUS
<1>0. /\ messages \in [Widgets -> Seq(Messages)] /\ fetching \in [Widgets -> SUBSET Asks]
      /\ threadId \in [Widgets -> Threads] /\ sentOn \in [Asks -> Threads \cup {NoThread}]
      /\ heard \in [Asks -> SUBSET Asks] /\ loaded \subseteq Asks
  BY DEF SentInv, ChatTypeOK
<1>1. \A b \in Asks : Forward(b)
  BY Forwards, ChatSteps DEF SentInv, ChatTypeOK, ThreadInv
<1>2. QuietInv'
  BY <1>1 DEF QuietInv, Forward
<1>3. \A w \in Widgets : \A i \in DOMAIN messages[w] : messages[w][i].of \in Asks
  <2>1. ASSUME NEW w \in Widgets, NEW i \in DOMAIN messages[w] PROVE messages[w][i] \in Messages
    <3>1. messages[w] \in Seq(Messages)
      BY <1>0
    <3>. QED
      BY <2>1, <3>1
  <2>. QED
    BY <2>1 DEF Messages
<1>4. \A b \in Asks : pc[b] = "done" => pc'[b] = "done"
  BY <1>1 DEF Forward
<1>5. \A b \in loaded : OnThread(b) /\ Begun(b)'
  BY <1>0, <1>1 DEF Forward, ThreadInv
<1>6. loaded' = loaded \/ \E a \in Asks : Load(a)
  BY DEF ChatNext, chatVars, Send, Deliver, Lose, Settle, New, Arrive, Build, Observes, Ends, Fails,
         Vets, Closes, threadVars
<1>7. \A b \in loaded' : OnThread(b) /\ Begun(b)'
  <2>1. ASSUME NEW a \in Asks, Load(a) PROVE \A b \in loaded' : OnThread(b) /\ Begun(b)'
    <3>1. OnThread(a) /\ pc'[a] = "run" /\ loaded' = loaded \cup {a}
      BY <2>1 DEF Load, vars
    <3>. QED
      BY <1>5, <3>1 DEF Begun
  <2>. QED
    BY <1>5, <1>6, <2>1
<1>8. ASSUME NEW w \in Widgets, NEW a \in Asks, Send(w, a) PROVE ThreadInv'
  <2>1. /\ fetching[w] = {} /\ sentOn[a] = NoThread /\ a \in Threaded
        /\ messages' = [messages EXCEPT ![w] = Append(messages[w], Message("user", a))]
        /\ fetching' = [fetching EXCEPT ![w] = {a}]
        /\ sentOn' = [sentOn EXCEPT ![a] = threadId[w]]
        /\ heard' = [heard EXCEPT ![a] = Heard(w)]
        /\ threadId' = threadId /\ torn' = torn
    BY <1>0, <1>8 DEF Send, MaySend, TurnInv
  <2>2. \A x \in Widgets : \A b \in fetching[x] : b # a
    BY <2>1 DEF SentInv
  <2>3. \A x \in Widgets : \A b \in fetching'[x] : x # w => b \in fetching[x] /\ sentOn'[b] = sentOn[b]
    BY <1>0, <2>1, <2>2
  <2>4. \A b \in fetching'[w] : b = a /\ sentOn'[b] = threadId[w]
    BY <1>0, <2>1
  <2>5. \A w_1, x \in Widgets : \A b \in fetching'[w_1] : w_1 # x => sentOn'[b] # threadId'[x]
    BY <1>0, <2>1, <2>3, <2>4 DEF ThreadInv
  <2>6. \A w_1, x \in Widgets : \A b \in fetching'[w_1], c \in fetching'[x] :
          sentOn'[b] = sentOn'[c] => w_1 = x
    BY <1>0, <2>3, <2>4 DEF ThreadInv
  <2>7. \A b \in Asks :
          sentOn'[b] = NoThread \/ sentOn'[b] \in torn' \/ pc'[b] = "done"
             \/ \E x \in Widgets : b \in fetching'[x]
    <3>1. ASSUME NEW b \in Asks, b # a, NEW x \in Widgets, b \in fetching[x] PROVE b \in fetching'[x]
      BY <1>0, <2>1, <3>1
    <3>2. a \in fetching'[w]
      BY <1>0, <2>1
    <3>. QED
      BY <1>0, <1>4, <2>1, <3>1, <3>2 DEF ThreadInv
  <2>8. \A b \in Asks : sentOn'[b] # NoThread => b \in Threaded
    BY <1>0, <2>1 DEF ThreadInv
  <2>9. ASSUME NEW x \in Widgets, NEW i \in DOMAIN messages'[x], messages'[x][i].role = "assistant"
        PROVE  pc'[messages'[x][i].of] = "done"
    <3>1. CASE x # w
      BY <1>0, <1>3, <1>4, <2>1, <2>9, <3>1 DEF ThreadInv
    <3>2. CASE x = w
      <4>1. messages[w] \in Seq(Messages) /\ Message("user", a) \in Messages
            /\ Message("user", a).role = "user"
        BY <1>0 DEF Message, Messages
      <4>2. messages'[w] = Append(messages[w], Message("user", a))
        BY <1>0, <2>1
      <4>3. i \in DOMAIN messages[w] /\ messages'[w][i] = messages[w][i]
        BY <2>9, <3>2, <4>1, <4>2
      <4>. QED
        BY <1>3, <1>4, <2>9, <3>2, <4>3 DEF ThreadInv
    <3>. QED
      BY <3>1, <3>2
  <2>10. ASSUME NEW c \in Asks, NEW b \in heard'[c] PROVE pc'[b] = "done" /\ sentOn'[b] = sentOn'[c]
    <3>1. CASE c = a
      <4>1. b \in Heard(w)
        BY <1>0, <2>1, <2>10, <3>1
      <4>2. PICK i \in DOMAIN messages[w] : messages[w][i] = Message("assistant", b)
        BY <4>1 DEF Heard
      <4>3. messages[w][i].role = "assistant" /\ messages[w][i].of = b
        BY <4>2 DEF Message
      <4>4. b \in Asks /\ sentOn[b] = threadId[w] /\ pc[b] = "done"
        BY <4>1, <4>2, <4>3 DEF Heard, ThreadInv
      <4>. QED
        BY <1>0, <1>4, <2>1, <3>1, <4>4
    <3>2. CASE c # a
      <4>1. b \in heard[c] /\ b \in Asks
        BY <1>0, <2>1, <2>10, <3>2
      <4>2. pc[b] = "done" /\ sentOn[b] = sentOn[c]
        BY <4>1 DEF ThreadInv
      <4>3. b # a
        BY <2>1, <4>2 DEF SentInv, ThreadInv, ChatTypeOK
      <4>. QED
        BY <1>0, <1>4, <2>1, <3>2, <4>1, <4>2, <4>3
    <3>. QED
      BY <3>1, <3>2
  <2>. QED
    BY <1>2, <1>7, <2>1, <2>5, <2>6, <2>7, <2>8, <2>9, <2>10 DEF ThreadInv
<1>9. ASSUME NEW w \in Widgets, NEW a \in Asks, Deliver(w, a) \/ Lose(w, a) PROVE ThreadInv'
  <2>1. PICK role \in {"assistant", "error"} :
          /\ Settle(w, a, role)
          /\ role = "assistant" => pc[a] = "done"
          /\ torn \subseteq torn' /\ (pc[a] = "done" \/ sentOn[a] \in torn')
    BY <1>9 DEF Deliver, Lose
  <2>2. /\ messages' = [messages EXCEPT ![w] = Append(messages[w], Message(role, a))]
        /\ fetching' = [fetching EXCEPT ![w] = @ \ {a}]
        /\ UNCHANGED <<sentOn, heard, threadId, pc, loaded>>
    BY <2>1 DEF Settle, vars, threadVars
  <2>3. \A x \in Widgets : fetching'[x] \subseteq fetching[x]
    BY <1>0, <2>2
  <2>4. \A x \in Widgets : \A b \in fetching[x] : b # a => b \in fetching'[x]
    BY <1>0, <2>2
  <2>5. \A b \in Asks :
          sentOn'[b] = NoThread \/ sentOn'[b] \in torn' \/ pc'[b] = "done"
             \/ \E x \in Widgets : b \in fetching'[x]
    BY <2>1, <2>2, <2>4 DEF ThreadInv
  <2>6. ASSUME NEW x \in Widgets, NEW i \in DOMAIN messages'[x], messages'[x][i].role = "assistant"
        PROVE  pc'[messages'[x][i].of] = "done"
    <3>1. CASE x # w
      BY <1>0, <2>2, <2>6, <3>1 DEF ThreadInv
    <3>2. CASE x = w
      <4>1. messages[w] \in Seq(Messages) /\ Message(role, a) \in Messages
            /\ Message(role, a).role = role /\ Message(role, a).of = a
        BY <1>0 DEF Message, Messages
      <4>2. messages'[w] = Append(messages[w], Message(role, a))
        BY <1>0, <2>2
      <4>3. CASE i \in DOMAIN messages[w] /\ messages'[w][i] = messages[w][i]
        BY <2>2, <2>6, <3>2, <4>3 DEF ThreadInv
      <4>4. CASE messages'[w][i] = Message(role, a)
        BY <2>1, <2>2, <2>6, <3>2, <4>1, <4>4
      <4>. QED
        BY <2>6, <3>2, <4>1, <4>2, <4>3, <4>4
    <3>. QED
      BY <3>1, <3>2
  <2>. QED
    BY <1>2, <1>7, <2>2, <2>3, <2>5, <2>6 DEF ThreadInv
<1>10. ASSUME NEW w \in Widgets, New(w) PROVE ThreadInv'
  <2>1. PICK t \in Threads : Fresh(w, t) /\ threadId' = [threadId EXCEPT ![w] = t]
    BY <1>10 DEF New
  <2>2. /\ messages' = [messages EXCEPT ![w] = <<>>]
        /\ UNCHANGED <<fetching, sentOn, heard, torn, pc>>
    BY <1>10 DEF New, vars
  <2>3. \A x \in Widgets : \A i \in DOMAIN messages'[x] : x # w /\ messages'[x] = messages[x]
    BY <1>0, <2>2
  <2>4. \A w_1, x \in Widgets : w_1 # x => threadId'[w_1] # threadId'[x]
    BY <1>0, <2>1 DEF Fresh, ThreadInv
  <2>5. \A w_1, x \in Widgets : \A b \in fetching'[w_1] : w_1 # x => sentOn'[b] # threadId'[x]
    <3>1. \A w_1 \in Widgets : \A b \in fetching[w_1] : sentOn[b] # t
      BY <1>0, <2>1 DEF Fresh
    <3>. QED
      BY <1>0, <2>1, <2>2, <3>1 DEF ThreadInv
  <2>. QED
    BY <1>2, <1>7, <2>2, <2>3, <2>4, <2>5 DEF ThreadInv
<1>11. ASSUME UNCHANGED widgetVars PROVE ThreadInv'
  <2>1. UNCHANGED <<threadId, messages, fetching, sentOn, heard, torn>>
    BY <1>11 DEF widgetVars
  <2>. QED
    BY <1>0, <1>2, <1>3, <1>4, <1>7, <2>1 DEF ThreadInv
<1>. QED
  BY <1>8, <1>9, <1>10, <1>11 DEF ChatNext, chatVars, Arrive, Build, Load, Observes, Ends, Fails, Vets, Closes

\* A step that ends no run and saves no checkpoint.
LEMMA MemoryStays ==
    ASSUME SentInv, ThreadInv, MemoryInv, \A b \in Asks : Forward(b) /\ NoEnd(b),
           torn \subseteq torn', UNCHANGED <<sentOn, heard, loaded, base, memory>>
    PROVE  MemoryInv'
<1>1. Remembered'
  BY DEF MemoryInv, Remembered, NoEnd
<1>2. Based'
  BY DEF MemoryInv, Based, NoEnd, Forward, ThreadInv, SentInv, ChatTypeOK
<1>3. FollowUpsCarry'
  <2>1. \A a \in loaded : \A b \in heard[a] : b \in Asks /\ shown'[b] = shown[b]
    BY DEF SentInv, ChatTypeOK, ThreadInv, Forward
  <2>. QED
    BY <2>1 DEF MemoryInv, FollowUpsCarry
<1>. QED
  BY <1>1, <1>2, <1>3 DEF MemoryInv

LEMMA MemoryStep ==
    SentInv /\ TurnInv /\ ThreadInv /\ MemoryInv /\ [ChatNext]_chatVars => MemoryInv'
<1> SUFFICES ASSUME SentInv, TurnInv, ThreadInv, MemoryInv, [ChatNext]_chatVars PROVE MemoryInv'
  OBVIOUS
<1>0. /\ sentOn \in [Asks -> Threads \cup {NoThread}] /\ memory \in [Threads -> SUBSET Said]
      /\ heard \in [Asks -> SUBSET Asks] /\ loaded \subseteq Asks /\ base \in [Asks -> SUBSET Said]
      /\ TypeOK /\ QuietInv
  BY DEF SentInv, ChatTypeOK, ThreadInv
<1>1. \A b \in Asks : Forward(b) /\ (NoEnd(b) \/ RunEnds(b))
  BY <1>0, Forwards, ChatSteps
<1>2. ASSUME UNCHANGED vars PROVE \A b \in Asks : NoEnd(b)
  BY <1>2 DEF NoEnd, Ended, vars, asks
<1>3. ASSUME NEW w \in Widgets, NEW a \in Asks, Send(w, a) PROVE MemoryInv'
  <2>1. /\ sentOn[a] = NoThread /\ a \in Threaded
        /\ sentOn' = [sentOn EXCEPT ![a] = threadId[w]]
        /\ heard' = [heard EXCEPT ![a] = Heard(w)]
        /\ UNCHANGED <<vars, torn, loaded, base, memory>>
    BY <1>3 DEF Send, threadVars
  <2>2. pc[a] = "idle" /\ ~ Ended(a) /\ a \notin loaded
    BY <1>0, <2>1 DEF SentInv, ThreadInv, QuietInv, Ended, Begun
  <2>3. \A b \in Asks : Ended(b)' <=> Ended(b)
    BY <2>1 DEF Ended, vars, asks
  <2>4. \A b \in Asks : b # a => sentOn'[b] = sentOn[b] /\ heard'[b] = heard[b]
    BY <1>0, <2>1
  <2>5. Remembered'
    BY <2>1, <2>2, <2>3, <2>4 DEF MemoryInv, Remembered
  <2>6. Based'
    BY <1>0, <2>1, <2>2, <2>3, <2>4 DEF MemoryInv, Based, vars
  <2>7. FollowUpsCarry'
    BY <1>0, <2>1, <2>2, <2>4 DEF MemoryInv, FollowUpsCarry, vars, asks
  <2>. QED
    BY <2>5, <2>6, <2>7 DEF MemoryInv
<1>4. ASSUME NEW w \in Widgets, NEW a \in Asks, Deliver(w, a) \/ Lose(w, a) PROVE MemoryInv'
  <2>1. UNCHANGED vars /\ torn \subseteq torn' /\ UNCHANGED <<sentOn, heard, loaded, base, memory>>
    BY <1>4 DEF Deliver, Lose, Settle, threadVars
  <2>. QED
    BY <1>1, <1>2, <2>1, MemoryStays
<1>5. ASSUME (\E w \in Widgets : New(w)) \/ UNCHANGED chatVars PROVE MemoryInv'
  <2>1. UNCHANGED <<vars, torn, sentOn, heard, loaded, base, memory>>
    BY <1>5 DEF New, chatVars, widgetVars, threadVars
  <2>. QED
    BY <1>1, <1>2, <2>1, MemoryStays
<1>6. ASSUME NEW a \in Asks, Arrive(a) \/ Build(a) \/ Fails(a) \/ Vets(a) PROVE MemoryInv'
  <2>1. UNCHANGED <<torn, sentOn, heard, loaded, base, memory>>
    BY <1>6 DEF Arrive, Build, Fails, Vets, widgetVars, threadVars
  <2>2. \A b \in Asks : ~ RunEnds(b)
    BY <1>6 DEF Arrive, Build, Fails, Vets, Ask, Enter, Setup, BuildFails, RunFails, FailReply, Check,
               Judge, JudgeFails, RejectReply, Reply, RunEnds, Goto, Building, TypeOK, SentInv, ChatTypeOK
  <2>. QED
    BY <1>1, <2>1, <2>2, MemoryStays
<1>7. ASSUME Closes PROVE MemoryInv'
  <2>1. UNCHANGED <<torn, sentOn, heard, loaded, base, memory>>
    BY <1>7 DEF Closes, widgetVars, threadVars
  <2>2. \A b \in Asks : NoEnd(b)
    BY <1>7 DEF Closes, Close, NoEnd, Ended, asks
  <2>. QED
    BY <1>1, <2>1, <2>2, MemoryStays
<1>8. ASSUME NEW a \in Asks, Load(a) PROVE MemoryInv'
  <2>1. /\ pc[a] = "run" /\ OnThread(a) /\ a \notin loaded
        /\ loaded' = loaded \cup {a}
        /\ base' = [base EXCEPT ![a] = memory[sentOn[a]]]
        /\ memory' = [memory EXCEPT ![sentOn[a]] = memory[sentOn[a]] \cup {Question(a)}]
        /\ UNCHANGED <<vars, torn, sentOn, heard>>
    BY <1>8 DEF Load, Save, Saved, widgetVars
  <2>2. sentOn[a] \in Threads
    BY <1>0, <2>1 DEF SentInv, OnThread
  <2>3. \A b \in Asks : Ended(b)' <=> Ended(b)
    BY <2>1 DEF Ended, vars, asks
  <2>4. \A t \in Threads : memory[t] \subseteq memory'[t]
    BY <1>0, <2>1, <2>2
  <2>5. Remembered'
    BY <1>0, <2>1, <2>3, <2>4 DEF MemoryInv, Remembered
  <2>6. base'[a] = memory[sentOn[a]] /\ \A b \in Asks : b # a => base'[b] = base[b]
    BY <1>0, <2>1
  <2>7. ASSUME NEW b \in Asks, Ended(b), sentOn[b] = sentOn[a], sentOn[a] \notin torn
        PROVE  Both(b) \subseteq base'[a]
    BY <2>1, <2>2, <2>6, <2>7 DEF MemoryInv, Remembered, OnThread
  <2>8. Based'
    BY <1>0, <2>1, <2>3, <2>6, <2>7 DEF MemoryInv, Based, vars
  <2>9. ASSUME NEW b \in heard[a], sentOn[a] \notin torn, shown[b].kind \in {"answer", "rejected"}
        PROVE  {Question(b), Answer(b)} \subseteq base'[a]
    <3>1. b \in Asks /\ Ended(b) /\ sentOn[b] = sentOn[a]
      BY <1>0, <2>9 DEF ThreadInv, Ended
    <3>. QED
      BY <2>7, <2>9, <3>1 DEF Both
  <2>10. FollowUpsCarry'
    <3> SUFFICES ASSUME NEW c \in loaded', sentOn'[c] \notin torn', NEW b \in heard'[c],
                        shown'[b].kind \in {"answer", "rejected"}
                 PROVE  {Question(b), Answer(b)} \subseteq base'[c]
      BY DEF FollowUpsCarry
    <3>1. shown' = shown
      BY <2>1 DEF vars, asks
    <3>2. CASE c = a
      BY <2>1, <2>9, <3>1, <3>2
    <3>3. CASE c # a
      <4>1. c \in loaded /\ c \in Asks /\ base'[c] = base[c]
        BY <1>0, <2>1, <2>6, <3>3
      <4>. QED
        BY <2>1, <3>1, <4>1 DEF MemoryInv, FollowUpsCarry
    <3>. QED
      BY <3>2, <3>3
  <2>. QED
    BY <2>5, <2>8, <2>10 DEF MemoryInv
<1>9. ASSUME NEW a \in Asks, Observes(a) \/ Ends(a), OnThread(a) PROVE MemoryInv'
  <2>1. /\ a \in loaded /\ pc[a] = "run"
        /\ UNCHANGED <<torn, sentOn, heard, loaded, base>>
    BY <1>9 DEF Observes, Ends, Ready, Observe, RunEnds, widgetVars
  <2>2. sentOn[a] \in Threads
    BY <1>0, <1>9, <2>1 DEF SentInv, OnThread
  <2>3. PICK parts : /\ memory' = [memory EXCEPT ![sentOn[a]] = base[a] \cup parts]
                     /\ Ends(a) => parts = Both(a)
    <3>1. CASE Observes(a)
      <4>1. memory' = [memory EXCEPT ![sentOn[a]] = base[a] \cup {Question(a)}]
        BY <1>9, <3>1 DEF Observes, Save, Saved
      <4>2. ~ Ends(a)
        BY <1>0, <3>1 DEF Ends, RunEnds, Observes, Observe, Goto, TypeOK
      <4>. QED
        BY <4>1, <4>2
    <3>2. CASE Ends(a)
      BY <1>9, <3>2 DEF Ends, Save, Saved, Both
    <3>. QED
      BY <1>9, <3>1, <3>2
  <2>4. ASSUME NEW b \in Asks, Ended(b)', b # a PROVE Ended(b)
    BY <1>0, <1>9, <2>4 DEF Ended, Observes, Ends, Observe, RunEnds, Goto, TypeOK
  <2>5. ~ Ended(a)
    BY <1>0, <2>1 DEF Ended, QuietInv
  <2>6. Ended(a)' => Ends(a)
    BY <1>0, <1>9, <2>1, <2>5 DEF Ended, Observes, Observe
  <2>7. Remembered'
    <3> SUFFICES ASSUME NEW b \in Asks, Database, Ended(b)', sentOn[b] \notin torn \cup {NoThread}
                 PROVE  Both(b) \subseteq memory'[sentOn[b]]
      BY <2>1 DEF Remembered
    <3>1. CASE sentOn[b] # sentOn[a]
      <4>1. b # a /\ Ended(b) /\ memory'[sentOn[b]] = memory[sentOn[b]]
        BY <1>0, <2>2, <2>3, <2>4, <3>1
      <4>. QED
        BY <4>1 DEF MemoryInv, Remembered
    <3>2. CASE sentOn[b] = sentOn[a] /\ b # a
      <4>1. Both(b) \subseteq base[a]
        BY <2>1, <2>4, <3>2 DEF MemoryInv, Based
      <4>. QED
        BY <1>0, <2>2, <2>3, <3>2, <4>1
    <3>3. CASE b = a
      BY <1>0, <2>2, <2>3, <2>6, <3>3
    <3>. QED
      BY <3>1, <3>2, <3>3
  <2>8. Based'
    <3> SUFFICES ASSUME NEW c \in loaded, NEW b \in Asks, pc'[c] = "run", Ended(b)',
                        sentOn[b] = sentOn[c], sentOn[c] \notin torn
                 PROVE  Both(b) \subseteq base[c]
      BY <2>1 DEF Based
    <3>1. pc[c] = "run" /\ c \in Asks
      BY <1>0, <1>1 DEF Forward, ThreadInv
    <3>2. CASE b # a
      BY <2>4, <3>1, <3>2 DEF MemoryInv, Based
    <3>3. CASE b = a
      <4>1. c # a
        BY <1>0, <2>6, <3>3 DEF Ends, RunEnds, Goto, TypeOK
      <4>2. pc[a] = "done" \/ pc[c] = "done"
        BY <2>2, <3>1, <3>3, <4>1, OneSpeaks DEF ChatAssumption
      <4>. QED
        BY <2>1, <3>1, <4>2
    <3>. QED
      BY <3>2, <3>3
  <2>9. FollowUpsCarry'
    <3>1. \A c \in loaded : \A b \in heard[c] : b \in Asks /\ shown'[b] = shown[b]
      BY <1>0, <1>1 DEF ThreadInv, Forward
    <3>. QED
      BY <2>1, <3>1 DEF MemoryInv, FollowUpsCarry
  <2>. QED
    BY <2>7, <2>8, <2>9 DEF MemoryInv
<1>10. ASSUME NEW a \in Asks, Observes(a) \/ Ends(a), ~ OnThread(a) PROVE MemoryInv'
  <2>1. UNCHANGED <<torn, sentOn, heard, loaded, base, memory>>
    BY <1>10 DEF Observes, Ends, widgetVars
  <2>2. ASSUME NEW b \in Asks, Ended(b)', b # a PROVE Ended(b)
    BY <1>0, <1>10, <2>2 DEF Ended, Observes, Ends, Observe, RunEnds, Goto, TypeOK
  <2>3. Database => sentOn[a] = NoThread
    BY <1>10 DEF OnThread, ThreadInv
  <2>4. Remembered'
    BY <2>1, <2>2, <2>3 DEF MemoryInv, Remembered
  <2>5. Based'
    <3> SUFFICES ASSUME NEW c \in loaded, NEW b \in Asks, pc'[c] = "run", Ended(b)',
                        sentOn[b] = sentOn[c], sentOn[c] \notin torn
                 PROVE  Both(b) \subseteq base[c]
      BY <2>1 DEF Based
    <3>1. pc[c] = "run" /\ Database /\ c \in Threaded /\ sentOn[c] # NoThread
      BY <1>0, <1>1 DEF Forward, ThreadInv, OnThread, Begun, SentInv
    <3>2. b # a
      BY <2>3, <3>1
    <3>. QED
      BY <2>2, <3>1, <3>2 DEF MemoryInv, Based
  <2>6. FollowUpsCarry'
    <3>1. \A c \in loaded : \A b \in heard[c] : b \in Asks /\ shown'[b] = shown[b]
      BY <1>0, <1>1 DEF ThreadInv, Forward
    <3>. QED
      BY <2>1, <3>1 DEF MemoryInv, FollowUpsCarry
  <2>. QED
    BY <2>4, <2>5, <2>6 DEF MemoryInv
<1>. QED
  BY <1>3, <1>4, <1>5, <1>6, <1>7, <1>8, <1>9, <1>10 DEF ChatNext

\* A follow-up starts from what its conversation has shown, however many other
\* threads and runs there are.
THEOREM FollowUpsHold == ChatSpec => []FollowUpsCarry
<1>1. ChatInit => TurnInv /\ ThreadInv /\ MemoryInv
  BY DEF ChatInit, Init, Unset, Bare, TurnInv, RepliesInTurn, ThreadInv, QuietInv, MemoryInv, Remembered,
         Based, FollowUpsCarry, Ended
<1>2. MemoryInv => FollowUpsCarry
  BY DEF MemoryInv
<1>. QED
  BY <1>1, <1>2, SentInit, SentStep, TurnStep, ThreadStep, MemoryStep, PTL DEF ChatSpec
=============================================================================
