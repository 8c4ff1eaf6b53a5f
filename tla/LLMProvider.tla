----------------------------- MODULE LLMProvider -----------------------------
(***************************************************************************)
(* GenerateText of the three language models (internal/llm/gemini.go,      *)
(* claude.go, openai.go): one request through the retrying transport, the  *)
(* body of its response read under the same deadline, the text taken out   *)
(* of it.  A body may break off, be no JSON, report an error with or       *)
(* without a text beside it, hold no text at all or an empty one.          *)
(***************************************************************************)
EXTENDS RetryTransport

VARIABLES
    provider,   \* the model asked
    stage,      \* where GenerateText is
    read,       \* what io.ReadAll returned, or Unread
    closed,     \* the deferred Close of the response's body has run
    result      \* what GenerateText returned

call == <<provider, stage, read, closed, result>>
providerVars == <<vars, call>>

Providers == {"gemini", "claude", "openai"}

\* A body read to its end: is it JSON, has it an error object, and what is the
\* text of the first candidate, content or choice?
Payloads == [json : BOOLEAN, error : BOOLEAN, first : {"none", "empty", "text"}]
Unread   == [json |-> FALSE, error |-> FALSE, first |-> "unread"]

ProviderInit ==
    /\ Init
    /\ provider \in Providers
    /\ stage = "calling"
    /\ read = Unread
    /\ closed = FALSE
    /\ result = "pending"

-----------------------------------------------------------------------------
\* client.Do
Do == stage = "calling" /\ Next /\ UNCHANGED call

\* Gemini's answers are decoded without an error object.
Refuses(p) == p.error /\ provider # "gemini"

\* A fault: the first of no items is taken.
TextOfUnseen(p) == IF ~ p.json \/ Refuses(p) THEN "failed" ELSE p.first
\* What is made of a whole body.
TextOf(p) == IF ~ p.json \/ Refuses(p) \/ p.first = "none" THEN "failed" ELSE p.first

\* A fault: the status is not looked at.
JudgedBlindly == TextOf(read)
Judged == IF resp.status # "ok" THEN "failed" ELSE TextOf(read)

Return(r) ==
    /\ result' = r
    /\ stage' = "returned"
    /\ UNCHANGED <<vars, provider>>

\* The request failed, and there is no body to close.
DoFails ==
    /\ stage = "calling" /\ pc = "returned"
    /\ outcome \in {"error", "cancelled"}
    /\ Return("failed")
    /\ UNCHANGED <<read, closed>>

\* The whole body is there before the deadline.
ReadAll ==
    /\ stage = "calling" /\ pc = "returned"
    /\ outcome = "response"
    /\ read' \in Payloads
    /\ stage' = "read"
    /\ UNCHANGED <<vars, provider, closed, result>>

\* It breaks off, or the deadline passes: nobody asks again.
ReadBreaks ==
    /\ stage = "calling" /\ pc = "returned"
    /\ outcome = "response"
    /\ closed' = TRUE
    /\ Return("failed")
    /\ UNCHANGED read

Judge ==
    /\ stage = "read"
    /\ closed' = TRUE
    /\ Return(Judged)
    /\ UNCHANGED read

ProviderNext == Do \/ DoFails \/ ReadAll \/ ReadBreaks \/ Judge

ProviderSpec == ProviderInit /\ [][ProviderNext]_providerVars
\* The deadline ends the read as it ends the attempts and the waits.
FairProviderSpec == ProviderSpec /\ WF_providerVars(ProviderNext)

-----------------------------------------------------------------------------
ProviderTypeOK ==
    /\ TypeOK
    /\ provider \in Providers
    /\ stage \in {"calling", "read", "returned"}
    /\ read \in Payloads \cup {Unread}
    /\ closed \in BOOLEAN
    /\ result \in {"pending", "failed", "empty", "text"}

\* Bodies are whole on the way there and back, and none is left open: each
\* attempt carries the whole prompt whatever the one before consumed; a text is
\* the answer to a whole prompt, read to its end from a response that was no
\* error; and when GenerateText returns, on whatever path, the body of the
\* response it was given is closed, as the transport has closed the others.
BodiesWhole ==
    /\ BodiesKept
    /\ stage = "returned" => open = (IF closed THEN 1 ELSE 0)
    /\ result \in {"empty", "text"} =>
          /\ sent = "whole" /\ resp.status = "ok"
          /\ read.json /\ read.first = result

\* GenerateText returns, though every attempt fails, the server asks to wait,
\* or a body never comes to its end.
Answers == <>(stage = "returned")
=============================================================================
