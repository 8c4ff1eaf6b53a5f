--------------------------- MODULE RetryTransport ---------------------------
(***************************************************************************)
(* One request through the retrying round tripper of the LLM clients       *)
(* (internal/llm/retry.go) under the http.Client's timeout (http.go).  The *)
(* server answers with any status, header and latency, or not at all; the  *)
(* caller may cancel.  Durations are in clock units; an int64 of           *)
(* nanoseconds is an integer of -MaxInt - 1 .. MaxInt.                     *)
(***************************************************************************)
EXTENDS Integers

CONSTANTS
    MaxRetries,   \* cfg.MaxRetries
    BaseDelay,    \* cfg.BaseDelay
    MaxDelay,     \* cfg.MaxDelay
    Timeout,      \* cfg.RequestTimeout
    Millisecond,  \* time.Millisecond
    Second,       \* time.Second
    MaxInt,       \* math.MaxInt64
    Headers       \* the Retry-After headers the server sends

\* A header holds seconds or a date, here the time left until it.
NoHeader == [form |-> "none", value |-> 0]
HeaderForms == [form : {"none", "seconds", "date"}, value : Int]

ASSUME RetryAssumption ==
    /\ MaxRetries \in Nat /\ MaxInt \in Nat
    /\ BaseDelay \in 1..MaxInt /\ MaxDelay \in 1..MaxInt
    /\ Millisecond \in 1..MaxInt /\ Second \in 1..MaxInt
    /\ Timeout \in Nat \ {0}
    /\ Headers \subseteq HeaderForms
    /\ NoHeader \in Headers
    /\ \A h \in Headers : h.form = "seconds" => h.value \in 0..MaxInt

VARIABLES
    pc,         \* where RoundTrip is
    now,        \* clock since http.Client.Do
    attempt,    \* the loop variable
    tries,      \* history: round trips of the base transport
    started,    \* history: when the last of them began
    body,       \* what req.Body yields when read: "whole" or "spent"
    sent,       \* history: what the base transport read in the last round trip
    resp,       \* the last response, or NoResponse after an error
    open,       \* response bodies not closed yet
    delay,      \* the wait before the next attempt
    outcome     \* what RoundTrip returned

vars == <<pc, now, attempt, tries, started, body, sent, resp, open, delay, outcome>>

Statuses   == {"ok", "refused", "retryable"}
NoResponse == [status |-> "none", after |-> NoHeader]

Init ==
    /\ pc = "send"
    /\ now = 0 /\ attempt = 0 /\ tries = 0 /\ started = 0
    /\ body = "spent"            \* RoundTrip has buffered it
    /\ sent = "whole"
    /\ resp = NoResponse /\ open = 0 /\ delay = 0
    /\ outcome = "pending"

-----------------------------------------------------------------------------
\* Arithmetic on int64.
Wrap(x) == ((x + MaxInt + 1) % (2 * (MaxInt + 1))) - (MaxInt + 1)

\* A fault: a server's wish is taken as it is.
CappedNot(d) == d

\* The wait a Retry-After header leads to.
Capped(d) == IF d > MaxDelay THEN MaxDelay ELSE d

\* parseRetryAfter
Wished(h) ==
    IF h.form = "seconds" THEN Wrap(h.value * Second)
    ELSE IF h.value < 0 THEN 0 ELSE h.value

\* baseDelay * 2^k, the maximum when that overflows or is larger.
Backoff(k) ==
    LET b == Wrap(BaseDelay * 2^k) IN IF b <= 0 \/ b > MaxDelay THEN MaxDelay ELSE b

\* computeDelay: the header, or full jitter with a floor.
Delays(k, r) ==
    IF r.after.form # "none" THEN {Capped(Wished(r.after))}
    ELSE {IF j < Millisecond THEN Millisecond ELSE j : j \in 0..Backoff(k)}

-----------------------------------------------------------------------------
\* A fault: the body is not put back.
ResetBodyNot == body

\* resetBody
ResetBody == "whole"

\* The next round trip of the base transport begins; it reads the body.
Send ==
    /\ pc = "send"
    /\ sent' = ResetBody
    /\ body' = "spent"
    /\ tries' = tries + 1
    /\ started' = now
    /\ pc' = "sent"
    /\ UNCHANGED <<now, attempt, resp, open, delay, outcome>>

\* The server answers in time.
Respond ==
    /\ pc = "sent"
    /\ now' \in now..Timeout
    /\ \E s \in Statuses, h \in Headers : resp' = [status |-> s, after |-> h]
    /\ open' = open + 1
    /\ pc' = "decide"
    /\ UNCHANGED <<attempt, tries, started, body, sent, delay, outcome>>

\* The network fails, the caller cancels, or the deadline passes.
Break ==
    /\ pc = "sent"
    /\ now' \in now..Timeout
    /\ resp' = NoResponse
    /\ pc' = "decide"
    /\ UNCHANGED <<attempt, tries, started, body, sent, open, delay, outcome>>

Retryable == resp.status \in {"none", "retryable"}

\* Faults: the last attempt is recognised too early or too late.
LastAttemptEarly == attempt + 1 >= MaxRetries
LastAttemptLate  == attempt = MaxRetries + 1

LastAttempt == attempt = MaxRetries

\* Nothing to retry, or no attempt left: the last response, its body still
\* open for the caller, or the last error.
GiveBack ==
    /\ pc = "decide"
    /\ ~ Retryable \/ LastAttempt
    /\ outcome' = IF resp = NoResponse THEN "error" ELSE "response"
    /\ pc' = "returned"
    /\ UNCHANGED <<now, attempt, tries, started, body, sent, resp, open, delay>>

\* A fault: a response is dropped with its body open.
DiscardNot == open

\* The body of a response that is retried is drained and closed.
Discard == IF resp = NoResponse THEN open ELSE open - 1

\* Another attempt is due after a delay.
Retry ==
    /\ pc = "decide"
    /\ Retryable /\ ~ LastAttempt
    /\ open' = Discard
    /\ delay' \in Delays(attempt, resp)
    /\ pc' = "wait"
    /\ UNCHANGED <<now, attempt, tries, started, body, sent, resp, outcome>>

\* A negative duration has passed already.
Elapses(d) == IF d < 0 THEN 0 ELSE d

\* The timer can fire before the context is done, or together with it.
Wakes == now + Elapses(delay) <= Timeout

\* time.After
Wake ==
    /\ pc = "wait"
    /\ Wakes
    /\ now' = now + Elapses(delay)
    /\ attempt' = attempt + 1
    /\ pc' = "send"
    /\ UNCHANGED <<tries, started, body, sent, resp, open, delay, outcome>>

\* A fault: cancellation is not looked at.
CancelNot == FALSE

\* req.Context().Done(): the deadline, or the caller, while waiting.
Cancel ==
    /\ pc = "wait"
    /\ now' \in now..Timeout /\ now' <= now + Elapses(delay)
    /\ outcome' = "cancelled"
    /\ pc' = "returned"
    /\ UNCHANGED <<attempt, tries, started, body, sent, resp, open, delay>>

Next == Send \/ Respond \/ Break \/ GiveBack \/ Retry \/ Wake \/ Cancel

Spec == Init /\ [][Next]_vars
\* Every call the transport waits for ends, at the deadline at the latest.
FairSpec == Spec /\ WF_vars(Next)

-----------------------------------------------------------------------------
TypeOK ==
    /\ pc \in {"send", "sent", "decide", "wait", "returned"}
    /\ now \in Nat /\ started \in Nat /\ attempt \in Nat /\ tries \in Nat
    /\ body \in {"whole", "spent"} /\ sent \in {"whole", "spent"}
    /\ resp \in [status : Statuses \cup {"none"}, after : Headers]
    /\ open \in 0..1
    /\ delay \in Int
    /\ outcome \in {"pending", "response", "error", "cancelled"}

\* No more round trips than one and the retries, and a retryable failure is
\* handed to the caller only after the last of them (retry.go: "transient
\* failures ... get retried").
TriesSpent ==
    /\ tries <= MaxRetries + 1
    /\ outcome = "error" \/ (outcome = "response" /\ resp.status = "retryable")
          => tries = MaxRetries + 1

\* Request bodies are whole and response bodies closed: every attempt carries
\* the whole body (retry.go: "replace req.Body / req.GetBody before every
\* attempt"), whatever the one before consumed, and the response given back is
\* the only one left open.
BodiesKept ==
    /\ pc = "sent" => sent = "whole"
    /\ open = IF resp # NoResponse /\ pc \in {"decide", "returned"} /\ outcome # "cancelled"
              THEN 1 ELSE 0

\* No wait is longer than the cap, whatever the server wishes and whatever
\* overflows, and a backoff of our own is never a hot loop: the floor of a
\* millisecond wins over a smaller cap.
DelayInBounds ==
    pc = "wait" => /\ delay <= MaxDelay \/ delay = Millisecond
                   /\ resp.after.form = "none" => delay >= Millisecond

\* http.go: the timeout is the budget of the request, "the transport only
\* retries within that window".
WithinWindow == started <= Timeout /\ now <= Timeout

\* The request comes back, also when every attempt fails.
Returns == <>(pc = "returned")

=============================================================================
