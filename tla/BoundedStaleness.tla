-------------------------- MODULE BoundedStaleness --------------------------
(***************************************************************************)
(* What the pricing cache promises its callers: an answer is a price list  *)
(* with all its parts, each of which was in force at some moment of a      *)
(* bounded window before the answer, or an error of the price source.      *)
(* Nothing is promised about which moment of the window, nor that two      *)
(* parts of an answer, or two callers, agree.                              *)
(***************************************************************************)
EXTENDS Integers, Sequences

CONSTANTS
    Callers,   \* the processes that ask
    Prices,    \* what the provider may charge
    Parts,     \* the parts of a price list
    Window,    \* how old an answer may be, in ticks
    Nothing    \* no answer outstanding; an error

VARIABLES
    log,       \* log[t]: the prices in force at tick t; Len(log) is the present
    answer     \* answer[c]: the last answer caller c got

vars == <<log, answer>>

Now == Len(log)

\* The prices in force at some tick of the last w ticks.
InForce(w) == {log[t] : t \in {u \in 1..Now : u >= Now - w}}

Init ==
    /\ log \in {<<p>> : p \in Prices}
    /\ answer = [c \in Callers |-> Nothing]

\* The provider keeps or changes its prices.
Tick == \E p \in Prices : log' = Append(log, p) /\ UNCHANGED answer

\* A caller asks again, or is told of an error, or its process is gone.
Forget(c) ==
    /\ answer' = [answer EXCEPT ![c] = Nothing]
    /\ UNCHANGED log

\* A caller is answered with a whole list, from the window.
Answer(c) ==
    /\ \E list \in [Parts -> InForce(Window)] : answer' = [answer EXCEPT ![c] = list]
    /\ UNCHANGED log

Next == Tick \/ \E c \in Callers : Forget(c) \/ Answer(c)

Spec == Init /\ [][Next]_vars
=============================================================================
