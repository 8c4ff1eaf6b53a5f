---------------------------- MODULE MCLLMProvider ----------------------------
(***************************************************************************)
(* LLMProvider for TLC, on five-bit integers: a second is 4 units and a    *)
(* millisecond 1, so that five seconds and the fourth backoff overflow.    *)
(***************************************************************************)
EXTENDS LLMProvider

MCHeaders ==
    {NoHeader}
      \cup [form : {"seconds"}, value : {0, 1, 3, 5}]
      \cup [form : {"date"}, value : {-3, 2, 15}]
=============================================================================
