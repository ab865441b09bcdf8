------------------------------- MODULE ForEach -------------------------------
(* What parallel_for_each (ps_usage_stats/parallel_for_each.cpp) promises:   *)
(* the function is called once for each input, in some order, all the calls  *)
(* are over when it returns, and it returns.                                 *)
CONSTANT Inputs

VARIABLES called,   \* the inputs for which the function has been called
          returned

vars == <<called, returned>>

\* There is nothing to wait for without inputs.
Init == called = {} /\ returned = (Inputs = {})

Calls(input) ==
    /\ ~returned
    /\ input \in Inputs \ called
    /\ called' = called \union {input}
    /\ UNCHANGED returned

Returns ==
    /\ ~returned
    /\ called = Inputs
    /\ returned' = TRUE
    /\ UNCHANGED called

Next == (\E input \in Inputs : Calls(input)) \/ Returns

Spec == Init /\ [][Next]_vars /\ WF_vars(Next)
=============================================================================
