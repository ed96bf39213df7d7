------------------------------ MODULE MCAgent ------------------------------
(* Small instances of Agent for TLC.                                       *)
EXTENDS Agent

TheTools == {"search", "pay"}
TheGated == {"pay"}
TheLocal == {"search"}
TheOutcomes == {"succeeded", "denied"}

Call(t) == [tool |-> t, provider |-> FALSE]
Hosted == [tool |-> "search", provider |-> TRUE]

\* Two gated calls, or a hosted call before a mix of both; then at most one.
TheOutputs == [n \in 0..1 |->
    IF n = 0 THEN {<<Call("pay"), Call("pay")>>, <<Hosted, Call("search"), Call("pay")>>}
             ELSE {<<>>, <<Call("search")>>}]

Base == [execution |-> "parallel", timeout |-> TRUE, shared |-> FALSE, fallback |-> TRUE,
         child |-> FALSE, recorded |-> TRUE, givesUp |-> FALSE]

\* The base case and variations that do not hide each other.
Varied == {Base,
           [Base EXCEPT !.execution = "sequential", !.fallback = FALSE, !.child = TRUE],
           [Base EXCEPT !.givesUp = TRUE],
           [Base EXCEPT !.shared = TRUE, !.child = TRUE],
           [Base EXCEPT !.timeout = FALSE, !.recorded = FALSE]}

Parallel == {Base}
Child == {[Base EXCEPT !.child = TRUE]}
=============================================================================
