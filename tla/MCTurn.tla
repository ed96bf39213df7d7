------------------------------- MODULE MCTurn -------------------------------
(* Instances of Turn for TLC. *)
EXTENDS Turn

CONSTANTS k1, k2, small, big, huge, refusal

Opts(api, json, lane, visible, strict) ==
    [api |-> api, json |-> json, lane |-> lane, visible |-> visible, strict |-> strict]
Says(reasoning, text, calls, file) ==
    [reasoning |-> reasoning, text |-> text, calls |-> calls, file |-> file]
Wants(id, in, hosted) == [id |-> id, input |-> in, hosted |-> hosted]
Asked(options, says) == [opts |-> options, answer |-> says]

ListAnswer == Says(<<"why">>, <<"head", "part", "rest", "part", "end">>, <<>>, FALSE)
EmptyAnswer == Says(<<"why">>, <<"head", "end">>, <<>>, FALSE)
CallsAnswer == Says(<<>>, <<"word">>,
                    <<Wants(k1, <<"x", "y">>, FALSE), Wants(k2, <<"z">>, FALSE)>>, FALSE)
FileAnswer == Says(<<"why">>, <<"word", "word">>, <<Wants(k1, <<"x", "y">>, TRUE)>>, TRUE)

TurnAsks ==
    {Asked(Opts("stream", TRUE, "object", TRUE, FALSE), ListAnswer),
     Asked(Opts("stream", TRUE, "text", TRUE, TRUE), EmptyAnswer),
     Asked(Opts("stream", FALSE, "text", TRUE, TRUE), CallsAnswer),
     Asked(Opts("stream", TRUE, "text", TRUE, FALSE), FileAnswer),
     Asked(Opts("generate", FALSE, "text", FALSE, TRUE), FileAnswer),
     Asked(Opts("generate", FALSE, "text", FALSE, TRUE), CallsAnswer),
     Asked(Opts("generate", FALSE, "text", TRUE, TRUE), FileAnswer),
     Asked(Opts("generateObject", TRUE, "object", TRUE, TRUE), ListAnswer),
     Asked(Opts("generateObject", TRUE, "text", TRUE, TRUE), EmptyAnswer),
     Asked(Opts("streamObject", TRUE, "object", TRUE, FALSE), ListAnswer)}

\* A list of elements in the default lane.
ElementsAsks == {Asked(Opts("stream", TRUE, "text", TRUE, TRUE), ListAnswer)}

AllKinds == {"input", "output", "error"}
ToolOf(registered, policy, verdicts, approval, compact, store) ==
    [registered |-> registered, valid |-> TRUE, requires |-> approval # "none",
     policy |-> policy, verdicts |-> verdicts, execute |-> TRUE,
     approval |-> approval, compact |-> compact, store |-> store]

TurnTools ==
    {ToolOf(TRUE, FALSE, {}, "approved", AllKinds, TRUE),
     ToolOf(TRUE, TRUE, {"approve", "deny"}, "none", {}, TRUE),
     ToolOf(TRUE, TRUE, {"ask"}, "approved", {"error"}, TRUE),
     ToolOf(TRUE, FALSE, {}, "denied", {"output"}, TRUE),
     ToolOf(TRUE, TRUE, {"error"}, "none", {"input"}, TRUE),
     ToolOf(FALSE, FALSE, {}, "none", AllKinds, FALSE)}
OneTool == {ToolOf(TRUE, FALSE, {}, "approved", {}, TRUE)}

TurnInputs == {<<"x", "y">>, <<"z">>}
TurnPayloads == TurnInputs \cup {small, big, huge, refusal}
TurnLarge == {<<"x", "y">>, big, huge}

RunOf(res, model, isError) == [result |-> res, model |-> model, isError |-> isError]
TurnRuns == {RunOf(big, big, FALSE), RunOf(huge, small, FALSE),
             RunOf(None, big, TRUE), RunOf(big, refusal, TRUE)}
=============================================================================
