------------------------------ MODULE MCRelay ------------------------------
(* Small instances of Relay for TLC.                                       *)
EXTENDS Relay

Part(k, t) == [key |-> k, kind |-> t]

\* Two lanes, text (key 1) and a tool input (key 2), in up to three parts; the
\* retry gets one delta.
LanesThenDelta == <<{Part(1, "start"), Part(1, "mark"), Part(1, "delta"), Part(2, "element")},
                    {Part(1, "delta")}>>
ThreeThenOne == <<3, 1>>
=============================================================================
