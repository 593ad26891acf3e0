---------------------------- MODULE MCPairsLoop ----------------------------
(* Four number keys, of which 3 and 4 may start in the hash part, and two    *)
(* strings on the probe chain of 3.                                          *)
EXTENDS PairsLoop, TLC

CONSTANTS a, b

LoopNames    == {a, b}
LoopRawNames == {<<"str", a, "pool">>, <<"str", b, "ram">>}

\* With the key false beside one string.
FalseNames    == {a, False}
FalseRawNames == {<<"str", a, "pool">>, <<"bool", False, "-">>}

LoopHashOf == [k \in Index \cup Names |-> IF k \in Names THEN 3 ELSE k]
=============================================================================
