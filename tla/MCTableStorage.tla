--------------------------- MODULE MCTableStorage ---------------------------
(* Small instances of TableStorage: the smallest array has 1 cell and the    *)
(* smallest hash block 2 slots, so three number keys make both grow.         *)
EXTENDS TableStorage, TLC

CONSTANTS a, zero

\* The string a as a pooled literal and as a string built in RAM, +0 and -0.
WordNames    == {a, zero}
WordRawNames == {<<"str", a, "pool">>, <<"str", a, "ram">>,
                 <<"zero", zero, "+">>, <<"zero", zero, "-">>}

\* A single string, for the run whose array outgrows the capacity word.
OneName    == {a}
OneRawName == {<<"str", a, "pool">>}

\* The largest numbers, 0 and the string start on one slot: one long chain.
MCHashOf == [k \in Index \cup Names |-> IF k \in Names THEN 1
                                        ELSE IF k > 2 THEN 1 ELSE k]
=============================================================================
