--------------------------- MODULE MCResearchRun ---------------------------
(* A preset with one phase twice and one once, and a plan that mixes the   *)
(* benign emulator with a sweep.                                           *)
EXTENDS ResearchRun

MCPresetOrder == <<"negative", "positive">>
MCPresetCount == [p \in {"negative", "positive"} |-> IF p = "negative" THEN 2 ELSE 1]
MCExplicit == {<<Normal, "slow">>, <<"slow">>}

=============================================================================
