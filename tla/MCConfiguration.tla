--------------------------- MODULE MCConfiguration ---------------------------
(* A finite instance of Configuration: one default phrase in each category,    *)
(* default junk words as typed and trimmed, known and unknown features to edit. *)
EXTENDS Configuration, TLC

MCCliches == ("BUREAUCRATIC" :> {"p1"}) @@ ("AI_CLICHE" :> {"p2"})
MCNormal == (" Typa" :> "typa") @@ ("koroche" :> "koroche")
MCWeights == [f \in Feature |-> IF f = "perplexity" THEN 1 ELSE 2]

Item(f, w, e) == [feature |-> f, weight |-> w, enabled |-> e]
MCUpdates ==
    {<<Item("burstiness", 0, {}), Item("perplexity", 3, {FALSE})>>,
     <<Item("unknown", 2, {}), Item("burstiness", -1, {TRUE})>>}
=============================================================================
