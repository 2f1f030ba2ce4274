---------------------------- MODULE MCProcessing ----------------------------
(* Finite instances of Processing for TLC. *)
EXTENDS Processing, TLC

\* A stage of two sections followed by recomputeOriginality, and one without.
ShortPipeline == <<"plagiarism", "selfPlagiarism", "grammar">>
TinyPipeline  == <<"selfPlagiarism", "grammar">>

-----------------------------------------------------------------------------
(* What the sources say of the worker, and the code does not do.           *)

\* A stage "must not erase what the other stages have already written"
\* (analysis-result.service.ts), whichever handler runs it.
StageErasesNothing ==
    [][\A d \in Doc : sections[d] \subseteq sections'[d]]_vars

-----------------------------------------------------------------------------
Symmetry == Permutations(Doc) \union Permutations(Handler)
=============================================================================
