------------------------------ MODULE MCCorpus ------------------------------
(* A finite instance of Corpus for TLC.  Windows of two shingles, one shingle *)
(* apart, as CHUNK_STRIDE is half of CHUNK_SIZE.                              *)
EXTENDS Corpus, TLC

CONSTANTS c1, c2

MCShingles  == (c1 :> <<1, 2, 3, 4>>) @@ (c2 :> <<5, 3>>)
MCSentences == (c1 :> 2) @@ (c2 :> 1)
MCText      == <<6, 2, 3, 4>>

\* The window of c2 collides with one of the text that shares no shingle with it.
MCSimilar == {<<w, w>> : w \in AllWindows} \union {<<{5, 3}, {6, 2}>>}

\* The second sentence of the text is retold from both sources.
MCAlike == {<<1, c1, 2>>, <<2, c1, 1>>, <<2, c2, 1>>}
=============================================================================
