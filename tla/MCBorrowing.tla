---------------------------- MODULE MCBorrowing -----------------------------
(* A finite instance of Borrowing for TLC: two documents of one author that   *)
(* share a shingle, and one without an author and without a shingle.          *)
EXTENDS Borrowing, TLC

CONSTANTS d1, d2, d3

MCAuthor   == (d1 :> "author") @@ (d2 :> "author") @@ (d3 :> NoAuthor)
MCShingles == (d1 :> <<1, 2, 1>>) @@ (d2 :> <<2, 3>>) @@ (d3 :> <<>>)
MCAttempts == (d1 :> 2) @@ (d2 :> 1) @@ (d3 :> 1)
=============================================================================
