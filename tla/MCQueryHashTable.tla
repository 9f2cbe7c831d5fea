--------------------------- MODULE MCQueryHashTable ---------------------------
(***************************************************************************)
(* Four cells for the 128 of the code.  Tokens 3, 7 and 11 hash to the     *)
(* last cell, so probing wraps around and runs collide; 4 and 5 sit in the *)
(* way of the wrapped run.                                                 *)
(***************************************************************************)
EXTENDS QueryHashTable

MCTokens == {3, 4, 5, 7, 11}

\* With the token 0, which is also the mark of an empty cell.
MCTokensWithZero == {0, 3, 4}
=============================================================================
