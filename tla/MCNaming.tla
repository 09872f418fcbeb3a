------------------------------- MODULE MCNaming --------------------------------
(***************************************************************************)
(* A small instance of Naming for TLC.                                     *)
(***************************************************************************)
EXTENDS Naming

Texts(length) == UNION {[1..n -> Piece] : n \in 0..length}

\* Every text of up to two pieces, and one that is too long.
MCText == Texts(2) \cup {<<"a", "a", "a">>}

\* Every argument of up to five pieces.
MCArgument == Texts(5)
===============================================================================
