------------------------------- MODULE MCFetch --------------------------------
(***************************************************************************)
(* Small instances of Fetch for TLC.                                       *)
(***************************************************************************)
EXTENDS Fetch, TLC, SequencesExt

\* The digest of a content is its number: a choice without collisions.
MCSha256 ==
  LET contents == SetToSeq(Content)
  IN  [c \in Content |-> CHOOSE i \in 1..Len(contents) : contents[i] = c]
===============================================================================
