--------------------------- MODULE MCStateDirectory ---------------------------
(***************************************************************************)
(* Small instances of StateDirectory for TLC.                              *)
(***************************************************************************)
EXTENDS StateDirectory, TLC

CONSTANTS own, other, x, y

\* The directory's own key, which a join may name too, and another one.
MCKeys == {own, other}

\* Two peers: a lost change of one by a save of the other needs no more.
MCPeers == {x, y}

\* Commands differ only in what they are started with.
Symmetry == Permutations(Proc)
===============================================================================
