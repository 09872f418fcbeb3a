------------------------------- MODULE Transfer --------------------------------
(***************************************************************************)
(* What a pipeline with a blob stream of the drive at one end promises:     *)
(* the chunks arrive one after another; it succeeds only when all of them   *)
(* have arrived, and once it has settled nothing arrives any more.          *)
(***************************************************************************)
EXTENDS Naturals

VARIABLES
  total,    \* chunks to carry
  carried,  \* chunks that have arrived
  outcome   \* "none", "ok" or "failed"

vars == <<total, carried, outcome>>

Init == total \in Nat /\ carried = 0 /\ outcome = "none"

Carry ==
  /\ outcome = "none"
  /\ carried < total
  /\ carried' = carried + 1
  /\ UNCHANGED <<total, outcome>>

Succeed ==
  /\ outcome = "none"
  /\ carried = total
  /\ outcome' = "ok"
  /\ UNCHANGED <<total, carried>>

Fail ==
  /\ outcome = "none"
  /\ outcome' = "failed"
  /\ UNCHANGED <<total, carried>>

Next == Carry \/ Succeed \/ Fail

Spec == Init /\ [][Next]_vars
===============================================================================
