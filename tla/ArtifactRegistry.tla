--------------------------- MODULE ArtifactRegistry ---------------------------
(***************************************************************************)
(* What a registry promises: a reference NAME@VERSION has no bytes until   *)
(* it is published, gets all of its bytes in one step, and keeps them.     *)
(***************************************************************************)
CONSTANTS
  Ref,       \* artifact references
  Content,   \* what an artifact's bytes can be
  None       \* "not published"

VARIABLE versions   \* what each reference stands for

Init == versions = [r \in Ref |-> None]

Publish(r, c) ==
  /\ versions[r] = None
  /\ versions' = [versions EXCEPT ![r] = c]

Next == \E r \in Ref, c \in Content : Publish(r, c)

Spec == Init /\ [][Next]_versions
===============================================================================
