----------------------------- MODULE Distribution -----------------------------
(***************************************************************************)
(* What a registry and its readers promise together: a reader obtains under *)
(* a reference the version that is published there, whole and in one step,  *)
(* never anything before it is published, and keeps what it obtained.       *)
(***************************************************************************)
EXTENDS ArtifactRegistry

CONSTANT Reader

VARIABLE obtained   \* what each reader has exported under each reference

DistributionInit ==
  /\ Init
  /\ obtained = [d \in Reader |-> [r \in Ref |-> None]]

Obtain(d, r) ==
  /\ versions[r] # None
  /\ obtained[d][r] = None
  /\ obtained' = [obtained EXCEPT ![d][r] = versions[r]]
  /\ UNCHANGED versions

DistributionNext ==
  \/ Next /\ UNCHANGED obtained
  \/ \E d \in Reader, r \in Ref : Obtain(d, r)

DistributionSpec ==
  DistributionInit /\ [][DistributionNext]_<<versions, obtained>>
===============================================================================
