------------------------------- MODULE Delivery --------------------------------
(***************************************************************************)
(* What the fetches of one artifact promise about their output path.  At    *)
(* most one of them delivers the artifact there, whole, in one step, if     *)
(* nothing is there and it has not ended; what is there stays.  Each ends   *)
(* once, and succeeds only if the output is its own.                        *)
(***************************************************************************)
CONSTANTS
  Cmd,       \* commands
  Content,   \* what an artifact's bytes can be
  Foreign,   \* what another program may put at the output path
  None       \* "nothing"

VARIABLES
  genuine,   \* the bytes that the artifact's manifest describes, if there are any
  output,    \* what is at the output path
  ending     \* how each command ended

Init ==
  /\ genuine = {} \/ \E bytes \in Content : genuine = {bytes}
  /\ output = None
  /\ ending = [f \in Cmd |-> "none"]

Deliver(f, bytes) ==
  /\ ending[f] = "none"
  /\ output = None
  /\ output' = [by |-> f, bytes |-> bytes]
  /\ UNCHANGED <<genuine, ending>>

Occupy ==
  /\ output = None
  /\ output' = Foreign
  /\ UNCHANGED <<genuine, ending>>

Succeed(f) ==
  /\ ending[f] = "none"
  /\ \E bytes \in genuine : output = [by |-> f, bytes |-> bytes]
  /\ ending' = [ending EXCEPT ![f] = "ok"]
  /\ UNCHANGED <<genuine, output>>

Fail(f) ==
  /\ ending[f] = "none"
  /\ \E how \in {"failed", "killed"} : ending' = [ending EXCEPT ![f] = how]
  /\ UNCHANGED <<genuine, output>>

Next ==
  \/ \E f \in Cmd : (\E bytes \in genuine : Deliver(f, bytes)) \/ Succeed(f) \/ Fail(f)
  \/ Occupy

Spec == Init /\ [][Next]_<<genuine, output, ending>>
===============================================================================
