----------------------------- MODULE WorkRequests ------------------------------
(***************************************************************************)
(* What queueing and cancelling native work promises its caller, in terms   *)
(* of requests alone: a request runs at most once for each time it was      *)
(* accepted, a cancelled one does not run, and the completion is heard once *)
(* and says which of the two it was.                                        *)
(***************************************************************************)
CONSTANTS Request, Silence

VARIABLES
  phase,  \* "idle", "queued", "running", "ran" or "cancelled"
  heard   \* the last answer or completion the caller got

vars == <<phase, heard>>

Hears(r, what) == heard' = [request |-> r, what |-> what]

Move(r, from, to) ==
  /\ phase[r] \in from
  /\ phase' = [phase EXCEPT ![r] = to]

Init == phase = [r \in Request |-> "idle"] /\ heard = Silence

Submit(r) == Move(r, {"idle"}, "queued") /\ UNCHANGED heard
Start(r) == Move(r, {"queued"}, "running") /\ UNCHANGED heard
End(r) == Move(r, {"running"}, "ran") /\ UNCHANGED heard

\* The answers of queueing.
Accept(r) == phase[r] # "idle" /\ Hears(r, "accepted") /\ UNCHANGED phase
Busy(r) == phase[r] # "idle" /\ Hears(r, "EBUSY") /\ UNCHANGED phase
Refuse(r) == phase[r] = "idle" /\ Hears(r, "refused") /\ UNCHANGED phase

\* The answers of cancelling.
Cancel(r) == Move(r, {"queued"}, "cancelled") /\ Hears(r, "cancelled")
TooLate(r) == phase[r] \notin {"idle", "queued"} /\ Hears(r, "EBUSY") /\ UNCHANGED phase
Unknown(r) == phase[r] = "idle" /\ Hears(r, "EINVAL") /\ UNCHANGED phase

\* The completion.
Done(r) == Move(r, {"ran"}, "idle") /\ Hears(r, "done")
Cancelled(r) == Move(r, {"cancelled"}, "idle") /\ Hears(r, "ECANCELED")

Next ==
  \E r \in Request :
    \/ Submit(r) \/ Start(r) \/ End(r)
    \/ Accept(r) \/ Busy(r) \/ Refuse(r)
    \/ Cancel(r) \/ TooLate(r) \/ Unknown(r)
    \/ Done(r) \/ Cancelled(r)

Spec == Init /\ [][Next]_vars
===============================================================================
