------------------------------- MODULE AsyncWork -------------------------------
(***************************************************************************)
(* The work queue of the Bun experiment: uv_queue_work and uv_cancel mapped *)
(* to Node-API's asynchronous work.  The environment thread queues, cancels *)
(* and completes; background threads execute.  Each accepted request has a  *)
(* record, linked in a list of the environment thread until its completion. *)
(* A request belongs to the addon, which may free it or queue it again as   *)
(* soon as its completion has been called, from within that call too.       *)
(***************************************************************************)
EXTENDS Integers, FiniteSets

CONSTANTS
  Request,  \* addresses of requests
  Record,   \* bound: records in memory at once
  Threads,  \* background threads
  None

ASSUME NoneAssumption == None \notin Record /\ None \notin Request

VARIABLES
  state,       \* what Node-API knows of each record: "free" if it is not allocated
  request,     \* the request of each record
  pending,     \* the records linked in the list
  queueing,    \* the record queued in Node-API but not linked yet, or None
  completing,  \* the record whose completion is being called, or None
  alive,       \* whether there is a request at each address
  owed,        \* whether the addon is owed the completion of its request
  heard        \* the last answer or completion the addon got

vars == <<state, request, pending, queueing, completing, alive, owed, heard>>

Hears(r, what) == heard' = [request |-> r, what |-> what]

Init ==
  /\ state = [w \in Record |-> "free"]
  /\ request = [w \in Record |-> None]
  /\ pending = {}
  /\ queueing = None
  /\ completing = None
  /\ alive = [r \in Request |-> TRUE]
  /\ owed = [r \in Request |-> FALSE]
  /\ heard = None

IsPending(r) == \E w \in pending : request[w] = r

-------------------------------------------------------------------------------
(* relayjs_queue_work.                                                     *)

QueueBusy(r) ==
  /\ queueing = None /\ alive[r]
  /\ IsPending(r)
  /\ Hears(r, "EBUSY")
  /\ UNCHANGED <<state, request, pending, queueing, completing, alive, owed>>

\* UV_ENOMEM, or UV_EIO with the record freed again.
QueueFails(r) ==
  /\ queueing = None /\ alive[r]
  /\ ~IsPending(r)
  /\ Hears(r, "refused")
  /\ UNCHANGED <<state, request, pending, queueing, completing, alive, owed>>

\* Mutant: the list is not searched.
QueueUnchecked(r, w) ==
  /\ queueing = None /\ alive[r]
  /\ state[w] = "free"
  /\ state' = [state EXCEPT ![w] = "queued"]
  /\ request' = [request EXCEPT ![w] = r]
  /\ queueing' = w
  /\ UNCHANGED <<pending, completing, alive, owed, heard>>

\* napi_queue_async_work: from here on a background thread may take the record.
Queue(r, w) ==
  /\ queueing = None /\ alive[r]
  /\ ~IsPending(r)
  /\ state[w] = "free"
  /\ state' = [state EXCEPT ![w] = "queued"]
  /\ request' = [request EXCEPT ![w] = r]
  /\ queueing' = w
  /\ UNCHANGED <<pending, completing, alive, owed, heard>>

\* The record is linked, and the call returns 0.
Link(w) ==
  /\ queueing = w
  /\ queueing' = None
  /\ pending' = pending \cup {w}
  /\ owed' = [owed EXCEPT ![request[w]] = TRUE]
  /\ Hears(request[w], "accepted")
  /\ UNCHANGED <<state, request, completing, alive>>

-------------------------------------------------------------------------------
(* relayjs_cancel.                                                         *)

\* Mutant: a cancelled work is unlinked at once.
CancelUnlinks(w) ==
  /\ queueing = None
  /\ w \in pending
  /\ IF state[w] = "queued"
     THEN /\ state' = [state EXCEPT ![w] = "cancelled"]
          /\ pending' = pending \ {w}
          /\ Hears(request[w], "cancelled")
     ELSE UNCHANGED <<state, pending>> /\ Hears(request[w], "EBUSY")
  /\ UNCHANGED <<request, queueing, completing, alive, owed>>

\* napi_cancel_async_work takes back what no thread has started; it refuses what is
\* running, done, or cancelled already.
Cancel(w) ==
  /\ queueing = None
  /\ w \in pending
  /\ IF state[w] = "queued"
     THEN state' = [state EXCEPT ![w] = "cancelled"] /\ Hears(request[w], "cancelled")
     ELSE UNCHANGED state /\ Hears(request[w], "EBUSY")
  /\ UNCHANGED <<request, pending, queueing, completing, alive, owed>>

\* The address is compared only, so that it may be that of a freed request.
CancelUnknown(r) ==
  /\ queueing = None
  /\ ~IsPending(r)
  /\ Hears(r, "EINVAL")
  /\ UNCHANGED <<state, request, pending, queueing, completing, alive, owed>>

-------------------------------------------------------------------------------
(* execute, on a background thread.                                        *)

Start(w) ==
  /\ state[w] = "queued"
  /\ Cardinality({v \in Record : state[v] = "running"}) < Threads
  /\ state' = [state EXCEPT ![w] = "running"]
  /\ UNCHANGED <<request, pending, queueing, completing, alive, owed, heard>>

End(w) ==
  /\ state[w] = "running"
  /\ state' = [state EXCEPT ![w] = "ran"]
  /\ UNCHANGED <<request, pending, queueing, completing, alive, owed, heard>>

-------------------------------------------------------------------------------
(* complete, on the environment thread, between its other calls.           *)

\* Mutant: the record is unlinked after the upstream completion was called.
CompleteLinked(w) ==
  /\ queueing = None /\ completing = None
  /\ state[w] \in {"ran", "cancelled"}
  /\ completing' = w
  /\ owed' = [owed EXCEPT ![request[w]] = FALSE]
  /\ Hears(request[w], IF state[w] = "ran" THEN "done" ELSE "ECANCELED")
  /\ state' = [state EXCEPT ![w] = "called"]
  /\ UNCHANGED <<request, pending, queueing, alive>>

\* Mutant: a cancelled work is dropped without a completion.
CompleteRanOnly(w) ==
  /\ queueing = None /\ completing = None
  /\ state[w] = "ran"
  /\ pending' = pending \ {w}
  /\ completing' = w
  /\ owed' = [owed EXCEPT ![request[w]] = FALSE]
  /\ Hears(request[w], "done")
  /\ state' = [state EXCEPT ![w] = "called"]
  /\ UNCHANGED <<request, queueing, alive>>

\* Unlink the record, delete its handle and call the upstream completion.
Complete(w) ==
  /\ queueing = None /\ completing = None
  /\ state[w] \in {"ran", "cancelled"}
  /\ pending' = pending \ {w}
  /\ completing' = w
  /\ owed' = [owed EXCEPT ![request[w]] = FALSE]
  /\ Hears(request[w], IF state[w] = "ran" THEN "done" ELSE "ECANCELED")
  /\ state' = [state EXCEPT ![w] = "called"]
  /\ UNCHANGED <<request, queueing, alive>>

\* The upstream completion has returned: free the record.
Return(w) ==
  /\ queueing = None
  /\ completing = w
  /\ completing' = None
  /\ state' = [state EXCEPT ![w] = "free"]
  /\ request' = [request EXCEPT ![w] = None]
  /\ UNCHANGED <<pending, queueing, alive, owed, heard>>

-------------------------------------------------------------------------------
(* The addon.                                                              *)

\* It frees a request only if it is owed no completion of it.
Free(r) ==
  /\ queueing = None
  /\ alive[r] /\ ~owed[r]
  /\ alive' = [alive EXCEPT ![r] = FALSE]
  /\ UNCHANGED <<state, request, pending, queueing, completing, owed, heard>>

\* A new request gets the address.
Allocate(r) ==
  /\ queueing = None
  /\ ~alive[r]
  /\ alive' = [alive EXCEPT ![r] = TRUE]
  /\ UNCHANGED <<state, request, pending, queueing, completing, owed, heard>>

Next ==
  \/ \E r \in Request :
       \/ QueueBusy(r) \/ QueueFails(r) \/ CancelUnknown(r)
       \/ Free(r) \/ Allocate(r)
       \/ \E w \in Record : Queue(r, w)
  \/ \E w \in Record :
       \/ Link(w) \/ Cancel(w) \/ Start(w) \/ End(w) \/ Complete(w) \/ Return(w)

Spec == Init /\ [][Next]_vars

\* A call and a callback return, and a work that was started ends.  Threads take queued
\* works, and the environment thread takes finished ones, in their order: none is
\* passed over for ever.
FairSpec ==
  /\ Spec
  /\ \A w \in Record :
       /\ WF_vars(Link(w)) /\ WF_vars(End(w)) /\ WF_vars(Return(w))
       /\ SF_vars(Start(w)) /\ SF_vars(Complete(w))

-------------------------------------------------------------------------------
(* Properties.                                                             *)

States == {"free", "queued", "running", "ran", "cancelled", "called"}

Answers == {"accepted", "refused", "EBUSY", "EINVAL", "cancelled", "done", "ECANCELED"}

\* Every variable has its type.
TypeOK ==
  /\ state \in [Record -> States]
  /\ request \in [Record -> Request \cup {None}]
  /\ pending \in SUBSET Record
  /\ queueing \in Record \cup {None}
  /\ completing \in Record \cup {None}
  /\ alive \in [Request -> BOOLEAN]
  /\ owed \in [Request -> BOOLEAN]
  /\ heard \in [request : Request, what : Answers] \cup {None}

\* The records that Node-API has, between queueing and completion.
Outstanding == {w \in Record : state[w] \in {"queued", "running", "ran", "cancelled"}}

\* A request that a thread uses or may come to use, and one whose completion is still
\* to be called, has not been freed: the adapter calls no completion while anything
\* can touch the request (README: "It retains request data until completion").
RequestRetained == \A w \in Outstanding : alive[request[w]]

\* The records in memory are those on the list and the one being queued or completed:
\* none leaks, and the list has no freed one.
NoRecordLost ==
  {w \in Record : state[w] # "free"} = pending \cup ({queueing, completing} \ {None})

PhaseOf(r) ==
  IF \E w \in Outstanding : request[w] = r
  THEN state[CHOOSE w \in Outstanding : request[w] = r]
  ELSE "idle"

Requests == INSTANCE WorkRequests WITH
  Silence <- None,
  phase <- [r \in Request |-> PhaseOf(r)]

\* Each accepted request runs or is cancelled, and is completed once, with the status
\* that is true of it; EBUSY and EINVAL are said only of requests that are, or are not,
\* outstanding, although threads start works before they are linked and completions
\* queue their request again.
ImplementsRequests == Requests!Spec

\* The addon gets every completion it is owed.
EveryCompletionComes == \A r \in Request : owed[r] ~> ~owed[r]
===============================================================================
