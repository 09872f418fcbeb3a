---------------------------- MODULE AsyncWorkProofs ----------------------------
(***************************************************************************)
(* Proofs about AsyncWork, for every set of requests and records and every  *)
(* number of threads.                                                       *)
(*                                                                         *)
(* Linked says that Node-API's works are those on the list and the one      *)
(* being queued; Unique that no two are of one request, which is what       *)
(* searching the list is for although a new record is queued before it is   *)
(* linked; Owed that the addon is owed the completion of a linked record,   *)
(* so that it has not freed the request.                                    *)
(***************************************************************************)
EXTENDS AsyncWork, TLAPS

Linked ==
  /\ Outstanding = pending \cup ({queueing} \ {None})
  /\ queueing \notin pending
  /\ \A w \in Record : state[w] = "called" <=> w = completing

Unique ==
  /\ \A w \in Outstanding : request[w] \in Request
  /\ \A v, w \in Outstanding : request[v] = request[w] => v = w

Owed == \A w \in pending : owed[request[w]]

IInv == TypeOK /\ Linked /\ Unique /\ Owed /\ RequestRetained

-------------------------------------------------------------------------------
\* The invariant holds before any call.
LEMMA Initially == Init => IInv
<1> SUFFICES ASSUME Init PROVE IInv
  OBVIOUS
<1> USE NoneAssumption DEF Init
<1>1. TypeOK
  BY DEF TypeOK, States
<1>2. Outstanding = {}
  BY DEF Outstanding
<1>3. Linked /\ Unique /\ Owed /\ RequestRetained
  BY <1>2 DEF Linked, Unique, Owed, RequestRetained
<1> QED
  BY <1>1, <1>3 DEF IInv

\* Every call, callback and thread keeps the types.
LEMMA TypesKept == IInv /\ [Next]_vars => TypeOK'
<1> SUFFICES ASSUME IInv, [Next]_vars PROVE TypeOK'
  OBVIOUS
<1> USE NoneAssumption DEF IInv, TypeOK, Linked, Unique, Outstanding, States, Answers, Hears
<1>1. ASSUME NEW r \in Request, QueueBusy(r) \/ QueueFails(r) \/ CancelUnknown(r)
      PROVE  TypeOK'
  BY <1>1 DEF QueueBusy, QueueFails, CancelUnknown
<1>2. ASSUME NEW r \in Request, Free(r) \/ Allocate(r) PROVE TypeOK'
  <2>1. CASE Free(r)
    BY <2>1 DEF Free
  <2>2. CASE Allocate(r)
    BY <2>2 DEF Allocate
  <2> QED
    BY <1>2, <2>1, <2>2
<1>3. ASSUME NEW r \in Request, NEW w \in Record, Queue(r, w) PROVE TypeOK'
  BY <1>3 DEF Queue
<1>4. ASSUME NEW w \in Record, Link(w) PROVE TypeOK'
  BY <1>4 DEF Link
<1>5. ASSUME NEW w \in Record, Cancel(w) PROVE TypeOK'
  BY <1>5 DEF Cancel
<1>6. ASSUME NEW w \in Record, Start(w) \/ End(w) PROVE TypeOK'
  BY <1>6 DEF Start, End
<1>7. ASSUME NEW w \in Record, Complete(w) PROVE TypeOK'
  BY <1>7 DEF Complete
<1>8. ASSUME NEW w \in Record, Return(w) PROVE TypeOK'
  BY <1>8 DEF Return
<1>9. CASE UNCHANGED vars
  BY <1>9 DEF vars
<1> QED
  BY <1>1, <1>2, <1>3, <1>4, <1>5, <1>6, <1>7, <1>8, <1>9 DEF Next

\* Every call, callback and thread keeps the rest of the invariant.
LEMMA Inductive == IInv /\ [Next]_vars => IInv'
<1> SUFFICES ASSUME IInv, [Next]_vars PROVE IInv'
  OBVIOUS
<1>0. TypeOK'
  BY TypesKept
<1> SUFFICES Linked' /\ Unique' /\ Owed' /\ RequestRetained'
  BY <1>0 DEF IInv
<1> USE NoneAssumption DEF IInv, TypeOK, Linked, Unique, Owed, RequestRetained, Outstanding
<1>1. ASSUME NEW r \in Request, QueueBusy(r) \/ QueueFails(r) \/ CancelUnknown(r)
      PROVE  Linked' /\ Unique' /\ Owed' /\ RequestRetained'
  BY <1>1 DEF QueueBusy, QueueFails, CancelUnknown
<1>2. ASSUME NEW r \in Request, Free(r) \/ Allocate(r)
      PROVE  Linked' /\ Unique' /\ Owed' /\ RequestRetained'
  BY <1>2 DEF Free, Allocate
<1>3. ASSUME NEW r \in Request, NEW w \in Record, Queue(r, w)
      PROVE  Linked' /\ Unique' /\ Owed' /\ RequestRetained'
  BY <1>3 DEF Queue, IsPending
<1>4. ASSUME NEW w \in Record, Link(w)
      PROVE  Linked' /\ Unique' /\ Owed' /\ RequestRetained'
  BY <1>4 DEF Link
<1>5. ASSUME NEW w \in Record, Cancel(w)
      PROVE  Linked' /\ Unique' /\ Owed' /\ RequestRetained'
  BY <1>5 DEF Cancel
<1>6. ASSUME NEW w \in Record, Start(w) \/ End(w)
      PROVE  Linked' /\ Unique' /\ Owed' /\ RequestRetained'
  BY <1>6 DEF Start, End
<1>7. ASSUME NEW w \in Record, Complete(w)
      PROVE  Linked' /\ Unique' /\ Owed' /\ RequestRetained'
  BY <1>7 DEF Complete
<1>8. ASSUME NEW w \in Record, Return(w)
      PROVE  Linked' /\ Unique' /\ Owed' /\ RequestRetained'
  BY <1>8 DEF Return
<1>9. CASE UNCHANGED vars
  BY <1>9 DEF vars
<1> QED
  BY <1>1, <1>2, <1>3, <1>4, <1>5, <1>6, <1>7, <1>8, <1>9 DEF Next

\* It holds in every reachable state.
LEMMA Invariant == Spec => []IInv
  BY Initially, Inductive, PTL DEF Spec

\* Records, requests and answers keep their types.
THEOREM TypeCorrect == Spec => []TypeOK
  BY Invariant, PTL DEF IInv

\* No thread and no completion meets a request that the addon has freed.
THEOREM NoUseAfterFree == Spec => []RequestRetained
  BY Invariant, PTL DEF IInv

\* The list has every record that is in memory, but for the two in hand.
THEOREM NoLeak == Spec => []NoRecordLost
<1>1. IInv => NoRecordLost
  BY NoneAssumption DEF IInv, TypeOK, States, Linked, Outstanding, NoRecordLost
<1> QED
  BY <1>1, Invariant, PTL

-------------------------------------------------------------------------------
\* A request is in the phase of its work, if it has one.
PhaseKnown ==
  \A r \in Request :
    /\ \A w \in Outstanding : request[w] = r => PhaseOf(r) = state[w]
    /\ (\A w \in Outstanding : request[w] # r) => PhaseOf(r) = "idle"

\* The invariant gives each request one phase.
LEMMA Phases == IInv => PhaseKnown
<1> SUFFICES ASSUME IInv, NEW r \in Request
             PROVE  /\ \A w \in Outstanding : request[w] = r => PhaseOf(r) = state[w]
                    /\ (\A w \in Outstanding : request[w] # r) => PhaseOf(r) = "idle"
  BY DEF PhaseKnown
<1>1. ASSUME NEW w \in Outstanding, request[w] = r PROVE PhaseOf(r) = state[w]
  <2>1. \A v \in Outstanding : request[v] = r => v = w
    BY <1>1 DEF IInv, Unique
  <2>2. (CHOOSE v \in Outstanding : request[v] = r) = w
    BY <1>1, <2>1
  <2> QED
    BY <1>1, <2>2 DEF PhaseOf
<1>2. ASSUME \A w \in Outstanding : request[w] # r PROVE PhaseOf(r) = "idle"
  BY <1>2 DEF PhaseOf
<1> QED
  BY <1>1, <1>2

\* A step of one work from one outstanding state to another is a move of its request.
LEMMA StateStep ==
  ASSUME IInv, IInv', NEW w \in Outstanding,
         NEW to \in {"queued", "running", "ran", "cancelled"},
         state' = [state EXCEPT ![w] = to], request' = request
  PROVE  /\ request[w] \in Request
         /\ PhaseOf(request[w]) = state[w]
         /\ [r \in Request |-> PhaseOf(r)]' =
              [[r \in Request |-> PhaseOf(r)] EXCEPT ![request[w]] = to]
<1>1. PhaseKnown /\ PhaseKnown'
  BY Phases, PTL
<1>2. request[w] \in Request /\ PhaseOf(request[w]) = state[w]
  BY <1>1 DEF PhaseKnown, IInv, Unique
<1>3. Outstanding' = Outstanding /\ state'[w] = to
  BY DEF Outstanding, IInv, TypeOK
<1>4. ASSUME NEW r \in Request, r # request[w] PROVE PhaseOf(r)' = PhaseOf(r)
  <2>1. CASE \E v \in Outstanding : request[v] = r
    <3>1. PICK v \in Outstanding : request[v] = r
      BY <2>1
    <3>2. state'[v] = state[v]
      BY <1>4, <3>1 DEF IInv, TypeOK, Outstanding
    <3> QED
      BY <1>1, <1>3, <3>1, <3>2 DEF PhaseKnown
  <2>2. CASE \A v \in Outstanding : request[v] # r
    BY <1>1, <1>3, <2>2 DEF PhaseKnown
  <2> QED
    BY <2>1, <2>2
<1>5. PhaseOf(request[w])' = to
  BY <1>1, <1>2, <1>3 DEF PhaseKnown
<1> QED
  BY <1>2, <1>4, <1>5

\* The phases, as the abstract queue sees them.
phases == [r \in Request |-> PhaseOf(r)]

\* A call that changes no work changes no phase.
LEMMA NoStateStep ==
  ASSUME state' = state, request' = request PROVE phases' = phases
  BY DEF phases, PhaseOf, Outstanding

\* Between two calls of the environment thread, a request is idle iff it has no record.
LEMMA Between ==
  ASSUME IInv, queueing = None, NEW r \in Request
  PROVE  IsPending(r) <=> phases[r] # "idle"
<1>1. PhaseKnown
  BY Phases
<1>2. Outstanding = pending
  BY NoneAssumption DEF IInv, Linked
<1>3. \A w \in Outstanding : state[w] # "idle"
  BY DEF Outstanding
<1> QED
  BY <1>1, <1>2, <1>3 DEF IsPending, PhaseKnown, phases

\* Queueing takes an idle request to its first phase.
LEMMA QueueMaps ==
  ASSUME IInv, IInv', NEW r \in Request, NEW w \in Record, Queue(r, w)
  PROVE  phases[r] = "idle" /\ phases' = [phases EXCEPT ![r] = "queued"]
<1>1. PhaseKnown /\ PhaseKnown'
  BY Phases, PTL
<1>2. phases[r] = "idle"
  BY Between DEF Queue, phases, PhaseOf, Outstanding
<1>3. Outstanding' = Outstanding \cup {w} /\ state'[w] = "queued" /\ request'[w] = r
  BY DEF Outstanding, IInv, TypeOK, Queue
<1>4. w \notin Outstanding
  BY DEF Outstanding, Queue
<1>5. ASSUME NEW q \in Request, q # r PROVE PhaseOf(q)' = PhaseOf(q)
  <2>1. \A v \in Outstanding : state'[v] = state[v] /\ request'[v] = request[v]
    BY <1>4 DEF Queue, IInv, TypeOK, Outstanding
  <2> QED
    BY <1>1, <1>3, <1>5, <2>1 DEF PhaseKnown
<1>6. PhaseOf(r)' = "queued"
  BY <1>1, <1>3 DEF PhaseKnown
<1> QED
  BY <1>2, <1>5, <1>6 DEF phases

\* Completing takes its request back to idle.
LEMMA CompleteMaps ==
  ASSUME IInv, IInv', NEW w \in Record, Complete(w)
  PROVE  /\ request[w] \in Request
         /\ phases[request[w]] = state[w]
         /\ phases' = [phases EXCEPT ![request[w]] = "idle"]
<1>1. PhaseKnown /\ PhaseKnown'
  BY Phases, PTL
<1>2. w \in Outstanding
  BY DEF Outstanding, Complete
<1>3. request[w] \in Request /\ phases[request[w]] = state[w]
  BY <1>1, <1>2 DEF PhaseKnown, IInv, Unique, phases
<1>4. Outstanding' = Outstanding \ {w}
  BY DEF Outstanding, IInv, TypeOK, Complete
<1>5. \A v \in Outstanding \ {w} : state'[v] = state[v] /\ request[v] # request[w]
  BY <1>2 DEF Complete, IInv, TypeOK, Unique, Outstanding
<1>6. request' = request
  BY DEF Complete
<1>7. ASSUME NEW q \in Request, q # request[w] PROVE PhaseOf(q)' = PhaseOf(q)
  BY <1>1, <1>4, <1>5, <1>6, <1>7 DEF PhaseKnown
<1>8. PhaseOf(request[w])' = "idle"
  BY <1>1, <1>3, <1>4, <1>5, <1>6 DEF PhaseKnown
<1> QED
  BY <1>3, <1>6, <1>7, <1>8 DEF phases

\* Every step is one of the abstract queue, or none of its business.
LEMMA StepMaps == IInv /\ IInv' /\ [Next]_vars => [Requests!Next]_(Requests!vars)
<1> SUFFICES ASSUME IInv, IInv', [Next]_vars PROVE [Requests!Next]_(Requests!vars)
  OBVIOUS
<1> USE DEF Requests!Next, Requests!vars, Requests!Move, Requests!Hears, Hears, phases
<1>1. ASSUME NEW r \in Request, QueueBusy(r) PROVE Requests!Busy(r)
  BY <1>1, NoStateStep, Between DEF QueueBusy, Requests!Busy
<1>2. ASSUME NEW r \in Request, QueueFails(r) PROVE Requests!Refuse(r)
  BY <1>2, NoStateStep, Between DEF QueueFails, Requests!Refuse
<1>3. ASSUME NEW r \in Request, CancelUnknown(r) PROVE Requests!Unknown(r)
  BY <1>3, NoStateStep, Between DEF CancelUnknown, Requests!Unknown
<1>4. ASSUME NEW r \in Request, Free(r) \/ Allocate(r) PROVE UNCHANGED Requests!vars
  BY <1>4, NoStateStep DEF Free, Allocate
<1>5. ASSUME NEW r \in Request, NEW w \in Record, Queue(r, w) PROVE Requests!Submit(r)
  BY <1>5, QueueMaps DEF Queue, Requests!Submit
<1>6. ASSUME NEW w \in Record, Link(w)
      PROVE  request[w] \in Request /\ Requests!Accept(request[w])
  <2>1. w \in Outstanding
    BY <1>6, NoneAssumption DEF Link, IInv, Linked
  <2>2. request[w] \in Request /\ phases[request[w]] = state[w] /\ state[w] # "idle"
    BY <2>1, Phases DEF PhaseKnown, IInv, Unique, Outstanding
  <2> QED
    BY <1>6, <2>2, NoStateStep DEF Link, Requests!Accept
<1>7. ASSUME NEW w \in Record, Cancel(w)
      PROVE  /\ request[w] \in Request
             /\ Requests!Cancel(request[w]) \/ Requests!TooLate(request[w])
  <2>1. w \in Outstanding
    BY <1>7 DEF Cancel, IInv, Linked
  <2>2. CASE state[w] = "queued"
    BY <1>7, <2>1, <2>2, StateStep DEF Cancel, Requests!Cancel
  <2>3. CASE state[w] # "queued"
    <3>1. request[w] \in Request /\ phases[request[w]] = state[w] /\ state[w] # "idle"
      BY <2>1, Phases DEF PhaseKnown, IInv, Unique, Outstanding
    <3> QED
      BY <1>7, <2>3, <3>1, NoStateStep DEF Cancel, Requests!TooLate
  <2> QED
    BY <2>2, <2>3
<1>8. ASSUME NEW w \in Record, Start(w)
      PROVE  request[w] \in Request /\ Requests!Start(request[w])
  <2>1. w \in Outstanding
    BY <1>8 DEF Start, Outstanding
  <2> QED
    BY <1>8, <2>1, StateStep DEF Start, Requests!Start
<1>9. ASSUME NEW w \in Record, End(w)
      PROVE  request[w] \in Request /\ Requests!End(request[w])
  <2>1. w \in Outstanding
    BY <1>9 DEF End, Outstanding
  <2> QED
    BY <1>9, <2>1, StateStep DEF End, Requests!End
<1>10. ASSUME NEW w \in Record, Complete(w)
       PROVE  /\ request[w] \in Request
              /\ Requests!Done(request[w]) \/ Requests!Cancelled(request[w])
  BY <1>10, CompleteMaps DEF Complete, Requests!Done, Requests!Cancelled
<1>11. ASSUME NEW w \in Record, Return(w) PROVE UNCHANGED Requests!vars
  <2>1. w \notin Outstanding /\ Outstanding' = Outstanding
    BY <1>11 DEF Return, IInv, Linked, TypeOK, Outstanding
  <2>2. \A v \in Outstanding : state'[v] = state[v] /\ request'[v] = request[v]
    BY <1>11, <2>1 DEF Return, IInv, TypeOK, Outstanding
  <2>3. PhaseKnown /\ PhaseKnown'
    BY Phases, PTL
  <2>4. \A r \in Request : PhaseOf(r)' = PhaseOf(r)
    BY <2>1, <2>2, <2>3 DEF PhaseKnown
  <2> QED
    BY <1>11, <2>4 DEF Return
<1>12. CASE UNCHANGED vars
  BY <1>12, NoStateStep DEF vars
<1> QED
  BY <1>1, <1>2, <1>3, <1>4, <1>5, <1>6, <1>7, <1>8, <1>9, <1>10, <1>11, <1>12 DEF Next

\* Each accepted request runs or is cancelled and is completed once, with the status
\* that is true of it, whatever the threads and the addon do meanwhile.
THEOREM Refines == Spec => ImplementsRequests
<1>1. Init => Requests!Init
  <2> SUFFICES ASSUME Init PROVE Requests!Init
    OBVIOUS
  <2>1. Outstanding = {}
    BY DEF Init, Outstanding
  <2> QED
    BY <2>1 DEF Init, PhaseOf, Requests!Init
<1> QED
  BY <1>1, Invariant, StepMaps, PTL DEF Spec, ImplementsRequests, Requests!Spec
===============================================================================
