--------------------------- MODULE BlobStreamProofs ----------------------------
(***************************************************************************)
(* Proofs about BlobStream, for every number of chunks and every size of    *)
(* the buffer.                                                              *)
(*                                                                         *)
(* Conserved says where the chunks are that the adapter was handed; Phases  *)
(* how far the two streams can be apart; Room that whoever may put a chunk  *)
(* into the buffer finds room for it.  Left counts what a pipeline may do.  *)
(***************************************************************************)
EXTENDS BlobStream, TLAPS

\* A chunk that was handed over waits or has arrived, unless the stream it was for is
\* being destroyed.
Conserved ==
  /\ carried + buffer <= sent
  /\ way = "read" \/ drive \in {"open", "ending", "ended"} => sent = carried + buffer

\* The Node stream gets as far as the drive's stream lets it.
Phases ==
  /\ node \in {"drain", "final", "finished"} => way = "write"
  /\ node = "ended" => way = "read"
  /\ node \in {"final", "finished", "ended"} => sent = total
  /\ node = "finished" => carried = total
  /\ node \in {"finished", "ended"} => drive \in {"ended", "closed"}
  /\ drive = "ending" => way = "write" /\ node = "final"
  /\ drive = "ended" => sent = total
  /\ drive = "ended" /\ way = "write" => buffer = 0

\* A stream that is not told to wait has room.
Room ==
  /\ BackPressure
  /\ way = "write" /\ node = "open" /\ drive = "open" => buffer < HighWater
  /\ way = "read" /\ flowing => buffer < HighWater

Ends == (Settled <=> node = "destroyed") /\ NoStreamLeft

IInv == TypeOK /\ Conserved /\ Phases /\ Room /\ Ends

-------------------------------------------------------------------------------
\* The invariant holds when the pipeline starts.
LEMMA Initially == Init => IInv
<1> SUFFICES ASSUME Init PROVE IInv
  OBVIOUS
<1> USE BoundsAssumption DEF Init
<1>1. TypeOK
  <2>1. flowing \in BOOLEAN
    BY Z3
  <2>2. way \in {"write", "read"} /\ total \in 0..MaxTotal /\ outcome = "none"
    OBVIOUS
  <2>3. sent = 0 /\ buffer = 0 /\ carried = 0
    OBVIOUS
  <2>4. node = "open" /\ drive = "open" /\ broken \in BOOLEAN
    OBVIOUS
  <2> HIDE DEF Init
  <2> QED
    BY <2>1, <2>2, <2>3, <2>4 DEF TypeOK
<1>2. Conserved /\ Phases /\ Ends
  BY DEF Conserved, Phases, Ends, NoStreamLeft, Settled
<1>3. Room
  BY DEF Room, BackPressure
<1> QED
  BY <1>1, <1>2, <1>3 DEF IInv

\* Every handler and event keeps the invariant.
LEMMA Inductive == IInv /\ [Next]_vars => IInv'
<1> SUFFICES ASSUME IInv, [Next]_vars PROVE IInv'
  OBVIOUS
<1> USE BoundsAssumption DEF IInv, TypeOK, Conserved, Phases, Room, BackPressure, Ends,
    NoStreamLeft, Settled, given
<1>1. CASE Write
  BY <1>1 DEF Write
<1>2. CASE Flush
  BY <1>2 DEF Flush
<1>3. CASE Final
  BY <1>3 DEF Final
<1>4. CASE Finish
  BY <1>4 DEF Finish
<1>5. CASE Data
  <2>1. /\ way = "read" /\ drive = "open" /\ sent < total
        /\ sent' = sent + 1 /\ buffer' = buffer + 1
        /\ UNCHANGED <<way, total, carried, node, drive, broken, outcome>>
    BY <1>5 DEF Data
  <2>2. flowing /\ flowing' = (buffer + 1 < HighWater)
    BY <1>5, Zenon DEF Data
  <2>3. flowing' \in BOOLEAN
    BY <2>2, Z3
  <2>4. flowing' => buffer' < HighWater
    BY <2>1, <2>2
  <2>5. TypeOK'
    BY <2>1, <2>3
  <2>6. Conserved' /\ Phases' /\ Ends'
    BY <2>1
  <2>7. BackPressure'
    BY <2>1, <2>2
  <2>8. Room'
    BY <2>1, <2>4, <2>7
  <2> QED
    BY <2>5, <2>6, <2>8
<1>6. CASE Read
  BY <1>6 DEF Read
<1>7. CASE Take
  BY <1>7 DEF Take
<1>8. CASE End
  BY <1>8 DEF End
<1>9. CASE DriveFails
  BY <1>9 DEF DriveFails
<1>10. CASE Closes
  BY <1>10 DEF Closes
<1>11. CASE Abort
  BY <1>11 DEF Abort
<1>12. CASE Succeed
  BY <1>12 DEF Succeed
<1>13. CASE UNCHANGED vars
  BY <1>13 DEF vars
<1> QED
  BY <1>1, <1>2, <1>3, <1>4, <1>5, <1>6, <1>7, <1>8, <1>9, <1>10, <1>11, <1>12, <1>13
  DEF Next, Handle

\* It holds in every reachable state.
LEMMA Invariant == Spec => []IInv
  BY Initially, Inductive, PTL DEF Spec

\* The counts stay within the number of chunks, and every stream has one of its states.
THEOREM TypeCorrect == Spec => []TypeOK
  BY Invariant, PTL DEF IInv

\* write waits for drain, and data for read: never more than a full buffer waits.
THEOREM NeverOverfull == Spec => []BackPressure
  BY Invariant, PTL DEF IInv, Room

\* However the pipeline settled, the drive's stream has ended or is destroyed.
THEOREM NoLeak == Spec => []NoStreamLeft
  BY Invariant, PTL DEF IInv, Ends

-------------------------------------------------------------------------------
\* A step carries one chunk, settles the pipeline, or is none of its business.
LEMMA StepMaps == IInv /\ [Next]_vars => [Pipeline!Next]_(Pipeline!vars)
<1> SUFFICES ASSUME IInv, [Next]_vars PROVE [Pipeline!Next]_(Pipeline!vars)
  OBVIOUS
<1> USE DEF IInv, TypeOK, Conserved, Phases, Ends, NoStreamLeft, Settled, given,
    Pipeline!Next, Pipeline!Carry, Pipeline!Succeed, Pipeline!Fail, Pipeline!vars
<1>1. CASE Flush
  BY <1>1 DEF Flush
<1>2. CASE Take
  BY <1>2 DEF Take
<1>3. CASE Closes
  BY <1>3 DEF Closes
<1>4. CASE Abort
  BY <1>4 DEF Abort
<1>5. CASE Succeed
  BY <1>5 DEF Succeed
<1>6. CASE Write \/ Final \/ Finish \/ Read \/ Data \/ End \/ DriveFails
  BY <1>6 DEF Write, Final, Finish, Read, Data, End, DriveFails
<1>7. CASE UNCHANGED vars
  BY <1>7 DEF vars
<1> QED
  BY <1>1, <1>2, <1>3, <1>4, <1>5, <1>6, <1>7 DEF Next, Handle

\* Whatever order the events come in, success means that everything has arrived: the
\* joined streams implement one transfer.
THEOREM Refines == Spec => ImplementsTransfer
<1>1. Init => Pipeline!Init
  BY BoundsAssumption DEF Init, Pipeline!Init
<1> QED
  BY <1>1, Invariant, StepMaps, PTL DEF Spec, ImplementsTransfer, Pipeline!Spec

-------------------------------------------------------------------------------
(* The steps of a pipeline are numbered.                                   *)

NodeSteps ==
  [open |-> 3, drain |-> 3, final |-> 2, finished |-> 1, ended |-> 1, destroyed |-> 0]

DriveSteps == [open |-> 3, ending |-> 2, ended |-> 1, destroyed |-> 1, closed |-> 0]

\* A chunk is handed over, waits and arrives, and may pause a download once.
Left ==
  3 * (total - sent) + buffer + (IF flowing THEN 0 ELSE 1) + NodeSteps[node]
    + DriveSteps[drive]

\* Every step, of the streams, the network or a failure, leaves less to do: drain and
\* pause, resume and read do not follow each other for ever without a chunk.
StepsNumbered == [][Left' < Left]_vars

\* What is left is a number.
LEMMA LeftIsNumber == TypeOK => Left \in Nat
<1> SUFFICES ASSUME TypeOK PROVE Left \in Nat
  OBVIOUS
<1>1. NodeSteps[node] \in 0..3 /\ DriveSteps[drive] \in 0..3
  BY DEF TypeOK, NodeSteps, DriveSteps
<1>2. total - sent \in Nat /\ buffer \in Nat
  BY BoundsAssumption DEF TypeOK
<1> QED
  BY <1>1, <1>2 DEF Left

\* Each of them leaves less.
LEMMA EachStepIsNearer == IInv /\ Next => Left' < Left
<1> SUFFICES ASSUME IInv, Next PROVE Left' < Left
  OBVIOUS
<1> USE BoundsAssumption DEF IInv, TypeOK, Left, NodeSteps, DriveSteps, given
<1>1. CASE Write
  BY <1>1 DEF Write
<1>2. CASE Flush
  BY <1>2 DEF Flush
<1>3. CASE Final
  BY <1>3 DEF Final, Phases
<1>4. CASE Finish
  BY <1>4 DEF Finish, Phases
<1>5. CASE Data
  <2>1. /\ sent < total /\ sent' = sent + 1 /\ buffer' = buffer + 1
        /\ UNCHANGED <<total, node, drive>>
    BY <1>5 DEF Data
  <2>2. flowing
    BY <1>5, Zenon DEF Data
  <2>3. (IF flowing THEN 0 ELSE 1) = 0 /\ (IF flowing' THEN 0 ELSE 1) \in {0, 1}
    BY <2>2, Zenon
  <2> QED
    BY <2>1, <2>3
<1>6. CASE Read
  BY <1>6 DEF Read
<1>7. CASE Take
  BY <1>7 DEF Take
<1>8. CASE End
  BY <1>8 DEF End
<1>9. CASE DriveFails
  BY <1>9 DEF DriveFails
<1>10. CASE Closes
  BY <1>10 DEF Closes
<1>11. CASE Abort
  BY <1>11 DEF Abort, Ends, Settled
<1>12. CASE Succeed
  BY <1>12 DEF Succeed
<1> QED
  BY <1>1, <1>2, <1>3, <1>4, <1>5, <1>6, <1>7, <1>8, <1>9, <1>10, <1>11, <1>12
  DEF Next, Handle

\* A pipeline takes boundedly many steps, whatever the order of its events.
THEOREM StepsAreNumbered == Spec => StepsNumbered
<1>1. IInv /\ [Next]_vars => [Left' < Left]_vars
  BY EachStepIsNearer
<1> QED
  BY <1>1, Invariant, PTL DEF Spec, StepsNumbered
===============================================================================
