--------------------------- MODULE NativeCheckProofs ---------------------------
(***************************************************************************)
(* Proofs about NativeCheck, for every sequence of probes.                  *)
(*                                                                         *)
(* Each place of the script tells what its probe's children have come to    *)
(* (Course) and where children may be (Housed); the probes behind it have   *)
(* passed, or the exit code says otherwise, or an acceptance will           *)
(* (Remembered); and it gets to its finally block without an error only     *)
(* behind its last probe or after a signal (Reached).                       *)
(***************************************************************************)
EXTENDS NativeCheck, TLAPS

AcceptanceAhead == \E j \in step..Len(Probe) : Probe[j] = "accept"

\* The holder has closed as the signal asks for, and the contender passed.
Released(i) ==
  /\ Probe[i] = "sigterm" => child[<<i, "holder">>] = "ok"
  /\ Probe[i] = "sigkill" => child[<<i, "holder">>] = "sigkilled"
  /\ Locking(i) => child[<<i, "contender">>] = "ok"

Course ==
  /\ Waiting => ~Finished
  /\ main \in {"ready", "contend", "stop"} => Locking(step)
  /\ main = "stop" => child[<<step, "contender">>] = "ok"
  /\ main = "wait" => Released(step)
  /\ main = "wait" /\ Probe[step] = "accept" => ~Blocked

Remembered ==
  /\ interrupted => exitCode # 0
  /\ \A i \in 1..(step - 1) :
       Probed(i) \/ exitCode # 0 \/ (Probe[i] = "report" /\ AcceptanceAhead)

Reached ==
  main \in {"cleanup", "reap", "done"} /\ ~thrown => Finished \/ interrupted

Housed ==
  /\ main \in {"start", "made", "done", "dead"} => Children = {}
  /\ main \notin {"start", "done", "dead"} => sandbox
  /\ main = "done" /\ sandbox => thrown

IInv == TypeOK /\ Course /\ Remembered /\ Reached /\ Housed

-------------------------------------------------------------------------------
(* Probes and children.                                                    *)

\* A probe that is not the acceptance leaves it ahead.
LEMMA AcceptanceStaysAhead ==
  ASSUME TypeOK, AcceptanceAhead, ~Finished, Probe[step] # "accept"
  PROVE  \E j \in (step + 1)..Len(Probe) : Probe[j] = "accept"
<1>1. Len(Probe) \in Nat /\ step \in Nat
  BY ProbeAssumption DEF TypeOK
<1>2. PICK j \in step..Len(Probe) : Probe[j] = "accept"
  BY DEF AcceptanceAhead
<1> QED
  BY <1>1, <1>2

\* A report has an acceptance ahead.
LEMMA ReportsAreBeforeAcceptance ==
  ASSUME TypeOK, ~Finished, Probe[step] = "report"
  PROVE  AcceptanceAhead
<1>1. Len(Probe) \in Nat /\ step \in 1..Len(Probe)
  BY ProbeAssumption DEF TypeOK, Finished
<1> QED
  BY <1>1, ProbeAssumption DEF AcceptanceAhead

\* The children of a probe are processes.
LEMMA ChildrenOfProbe ==
  ASSUME TypeOK, ~Finished, NEW c \in Role
  PROVE  <<step, c>> \in Process
  BY ProbeAssumption DEF TypeOK, Finished, Process

\* An error ends the body, and is dropped only after a signal.
LEMMA ThrowEnds ==
  TypeOK /\ Throw => main' = "cleanup" /\ thrown' \in BOOLEAN /\ (thrown' \/ interrupted)
<1> SUFFICES ASSUME interrupted \in BOOLEAN, Throw
             PROVE  thrown' \in BOOLEAN /\ (thrown' \/ interrupted)
  BY DEF TypeOK, Throw
<1> QED
  BY Zenon DEF Throw

\* Killing children leaves each of them alive no more, and closes none.
LEMMA KilledTypes ==
  ASSUME TypeOK, NEW some
  PROVE  /\ Killed(some) \in [Process -> {"none", "alive", "killed"} \cup Result]
         /\ \A p \in Process :
              child[p] \in Result \cup {"none"} => Killed(some)[p] = child[p]
         /\ \A p \in Process :
              Killed(some)[p] \in {"alive", "killed"} => child[p] \in {"alive", "killed"}
  BY DEF TypeOK, Killed, Result

\* A child of a probe in the past that has closed stays as it is.
LEMMA ResultsStay ==
  ASSUME TypeOK, [Next]_vars, Course, NEW i \in 1..(step - 1), NEW c \in Role,
         child[<<i, c>>] \in Result
  PROVE  child'[<<i, c>>] = child[<<i, c>>]
<1> DEFINE p == <<i, c>>
<1>0. Len(Probe) \in Nat /\ step \in 1..(Len(Probe) + 1)
  BY ProbeAssumption DEF TypeOK
<1>1. p \in Process /\ \A d \in Role : p # <<step, d>>
  BY <1>0 DEF Process
<1>k. \A some : Killed(some)[p] = child[p]
  BY <1>1, KilledTypes
<1>2. ASSUME NEW d \in Role, NEW then, Start(d, then) PROVE child'[p] = child[p]
  BY <1>1, <1>2 DEF Start, TypeOK
<1>3. CASE StartProbe \/ HolderReady \/ HolderClosed
  BY <1>2, <1>3 DEF StartProbe, HolderReady, HolderClosed, Role
<1>4. CASE TimeOut \/ StopHolder \/ Interrupt \/ Cleanup
  BY <1>4, <1>k DEF TimeOut, StopHolder, Interrupt, Cleanup
<1>5. CASE SpawnFails
  <2>1. p # Awaited
    BY <1>1 DEF Awaited, Role
  <2> QED
    BY <1>1, <1>5, <2>1 DEF SpawnFails, TypeOK
<1>6. ASSUME NEW q \in Process, ChildCloses(q) PROVE child'[p] = child[p]
  <2>1. p # q
    BY <1>6 DEF ChildCloses, Children, Result
  <2> QED
    BY <1>1, <1>6, <2>1 DEF ChildCloses, TypeOK
<1>7. CASE MakeSandbox \/ Arm \/ Passed \/ Failed \/ SkipAcceptance \/ EndBody \/ Reap
             \/ WorkFails \/ Die \/ UNCHANGED vars
  BY <1>7 DEF MakeSandbox, Arm, Passed, Failed, SkipAcceptance, EndBody, Reap, WorkFails,
     Die, vars
<1> QED
  BY <1>3, <1>4, <1>5, <1>6, <1>7 DEF Next, Script

-------------------------------------------------------------------------------
(* The invariant.                                                          *)

\* The invariant holds when the script starts.
LEMMA Initially == Init => IInv
<1>1. 1 \in 1..(Len(Probe) + 1) /\ 1..(1 - 1) = {}
  BY ProbeAssumption
<1> QED
  BY <1>1 DEF Init, IInv, TypeOK, Course, Waiting, Remembered, Reached, Housed, Children

\* Every step keeps the types.
LEMMA TypesKept == TypeOK /\ Course /\ [Next]_vars => TypeOK'
<1> SUFFICES ASSUME TypeOK, Course, [Next]_vars PROVE TypeOK'
  OBVIOUS
<1>0. Len(Probe) \in Nat
  BY ProbeAssumption
<1> DEFINE Child == [Process -> {"none", "alive", "killed"} \cup Result]
<1>t. Throw => main' = "cleanup" /\ thrown' \in BOOLEAN
  BY ThrowEnds
<1>k. \A some : Killed(some) \in Child
  BY KilledTypes
<1> USE DEF TypeOK, verdict, Finished
<1>1. CASE MakeSandbox
  <2>1. main' \in {"made", "done"} /\ thrown' \in BOOLEAN /\ sandbox' \in BOOLEAN
    BY <1>1 DEF MakeSandbox
  <2>2. UNCHANGED <<step, child, verdict>>
    BY <1>1 DEF MakeSandbox
  <2> QED
    BY <2>1, <2>2
<1>2. CASE Arm \/ EndBody \/ Die
  BY <1>2 DEF Arm, EndBody, Die
<1>3. ASSUME NEW c \in Role, NEW then \in {"ready", "contend", "wait"}, Start(c, then),
             UNCHANGED <<step, verdict, sandbox>>
      PROVE  TypeOK'
  BY <1>3, <1>t DEF Start
<1>4. CASE StartProbe \/ HolderReady
  BY <1>3, <1>4 DEF StartProbe, HolderReady, Role
<1>5. CASE HolderClosed
  <2>1. CASE Start("runner", "wait")
    BY <1>3, <1>5, <2>1 DEF HolderClosed, Role
  <2>2. CASE Throw /\ UNCHANGED child
    BY <1>5, <1>t, <2>2 DEF HolderClosed
  <2> QED
    BY <1>5, <2>1, <2>2 DEF HolderClosed
<1>6. CASE TimeOut \/ WorkFails
  BY <1>6, <1>t, <1>k DEF TimeOut, WorkFails
<1>7. CASE SpawnFails
  BY <1>7, <1>t DEF SpawnFails, Result
<1>8. CASE StopHolder
  BY <1>8, <1>k DEF StopHolder
<1>9. CASE Passed
  BY <1>0, <1>9 DEF Passed, Course, Waiting
<1>10. CASE Failed
  <2>1. CASE Probe[step] \in {"report", "accept"}
    BY <1>0, <1>10, <2>1 DEF Failed, Course, Waiting
  <2>2. CASE Probe[step] \notin {"report", "accept"}
    BY <1>10, <2>2, <1>t DEF Failed
  <2> QED
    BY <2>1, <2>2
<1>11. CASE SkipAcceptance
  BY <1>0, <1>11 DEF SkipAcceptance
<1>12. CASE Interrupt \/ Cleanup
  <2>1. main' \in {main, "reap"} /\ child' \in Child
    BY <1>12, <1>k DEF Interrupt, Cleanup
  <2>2. interrupted' \in BOOLEAN /\ exitCode' \in {0, 1, 130, 143}
    BY <1>12 DEF Interrupt, Cleanup
  <2>3. UNCHANGED <<step, thrown, sandbox>>
    BY <1>12 DEF Interrupt, Cleanup
  <2> QED
    BY <2>1, <2>2, <2>3
<1>13. CASE Reap
  <2>1. thrown' \in BOOLEAN /\ sandbox' \in BOOLEAN
    BY <1>13 DEF Reap, RemoveSandbox
  <2>2. main' = "done" /\ UNCHANGED <<step, child, verdict>>
    BY <1>13 DEF Reap
  <2> QED
    BY <2>1, <2>2
<1>14. ASSUME NEW p \in Process, ChildCloses(p) PROVE TypeOK'
  BY <1>14 DEF ChildCloses
<1>15. CASE UNCHANGED vars
  BY <1>15 DEF vars
<1> QED
  BY <1>1, <1>2, <1>4, <1>5, <1>6, <1>7, <1>8, <1>9, <1>10, <1>11, <1>12, <1>13, <1>14,
     <1>15
  DEF Next, Script

\* Nothing is said of a script that waits for no child.
LEMMA CourseEnds == (~Waiting)' => Course'
  BY DEF Course, Waiting

\* A report that has not failed does not fail later.
LEMMA BlockedStays ==
  ASSUME TypeOK, Course, [Next]_vars, step' = step, ~Blocked
  PROVE  ~Blocked'
<1> SUFFICES ASSUME NEW i \in 1..(step - 1), Probe[i] = "report"
             PROVE  child'[<<i, "runner">>] = "ok"
  BY DEF Blocked
<1>1. child[<<i, "runner">>] = "ok"
  BY DEF Blocked
<1> QED
  BY <1>1, ResultsStay DEF Result, Role

\* Every step leads to a place whose children are as it says.
LEMMA CourseKept ==
  ASSUME TypeOK, Course, [Next]_vars
  PROVE  Course'
<1> USE DEF Course, Waiting, Finished, Locking
<1>k. \A some : \A p \in Process : child[p] \in Result => Killed(some)[p] = child[p]
  BY KilledTypes
<1>b. step' = step /\ ~Blocked => ~Blocked'
  BY BlockedStays
<1>t. Throw => Course'
  BY CourseEnds DEF Throw
<1>p. ~Finished => \A c \in Role : <<step, c>> \in Process
  BY ChildrenOfProbe
<1>1. CASE StartProbe
  <2>1. CASE Throw
    BY <1>t, <2>1
  <2>2. CASE ~Throw /\ Locking(step)
    BY <1>1, <2>2 DEF StartProbe, Start
  <2>3. CASE ~Throw /\ ~Locking(step)
    BY <1>1, <1>b, <2>3 DEF StartProbe, Start, Skipped, Released
  <2> QED
    BY <2>1, <2>2, <2>3
<1>2. CASE HolderReady
  BY <1>2, <1>t DEF HolderReady, Start
<1>3. CASE StopHolder
  BY <1>3, <1>k, <1>p DEF StopHolder, Awaited, Result, Role
<1>4. CASE HolderClosed
  <2>1. CASE Throw
    BY <1>t, <2>1
  <2>2. CASE ~Throw
    <3>1. /\ main = "stop" /\ main' = "wait" /\ step' = step
          /\ child' = [child EXCEPT ![<<step, "runner">>] = "alive"]
      BY <1>4, <2>2 DEF HolderClosed, Start
    <3>2. Released(step)
      BY <1>4, <2>2, <3>1 DEF HolderClosed, Awaited, Released
    <3>3. Released(step)'
      BY <3>1, <3>2, <1>p DEF Released, TypeOK, Role
    <3> QED
      BY <3>1, <3>3
  <2> QED
    BY <2>1, <2>2
<1>5. CASE Interrupt
  <2>1. main' = main /\ step' = step /\ child' = Killed(Children)
    BY <1>5 DEF Interrupt
  <2>2. ~Finished /\ Released(step) => Released(step)'
    BY <2>1, <1>k, <1>p DEF Released, Result, Role
  <2> QED
    BY <2>1, <2>2, <1>k, <1>p, <1>b DEF Result, Role
<1>6. ASSUME NEW q \in Process, ChildCloses(q) PROVE Course'
  <2>1. main' = main /\ step' = step
    BY <1>6 DEF ChildCloses
  <2>2. \A p \in Process : child[p] \in Result => child'[p] = child[p]
    BY <1>6 DEF ChildCloses, Children, Result, TypeOK
  <2>3. ~Finished /\ Released(step) => Released(step)'
    BY <2>1, <2>2, <1>p DEF Released, Result, Role
  <2> QED
    BY <2>1, <2>2, <2>3, <1>p, <1>b DEF Result, Role
<1>7. CASE WorkFails \/ SpawnFails \/ TimeOut
  BY <1>7, <1>t DEF WorkFails, SpawnFails, TimeOut
<1>8. CASE Failed
  BY <1>8, <1>t, CourseEnds DEF Failed
<1>9. CASE MakeSandbox \/ Arm \/ Passed \/ SkipAcceptance \/ EndBody \/ Cleanup \/ Reap
             \/ Die
  BY <1>9, CourseEnds
  DEF MakeSandbox, Arm, Passed, SkipAcceptance, EndBody, Cleanup, Reap, Die
<1>10. CASE UNCHANGED vars
  BY <1>10 DEF vars, Released, Blocked
<1> QED
  BY <1>1, <1>2, <1>3, <1>4, <1>5, <1>6, <1>7, <1>8, <1>9, <1>10 DEF Next, Script

\* A probe that has passed stays so.
LEMMA ProbedStays ==
  ASSUME TypeOK, Course, [Next]_vars, NEW i \in 1..(step - 1), Probed(i)
  PROVE  Probed(i)'
  BY ResultsStay DEF Probed, Locking, Result, Role

\* An exit code other than 0 stays one, and a signal sets one.
LEMMA ExitCodeStays ==
  ASSUME TypeOK, [Next]_vars, interrupted => exitCode # 0
  PROVE  /\ exitCode # 0 => exitCode' # 0
         /\ interrupted' => exitCode' # 0
<1> USE DEF verdict, TypeOK
<1>1. CASE Interrupt
  BY <1>1 DEF Interrupt
<1>2. CASE Failed \/ SkipAcceptance
  BY <1>2 DEF Failed, SkipAcceptance
<1>3. CASE UNCHANGED verdict
  BY <1>3
<1> QED
  BY <1>1, <1>2, <1>3
  DEF Next, Script, MakeSandbox, Arm, StartProbe, HolderReady, TimeOut, StopHolder,
    HolderClosed, Passed, EndBody, Cleanup, Reap, WorkFails, SpawnFails, Die, ChildCloses,
    vars

\* Only three actions go on with the next probe.
LEMMA NextProbe ==
  [Next]_vars => Passed \/ Failed \/ SkipAcceptance \/ step' = step
  BY DEF Next, Script, MakeSandbox, Arm, StartProbe, HolderReady, TimeOut, StopHolder,
    HolderClosed, EndBody, Cleanup, Reap, WorkFails, SpawnFails, Interrupt, Die,
    ChildCloses, vars

\* A probe that the script leaves behind has passed, or is remembered.
LEMMA RememberedKept ==
  ASSUME TypeOK, Course, Remembered, [Next]_vars
  PROVE  Remembered'
<1>0. Len(Probe) \in Nat /\ step \in 1..(Len(Probe) + 1)
  BY ProbeAssumption DEF TypeOK
<1>e. (exitCode # 0 => exitCode' # 0) /\ (interrupted' => exitCode' # 0)
  BY ExitCodeStays DEF Remembered
<1> SUFFICES ASSUME exitCode' = 0, NEW i \in 1..(step' - 1)
             PROVE  Probed(i)' \/ (Probe[i] = "report" /\ AcceptanceAhead')
  BY <1>e DEF Remembered
<1>r. i \in 1..(step - 1) => Probed(i)' \/ (Probe[i] = "report" /\ AcceptanceAhead)
  BY <1>e, ProbedStays DEF Remembered
<1>1. CASE step' = step
  BY <1>1, <1>r DEF AcceptanceAhead
<1>2. CASE Passed
  <2>1. step' = step + 1 /\ child' = child /\ ~Finished /\ Released(step) /\ main = "wait"
    BY <1>2 DEF Passed, Course, Waiting
  <2>2. CASE i = step
    BY <1>2, <2>1, <2>2 DEF Passed, Awaited, Probed, Released
  <2>3. CASE i # step /\ Probe[step] # "accept"
    BY <1>0, <1>r, <2>1, <2>3, AcceptanceStaysAhead DEF AcceptanceAhead
  <2>4. CASE i # step /\ Probe[step] = "accept"
    <3>1. i \in 1..(step - 1) /\ ~Blocked
      BY <1>0, <2>1, <2>4 DEF Course
    <3>2. Probe[i] = "report" => Probed(i)'
      BY <2>1, <3>1 DEF Blocked, Probed, Locking
    <3> QED
      BY <1>r, <3>1, <3>2
  <2> QED
    BY <2>2, <2>3, <2>4
<1>3. CASE Failed /\ step' # step
  <2>1. step' = step + 1 /\ ~Finished /\ Probe[step] = "report"
    BY <1>3 DEF Failed, Course, Waiting
  <2>2. AcceptanceAhead'
    BY <2>1, ReportsAreBeforeAcceptance, AcceptanceStaysAhead DEF AcceptanceAhead
  <2> QED
    BY <1>0, <1>r, <2>1, <2>2
<1>4. CASE SkipAcceptance
  BY <1>4 DEF SkipAcceptance
<1> QED
  BY <1>1, <1>2, <1>3, <1>4, NextProbe

\* The finally block is reached behind the last probe, by a signal or with an error.
LEMMA ReachedKept ==
  ASSUME TypeOK, Reached, [Next]_vars
  PROVE  Reached'
<1> USE DEF Reached, Finished, verdict
<1>t. Throw /\ interrupted' = interrupted => Reached'
  BY ThrowEnds
<1>1. CASE StartProbe \/ HolderReady
  BY <1>1, <1>t DEF StartProbe, HolderReady, Start
<1>2. CASE HolderClosed
  BY <1>2, <1>t DEF HolderClosed, Start
<1>3. CASE WorkFails \/ SpawnFails \/ TimeOut
  BY <1>3, <1>t DEF WorkFails, SpawnFails, TimeOut
<1>4. CASE Failed
  BY <1>4, <1>t DEF Failed
<1>5. CASE MakeSandbox \/ Arm \/ StopHolder \/ Passed \/ SkipAcceptance \/ Die
  BY <1>5 DEF MakeSandbox, Arm, StopHolder, Passed, SkipAcceptance, Die
<1>6. CASE EndBody \/ Cleanup
  BY <1>6 DEF EndBody, Cleanup
<1>7. CASE Reap
  BY <1>7 DEF Reap, RemoveSandbox
<1>8. CASE Interrupt
  BY <1>8 DEF Interrupt
<1>9. ASSUME NEW p \in Process, ChildCloses(p) PROVE Reached'
  BY <1>9 DEF ChildCloses
<1>10. CASE UNCHANGED vars
  BY <1>10 DEF vars
<1> QED
  BY <1>1, <1>2, <1>3, <1>4, <1>5, <1>6, <1>7, <1>8, <1>9, <1>10 DEF Next, Script

\* Children are started between the making of the sandbox and the finally block, which
\* waits for those that are left.
LEMMA HousedKept ==
  ASSUME TypeOK, Housed, [Next]_vars
  PROVE  Housed'
<1> USE DEF Housed
<1>c. child' = child => Children' = Children
  BY DEF Children
<1>t. Throw /\ UNCHANGED sandbox /\ main \notin {"start", "done", "dead"} => Housed'
  BY DEF Throw
<1>1. CASE StartProbe \/ HolderReady
  BY <1>1, <1>t DEF StartProbe, HolderReady, Start
<1>2. CASE HolderClosed
  BY <1>2, <1>t DEF HolderClosed, Start
<1>3. CASE WorkFails \/ SpawnFails \/ TimeOut
  BY <1>3, <1>t DEF WorkFails, SpawnFails, TimeOut, Waiting
<1>4. CASE Failed
  BY <1>4, <1>t DEF Failed
<1>5. CASE MakeSandbox \/ Arm \/ Die
  BY <1>5, <1>c DEF MakeSandbox, Arm, Die
<1>6. CASE StopHolder \/ Passed \/ SkipAcceptance \/ EndBody \/ Cleanup
  BY <1>6 DEF StopHolder, Passed, SkipAcceptance, EndBody, Cleanup
<1>7. CASE Reap
  BY <1>7, <1>c DEF Reap, RemoveSandbox
<1>8. CASE Interrupt
  BY <1>8 DEF Interrupt
<1>9. ASSUME NEW p \in Process, ChildCloses(p) PROVE Housed'
  BY <1>9 DEF ChildCloses
<1>10. CASE UNCHANGED vars
  BY <1>10, <1>c DEF vars
<1> QED
  BY <1>1, <1>2, <1>3, <1>4, <1>5, <1>6, <1>7, <1>8, <1>9, <1>10 DEF Next, Script

\* The invariant holds in every reachable state.
LEMMA Invariant == Spec => []IInv
<1>1. IInv /\ [Next]_vars => IInv'
  BY TypesKept, CourseKept, RememberedKept, ReachedKept, HousedKept DEF IInv
<1> QED
  BY <1>1, Initially, PTL DEF Spec

\* Every variable has its type, for any probes.
THEOREM TypeCorrect == Spec => []TypeOK
  BY Invariant, PTL DEF IInv

\* The sandbox is never removed under a child, no child outlives the script, and a
\* sandbox is left only with an error.
THEOREM LeavesNothing == Spec => []NothingLeft
<1>1. IInv => NothingLeft
  BY DEF IInv, Housed, NothingLeft
<1> QED
  BY <1>1, Invariant, PTL

\* Exit code 0 without an error means that no signal came, and that every child of every
\* probe was started and closed as it has to.
THEOREM SuccessIsProbed == Spec => []SuccessMeansProbed
<1>1. IInv => SuccessMeansProbed
  <2> SUFFICES ASSUME IInv, main = "done", exitCode = 0, ~thrown
               PROVE  ~interrupted /\ \A i \in 1..Len(Probe) : Probed(i)
    BY DEF SuccessMeansProbed
  <2>1. ~interrupted /\ Finished
    BY DEF IInv, Remembered, Reached
  <2>2. ~AcceptanceAhead /\ 1..(step - 1) = 1..Len(Probe)
    BY <2>1, ProbeAssumption DEF Finished, AcceptanceAhead, IInv, TypeOK
  <2> QED
    BY <2>1, <2>2 DEF IInv, Remembered
<1> QED
  BY <1>1, Invariant, PTL

-------------------------------------------------------------------------------
(* The script's steps are numbered.                                        *)

Phase ==
  [start |-> 5, made |-> 4, next |-> 3, ready |-> 3, contend |-> 3, stop |-> 3,
   wait |-> 3, cleanup |-> 2, reap |-> 1, done |-> 0, dead |-> 0]

ProbesLeft == Len(Probe) + 1 - step

\* What is left of one probe.
Turn ==
  [start |-> 0, made |-> 0, next |-> 5, ready |-> 4, contend |-> 3, stop |-> 2,
   wait |-> 1, cleanup |-> 0, reap |-> 0, done |-> 0, dead |-> 0]

Nearer ==
  \/ Phase[main'] < Phase[main]
  \/ Phase[main'] = Phase[main] /\ ProbesLeft' < ProbesLeft
  \/ Phase[main'] = Phase[main] /\ ProbesLeft' = ProbesLeft /\ Turn[main'] < Turn[main]

\* Signals and children, whenever they come, take the script nowhere but nearer to its
\* end, and each step of its own does: no probe is tried twice.
StepsNumbered == [][(Nearer \/ UNCHANGED <<main, step>>) /\ (Script => Nearer)]_vars

\* What is left to do is three numbers.
LEMMA LeftIsNumber ==
  TypeOK => ProbesLeft \in Nat /\ Phase[main] \in 0..5 /\ Turn[main] \in 0..5
<1> SUFFICES ASSUME TypeOK
             PROVE  ProbesLeft \in Nat /\ Phase[main] \in 0..5 /\ Turn[main] \in 0..5
  OBVIOUS
<1>1. ProbesLeft \in Nat
  BY ProbeAssumption DEF TypeOK, ProbesLeft
<1>2. Phase[main] \in 0..5 /\ Turn[main] \in 0..5
  BY DEF TypeOK, Phase, Turn
<1> QED
  BY <1>1, <1>2

\* An error takes the script out of its body.
LEMMA ThrowIsNearer == Throw /\ (Waiting \/ main = "next") => Nearer
  BY DEF Waiting, Throw, Nearer, Phase

\* Each step of the script is one towards its end.
LEMMA ScriptIsNearer ==
  ASSUME TypeOK, Script PROVE Nearer
<1>0. Len(Probe) \in Nat /\ step \in Nat
  BY ProbeAssumption DEF TypeOK
<1> USE ThrowIsNearer DEF Nearer, Phase, Turn, ProbesLeft, Waiting
<1>1. CASE MakeSandbox \/ Arm \/ EndBody \/ Cleanup \/ Reap
  BY <1>1 DEF MakeSandbox, Arm, EndBody, Cleanup, Reap
<1>2. CASE StartProbe
  BY <1>2 DEF StartProbe, Start
<1>3. CASE HolderReady \/ HolderClosed
  BY <1>3 DEF HolderReady, HolderClosed, Start
<1>4. CASE TimeOut \/ StopHolder
  BY <1>4 DEF TimeOut, StopHolder
<1>5. CASE Passed \/ Failed
  BY <1>0, <1>5 DEF Passed, Failed
<1>6. CASE SkipAcceptance
  BY <1>0, <1>6 DEF SkipAcceptance
<1> QED
  BY <1>1, <1>2, <1>3, <1>4, <1>5, <1>6 DEF Script

\* The script takes boundedly many steps, whatever its children do and however often it
\* is interrupted.
THEOREM StepsAreNumbered == Spec => StepsNumbered
<1>1. TypeOK /\ [Next]_vars =>
        [(Nearer \/ UNCHANGED <<main, step>>) /\ (Script => Nearer)]_vars
  <2> SUFFICES ASSUME TypeOK, [Next]_vars
               PROVE  (Nearer \/ UNCHANGED <<main, step>>) /\ (Script => Nearer)
    OBVIOUS
  <2>1. Script => Nearer
    BY ScriptIsNearer
  <2>2. CASE WorkFails \/ SpawnFails
    BY <2>1, <2>2, ThrowIsNearer DEF WorkFails, SpawnFails
  <2>3. CASE Die
    BY <2>1, <2>3 DEF Die, Nearer, Phase
  <2>4. ASSUME Interrupt \/ UNCHANGED vars \/ \E p \in Process : ChildCloses(p)
        PROVE  UNCHANGED <<main, step>>
    BY <2>4 DEF Interrupt, ChildCloses, vars
  <2> QED
    BY <2>1, <2>2, <2>3, <2>4 DEF Next
<1> QED
  BY <1>1, TypeCorrect, PTL DEF Spec, StepsNumbered
===============================================================================
