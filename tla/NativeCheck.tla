------------------------------ MODULE NativeCheck ------------------------------
(***************************************************************************)
(* The check of the Bun experiment (verify-bun-native): it copies the       *)
(* packages into a temporary directory, the sandbox, and runs probes in     *)
(* child processes, one after another.  A locking probe starts a holder of  *)
(* a lock, a contender that must not get it, stops the holder with its      *)
(* signal, and starts a runner that must get it; other probes are one       *)
(* runner.  Children may fail or hang, and SIGINT or SIGTERM may come at    *)
(* any time.                                                               *)
(***************************************************************************)
EXTENDS Integers, Sequences

CONSTANT Probe  \* the probes in order: a failed "report" or "accept" does not throw

ASSUME ProbeAssumption ==
  /\ Probe \in Seq({"run", "sigterm", "sigkill", "report", "accept"})
  /\ \A i \in 1..Len(Probe) :
       Probe[i] = "report" => \E j \in i..Len(Probe) : Probe[j] = "accept"

Role == {"holder", "contender", "runner"}

\* The children, by their probe.
Process == (1..Len(Probe)) \X Role

\* How a child closes: as the probe expects (exit code 0, and the right output), by
\* SIGKILL, or otherwise.
Result == {"ok", "sigkilled", "failed"}

VARIABLES
  main,         \* where the script is
  step,         \* the probe it is at
  child,        \* each child: "none", "alive", "killed", or its result
  interrupted,  \* whether its signal handler was called
  exitCode,     \* what process.exitCode is
  thrown,       \* whether the script ends with an error
  sandbox       \* whether the temporary directory exists

vars == <<main, step, child, interrupted, exitCode, thrown, sandbox>>

verdict == <<interrupted, exitCode>>

\* The children the script keeps track of: those it started and that have not closed.
Children == {p \in Process : child[p] \in {"alive", "killed"}}

Killed(some) ==
  [p \in Process |-> IF p \in some /\ child[p] = "alive" THEN "killed" ELSE child[p]]

Finished == step > Len(Probe)

Locking(i) == Probe[i] \in {"sigterm", "sigkill"}

\* A report has failed, which stands in the way of the acceptance.
Blocked == \E i \in 1..(step - 1) : Probe[i] = "report" /\ child[<<i, "runner">>] # "ok"

Init ==
  /\ main = "start"
  /\ step = 1
  /\ child = [p \in Process |-> "none"]
  /\ interrupted = FALSE
  /\ exitCode = 0
  /\ thrown = FALSE
  /\ sandbox = FALSE

-------------------------------------------------------------------------------
\* mkdtemp has made the sandbox, and its caller goes on later; or it fails.
MakeSandbox ==
  /\ main = "start"
  /\ \/ main' = "made" /\ sandbox' = TRUE /\ UNCHANGED thrown
     \/ main' = "done" /\ thrown' = TRUE /\ UNCHANGED sandbox
  /\ UNCHANGED <<step, child, verdict>>

\* The signal handlers are installed.
Arm ==
  /\ main = "made"
  /\ main' = "next"
  /\ UNCHANGED <<step, child, verdict, thrown, sandbox>>

\* The catch block drops an error that an interruption may have caused.
Throw ==
  /\ main' = "cleanup"
  /\ thrown' = ~interrupted

\* The acceptance is not tried after a failed report.
Skipped == Probe[step] = "accept" /\ Blocked

\* The script's own work between two probes fails.
WorkFails ==
  /\ main = "next" /\ ~Finished /\ ~Skipped
  /\ Throw
  /\ UNCHANGED <<step, child, verdict, sandbox>>

\* start: it throws after an interruption, and if the child cannot be spawned.
Start(c, then) ==
  \/ Throw /\ UNCHANGED child
  \/ /\ ~interrupted
     /\ child' = [child EXCEPT ![<<step, c>>] = "alive"]
     /\ main' = then
     /\ UNCHANGED thrown

\* A probe begins with its only child, or with the holder of its lock.
StartProbe ==
  /\ main = "next" /\ ~Finished /\ ~Skipped
  /\ IF Locking(step) THEN Start("holder", "ready") ELSE Start("runner", "wait")
  /\ UNCHANGED <<step, verdict, sandbox>>

\* The holder's first line: it has the lock (or the assertion throws); now another
\* child contends for it.
HolderReady ==
  /\ main = "ready" /\ <<step, "holder">> \in Children
  /\ Start("contender", "contend")
  /\ UNCHANGED <<step, verdict, sandbox>>

\* A child closes, by itself or killed (perhaps too late to matter).
ChildCloses(p) ==
  /\ p \in Children
  /\ \E result \in Result : child' = [child EXCEPT ![p] = result]
  /\ UNCHANGED <<main, step, verdict, thrown, sandbox>>

Waiting == main \in {"ready", "contend", "stop", "wait"}

\* The child that the script waits for.
Awaited ==
  <<step, CASE main = "contend" -> "contender" [] main = "wait" -> "runner"
            [] OTHER -> "holder">>

\* The awaited child could not be started: its error event.
SpawnFails ==
  /\ Waiting /\ main # "stop"
  /\ child[Awaited] = "alive"
  /\ child' = [child EXCEPT ![Awaited] = "failed"]
  /\ Throw
  /\ UNCHANGED <<step, verdict, sandbox>>

\* Mutant: a probe that takes too long is waited for.
WaitOn ==
  /\ Waiting /\ Awaited \in Children
  /\ UNCHANGED vars

\* bounded: kill the child and throw.
TimeOut ==
  /\ Waiting /\ Awaited \in Children
  /\ child' = Killed({Awaited})
  /\ Throw
  /\ UNCHANGED <<step, verdict, sandbox>>

\* The contender did not get the lock: send the holder its signal.  It may do with
\* SIGTERM what it likes.
StopHolder ==
  /\ main = "contend" /\ child[Awaited] = "ok"
  /\ main' = "stop"
  /\ child' = IF Probe[step] = "sigkill" THEN Killed({<<step, "holder">>}) ELSE child
  /\ UNCHANGED <<step, verdict, thrown, sandbox>>

\* Mutant: any end of the holder is taken for the expected one.
HolderClosedAnyhow ==
  /\ main \in {"ready", "stop"} /\ child[Awaited] \in Result
  /\ IF main = "stop" THEN Start("runner", "wait") ELSE Throw /\ UNCHANGED child
  /\ UNCHANGED <<step, verdict, sandbox>>

\* The holder has closed: after its signal, as that asks for, try the lock again; before
\* it was ready, or otherwise, throw.
HolderClosed ==
  /\ main \in {"ready", "stop"} /\ child[Awaited] \in Result
  /\ IF /\ main = "stop"
        /\ child[Awaited] = IF Probe[step] = "sigterm" THEN "ok" ELSE "sigkilled"
     THEN Start("runner", "wait")
     ELSE Throw /\ UNCHANGED child
  /\ UNCHANGED <<step, verdict, sandbox>>

\* The last child of a probe has passed.
Passed ==
  /\ main = "wait" /\ child[Awaited] = "ok"
  /\ main' = "next" /\ step' = step + 1
  /\ UNCHANGED <<child, verdict, thrown, sandbox>>

\* A failed report is printed, a failed acceptance sets the exit code, others throw.
Failed ==
  /\ main \in {"contend", "wait"} /\ child[Awaited] \in Result \ {"ok"}
  /\ IF Probe[step] \in {"report", "accept"}
     THEN /\ main' = "next" /\ step' = step + 1
          /\ exitCode' = IF Probe[step] = "accept" THEN 1 ELSE exitCode
          /\ UNCHANGED thrown
     ELSE Throw /\ UNCHANGED <<step, exitCode>>
  /\ UNCHANGED <<child, interrupted, sandbox>>

\* After a failed report the exit code is set instead.
SkipAcceptance ==
  /\ main = "next" /\ ~Finished /\ Skipped
  /\ step' = step + 1
  /\ exitCode' = 1
  /\ UNCHANGED <<main, child, interrupted, thrown, sandbox>>

EndBody ==
  /\ main = "next" /\ Finished
  /\ main' = "cleanup"
  /\ UNCHANGED <<step, child, verdict, thrown, sandbox>>

-------------------------------------------------------------------------------
(* The handlers and the finally block.                                     *)

\* A signal, perhaps not the first: note it and kill every child.
Interrupt ==
  /\ main \notin {"start", "made", "done", "dead"}
  /\ interrupted' = TRUE
  /\ exitCode' \in {130, 143}
  /\ child' = Killed(Children)
  /\ UNCHANGED <<main, step, thrown, sandbox>>

\* Before the handlers are installed a signal kills the script.
Die ==
  /\ main \in {"start", "made"}
  /\ main' = "dead"
  /\ UNCHANGED <<step, child, verdict, thrown, sandbox>>

Cleanup ==
  /\ main = "cleanup"
  /\ main' = "reap"
  /\ child' = Killed(Children)
  /\ UNCHANGED <<step, verdict, thrown, sandbox>>

RemoveSandbox ==
  \/ sandbox' = FALSE /\ UNCHANGED thrown
  \/ thrown' = TRUE /\ UNCHANGED sandbox

\* Mutant: the children are killed, and not waited for.
ReapAtOnce ==
  /\ main = "reap"
  /\ main' = "done"
  /\ RemoveSandbox
  /\ UNCHANGED <<step, child, verdict>>

\* All children have closed: remove the sandbox, and end.  A failure to remove it is an
\* error, after an interruption too.
Reap ==
  /\ main = "reap"
  /\ Children = {}
  /\ main' = "done"
  /\ RemoveSandbox
  /\ UNCHANGED <<step, child, verdict>>

\* What the script, its timers and a killed child do by themselves.
Script ==
  \/ MakeSandbox \/ Arm \/ StartProbe \/ HolderReady \/ TimeOut \/ StopHolder
  \/ HolderClosed \/ Passed \/ Failed \/ SkipAcceptance \/ EndBody \/ Cleanup \/ Reap

Next ==
  \/ Script \/ WorkFails \/ SpawnFails \/ Interrupt \/ Die
  \/ \E p \in Process : ChildCloses(p)

Spec == Init /\ [][Next]_vars

\* A child need not end by itself; the timer of bounded fires, and a killed one closes.
FairSpec ==
  Spec /\ WF_vars(Script) /\ \A p \in Process :
            WF_vars(child[p] = "killed" /\ ChildCloses(p))

-------------------------------------------------------------------------------
(* Properties.                                                             *)

\* Every variable has its type.
TypeOK ==
  /\ main \in {"start", "made", "next", "ready", "contend", "stop", "wait", "cleanup",
               "reap", "done", "dead"}
  /\ step \in 1..(Len(Probe) + 1)
  /\ child \in [Process -> {"none", "alive", "killed"} \cup Result]
  /\ interrupted \in BOOLEAN
  /\ exitCode \in {0, 1, 130, 143}
  /\ thrown \in BOOLEAN
  /\ sandbox \in BOOLEAN

\* The sandbox is never removed under a child, none outlives the script, and only one
\* that ends with an error leaves its sandbox, whatever fails, hangs or is interrupted
\* (experiments/bun-native/README.md: "It removes temporary files and terminates its own
\* children on completion, failure, SIGINT, or SIGTERM"; main is "dead" after a signal
\* before the handlers).
NothingLeft ==
  /\ Children # {} => sandbox /\ main \notin {"done", "dead"}
  /\ main = "done" /\ sandbox => thrown

\* Every child of the probe was started and closed as it has to, a lock's holder by the
\* signal that the probe sends.
Probed(i) ==
  /\ child[<<i, "runner">>] = "ok"
  /\ Probe[i] = "sigterm" => child[<<i, "holder">>] = "ok"
  /\ Probe[i] = "sigkill" => child[<<i, "holder">>] = "sigkilled"
  /\ Locking(i) => child[<<i, "contender">>] = "ok"

\* A check that exits with 0 was not interrupted, and all children of all its probes
\* have closed as they have to, whatever came first.
SuccessMeansProbed ==
  main = "done" /\ exitCode = 0 /\ ~thrown =>
    ~interrupted /\ \A i \in 1..Len(Probe) : Probed(i)

\* The check ends, even if a child hangs and ignores what it can ignore.
AlwaysEnds == <>(main \in {"done", "dead"})
===============================================================================
