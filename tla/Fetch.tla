-------------------------------- MODULE Fetch ---------------------------------
(***************************************************************************)
(* The commands that read a registry under a time limit: fetch, seed       *)
(* NAME@VERSION and list.  Each runs in a process with a state directory   *)
(* of its own; the fetches write to the same output path.                  *)
(*                                                                         *)
(* A command is two tasks of one event loop.  Its main task races the work *)
(* against a timer and the signals; when these win it aborts the work,     *)
(* closes the registry and waits for the work to settle (boundedWorkflow). *)
(* Its work looks the manifest up, syncs with a peer if it has to, streams *)
(* the blob through a meter and, for a fetch, links the verified temporary *)
(* file to the output path (resolveManifest, exportVerified, verify).      *)
(***************************************************************************)
EXTENDS Integers, Sequences

CONSTANTS
  Cmd,       \* commands, one per process
  Kinds,     \* what a command may be: "fetch", "seed" or "list"
  Writer,    \* the commands run in the publisher's state directory
  Chunk,     \* values of a chunk of an artifact
  MaxLen,    \* bound: chunks in an artifact
  Sha256,    \* the digest of each content
  Invalid,   \* a manifest that validateManifest rejects
  Foreign,   \* what another program may put at the output path
  None

Content == UNION {[1..n -> Chunk] : n \in 0..MaxLen}

Digest == {Sha256[c] : c \in Content}

Manifest == [sha256 : Digest, size : 0..MaxLen]

ASSUME ConstantsAssumption ==
  /\ Kinds \subseteq {"fetch", "seed", "list"}
  /\ Writer \subseteq Cmd
  /\ MaxLen \in Nat
  /\ {Invalid, None} \cap Manifest = {}
  /\ {Foreign, None} \cap [by : Cmd, bytes : Content] = {}

\* SHA-256 has no collision among the contents at hand.
ASSUME DigestAssumption ==
  \A c, d \in Content : Sha256[c] = Sha256[d] => c = d

VARIABLES
  kind,      \* what each command is
  manifest,  \* what the registry has at the artifact's reference
  blob,      \* the bytes it has under the manifest's digest
  online,    \* whether connect has made a swarm
  peer,      \* whether an authenticated peer with the whole artifact is connected
  met,       \* whether one has ever been
  meta,      \* the local replica's view of the reference
  have,      \* how many of the blob's chunks are in the local replica
  main,      \* where each main task is
  work,      \* where each work is
  result,    \* how each work ended
  aborted,   \* whether the work's signal is aborted
  closed,    \* whether the registry is closed
  read,      \* the bytes that went through the meter
  temp,      \* whether the temporary directory exists
  dest,      \* what is at the output path
  outcome    \* what each command reported

given == <<kind, manifest, blob>>
network == <<online, peer, met>>
replica == <<meta, have>>
control == <<main, aborted, closed, outcome>>
files == <<read, temp, dest>>

vars == <<given, network, replica, control, work, result, files>>

-------------------------------------------------------------------------------
\* meta: "stale", the local view does not have the reference (it may be empty);
\* "known", it has it in blocks that are still to come from a peer; "cached".
Init ==
  /\ kind \in [Cmd -> Kinds]
  /\ manifest \in Manifest \cup {Invalid, None}
  /\ blob \in Content
  /\ online = [f \in Cmd |-> FALSE]
  /\ peer = [f \in Cmd |-> FALSE]
  /\ met = [f \in Cmd |-> FALSE]
  /\ meta \in [Cmd -> {"stale", "known", "cached"}]
  /\ have \in [Cmd -> 0..Len(blob)]
  /\ \A f \in Writer : meta[f] = "cached" /\ have[f] = Len(blob)
  /\ main = [f \in Cmd |-> "idle"]
  /\ work = [f \in Cmd |-> "none"]
  /\ result = [f \in Cmd |-> "none"]
  /\ aborted = [f \in Cmd |-> FALSE]
  /\ closed = [f \in Cmd |-> FALSE]
  /\ read = [f \in Cmd |-> << >>]
  /\ temp = [f \in Cmd |-> FALSE]
  /\ dest = None
  /\ outcome = [f \in Cmd |-> "none"]

\* The work goes on, or settles.
Work(f, next) == work' = [work EXCEPT ![f] = next] /\ UNCHANGED result

Settle(f, how) ==
  /\ work' = [work EXCEPT ![f] = "settled"]
  /\ result' = [result EXCEPT ![f] = how]

\* exportVerified goes to its finally block, with a result already decided.
Unwind(f, how) ==
  /\ work' = [work EXCEPT ![f] = "remove"]
  /\ result' = [result EXCEPT ![f] = how]

\* openRegistry, connectInBackground (whose failure is ignored) and the work.
Start(f) ==
  /\ main[f] = "idle"
  /\ main' = [main EXCEPT ![f] = "run"]
  /\ \E o \in BOOLEAN : online' = [online EXCEPT ![f] = o]
  /\ Work(f, IF kind[f] = "list" THEN "sync" ELSE "read1")
  /\ UNCHANGED <<given, peer, met, replica, aborted, closed, outcome, files>>

-------------------------------------------------------------------------------
(* resolveManifest and listArtifacts.                                      *)

Reading(f) == work[f] \in {"read1", "read2", "list"}

\* drive.entry waits for a block that only a peer has.
FetchMetadata(f) ==
  /\ Reading(f)
  /\ meta[f] = "known"
  /\ peer[f]
  /\ meta' = [meta EXCEPT ![f] = "cached"]
  /\ UNCHANGED <<given, network, have, control, work, result, files>>

FindManifest(f) ==
  /\ work[f] \in {"read1", "read2"}
  /\ manifest # None
  /\ meta[f] = "cached"
  /\ Work(f, "resolve")
  /\ UNCHANGED <<given, network, replica, control, files>>

\* sync throws when the registry is being closed, which starts with the abort.
MissManifest(f) ==
  /\ work[f] \in {"read1", "read2"}
  /\ manifest = None \/ meta[f] = "stale"
  /\ IF work[f] = "read2" \/ f \in Writer THEN Settle(f, "miss")
     ELSE IF aborted[f] THEN Settle(f, "error")
     ELSE Work(f, "sync")
  /\ UNCHANGED <<given, network, replica, control, files>>

\* Without a swarm the drive does not wait: the missing block is an error.
ReadOffline(f) ==
  /\ Reading(f)
  /\ manifest # None
  /\ meta[f] = "known"
  /\ ~online[f]
  /\ Settle(f, "error")
  /\ UNCHANGED <<given, network, replica, control, files>>

AfterSync(f) ==
  IF kind[f] # "list" THEN Work(f, "read2")
  ELSE IF aborted[f] THEN Settle(f, "error")
  ELSE Work(f, "list")

\* Mutant: the update does not wait for a peer.
SyncAtOnce(f) ==
  /\ work[f] = "sync"
  /\ meta' = [meta EXCEPT ![f] = IF @ = "stale" /\ peer[f] THEN "known" ELSE @]
  /\ AfterSync(f)
  /\ UNCHANGED <<given, network, have, control, files>>

\* drive.update: a writer and a registry without a swarm do not wait; the others
\* wait for the first authenticated peer, and learn what a connected one has.  The
\* wait ends as soon as the registry begins to close.
Sync(f) ==
  /\ work[f] = "sync"
  /\ f \in Writer \/ ~online[f] \/ met[f] \/ aborted[f]
  /\ meta' = [meta EXCEPT ![f] = IF @ = "stale" /\ peer[f] THEN "known" ELSE @]
  /\ AfterSync(f)
  /\ UNCHANGED <<given, network, have, control, files>>

\* One manifest that does not validate fails the whole list.
List(f) ==
  /\ work[f] = "list"
  /\ meta[f] # "known" \/ manifest = None
  /\ Settle(f, IF meta[f] = "cached" /\ manifest = Invalid THEN "error" ELSE "value")
  /\ UNCHANGED <<given, network, replica, control, files>>

\* The registry was closed under a pending read or update.
Reject(f) ==
  /\ closed[f]
  /\ Reading(f) \/ work[f] = "sync"
  /\ Settle(f, "error")
  /\ UNCHANGED <<given, network, replica, control, files>>

Resolve(f) ==
  /\ work[f] = "resolve"
  /\ IF aborted[f] \/ manifest = Invalid THEN Settle(f, "error")
     ELSE Work(f, IF kind[f] = "fetch" THEN "open" ELSE "stream")
  /\ UNCHANGED <<given, network, replica, control, files>>

-------------------------------------------------------------------------------
(* exportVerified and verify.                                              *)

\* Mutant: the download is written straight to the output path.
MakeOutput(f) ==
  /\ work[f] = "open"
  /\ ~aborted[f]
  /\ dest = None
  /\ dest' = [by |-> f, bytes |-> << >>]
  /\ Work(f, "stream")
  /\ UNCHANGED <<given, network, replica, control, read, temp>>

MakeTemp(f) ==
  /\ work[f] = "open"
  /\ ~aborted[f]
  /\ temp' = [temp EXCEPT ![f] = TRUE]
  /\ Work(f, "stream")
  /\ UNCHANGED <<given, network, replica, control, read, dest>>

\* The signal was aborted before, or the directory cannot be made.
OpenFails(f) ==
  /\ work[f] = "open"
  /\ Settle(f, "error")
  /\ UNCHANGED <<given, network, replica, control, files>>

\* The pipeline fails: only a fetch has something to remove.
StreamError(f) ==
  IF kind[f] = "fetch" THEN Unwind(f, "error") ELSE Settle(f, "error")

\* A chunk goes through the meter, which rejects one too many.
ReadChunk(f) ==
  LET n == Len(read[f])
  IN  /\ work[f] = "stream"
      /\ ~closed[f]
      /\ n < Len(blob)
      /\ n < have[f] \/ peer[f]
      /\ have' = [have EXCEPT ![f] = IF @ > n THEN @ ELSE n + 1]
      /\ IF n + 1 > manifest.size
         THEN StreamError(f) /\ UNCHANGED read
         ELSE /\ read' = [read EXCEPT ![f] = Append(@, blob[n + 1])]
              /\ UNCHANGED <<work, result>>
      /\ UNCHANGED <<given, network, meta, control, temp, dest>>

Verified(bytes) ==
  Len(bytes) = manifest.size /\ Sha256[bytes] = manifest.sha256

\* Mutant: the meter checks the size but not the digest.
EndStreamUnverified(f) ==
  /\ work[f] = "stream"
  /\ ~closed[f]
  /\ Len(read[f]) = Len(blob)
  /\ IF Len(read[f]) # manifest.size THEN StreamError(f)
     ELSE IF kind[f] = "fetch" THEN Work(f, "check")
     ELSE Settle(f, "value")
  /\ UNCHANGED <<given, network, replica, control, files>>

\* The meter's flush compares size and digest; a blob that is not there reads as
\* an empty one.
EndStream(f) ==
  /\ work[f] = "stream"
  /\ ~closed[f]
  /\ Len(read[f]) = Len(blob)
  /\ IF ~Verified(read[f]) THEN StreamError(f)
     ELSE IF kind[f] = "fetch" THEN Work(f, "check")
     ELSE Settle(f, "value")
  /\ UNCHANGED <<given, network, replica, control, files>>

\* The signal or the closed drive destroys the pipeline.
StreamStops(f) ==
  /\ work[f] = "stream"
  /\ aborted[f] \/ closed[f]
  /\ StreamError(f)
  /\ UNCHANGED <<given, network, replica, control, files>>

\* The last look at the signal before the output appears.
CheckSignal(f) ==
  /\ work[f] = "check"
  /\ IF aborted[f] THEN Unwind(f, "error") ELSE Work(f, "link")
  /\ UNCHANGED <<given, network, replica, control, files>>

\* Mutant: the temporary file is renamed, which replaces what is there.
Rename(f) ==
  /\ work[f] = "link"
  /\ dest' = [by |-> f, bytes |-> read[f]]
  /\ Unwind(f, "value")
  /\ UNCHANGED <<given, network, replica, control, read, temp>>

\* Mutant: an output that exists is taken for the one that was wanted.
LinkOrKeep(f) ==
  /\ work[f] = "link"
  /\ dest' = IF dest = None THEN [by |-> f, bytes |-> read[f]] ELSE dest
  /\ Unwind(f, "value")
  /\ UNCHANGED <<given, network, replica, control, read, temp>>

\* link: the output appears with all of its bytes, or something is there (EEXIST).
Link(f) ==
  /\ work[f] = "link"
  /\ IF dest = None
     THEN dest' = [by |-> f, bytes |-> read[f]] /\ Unwind(f, "value")
     ELSE UNCHANGED dest /\ Unwind(f, "error")
  /\ UNCHANGED <<given, network, replica, control, read, temp>>

RemoveTemp(f) ==
  /\ work[f] = "remove"
  /\ temp' = [temp EXCEPT ![f] = FALSE]
  /\ Settle(f, result[f])
  /\ UNCHANGED <<given, network, replica, control, read, dest>>

\* rm throws out of the finally block, over whatever the result was.
RemoveTempFails(f) ==
  /\ work[f] = "remove"
  /\ Settle(f, "leftover")
  /\ UNCHANGED <<given, network, replica, control, files>>

\* No space, no permission, no hard links...
DiskFails(f) ==
  /\ kind[f] = "fetch"
  /\ work[f] \in {"stream", "link"}
  /\ Unwind(f, "error")
  /\ UNCHANGED <<given, network, replica, control, files>>

-------------------------------------------------------------------------------
(* boundedWorkflow and the rest of run.                                    *)

\* The work won the race: its value is printed, or its error is.
Return(f) ==
  /\ main[f] = "run"
  /\ work[f] = "settled"
  /\ IF result[f] = "value"
     THEN /\ outcome' = [outcome EXCEPT ![f] = "ok"]
          /\ main' = [main EXCEPT ![f] = IF kind[f] = "seed" THEN "serve" ELSE "final"]
     ELSE /\ outcome' = [outcome EXCEPT ![f] = "failed"]
          /\ main' = [main EXCEPT ![f] = "final"]
  /\ UNCHANGED <<given, network, replica, work, result, aborted, closed, files>>

\* The timer, SIGINT or SIGTERM won the race: the signal is aborted and closing
\* the registry begins.
Stop(f) ==
  /\ main[f] = "run"
  /\ work[f] # "settled"
  /\ aborted' = [aborted EXCEPT ![f] = TRUE]
  /\ main' = [main EXCEPT ![f] = "close"]
  /\ UNCHANGED <<given, network, replica, work, result, closed, outcome, files>>

\* Mutant: the registry's close is left to the end of the command.
WaitWithoutClosing(f) ==
  /\ main[f] = "close"
  /\ main' = [main EXCEPT ![f] = "wait"]
  /\ UNCHANGED <<given, network, replica, work, result, aborted, closed, outcome,
                 files>>

\* The registry is closed: no peer any more, and pending reads reject.
CloseRegistry(f) ==
  /\ main[f] = "close"
  /\ main' = [main EXCEPT ![f] = "wait"]
  /\ closed' = [closed EXCEPT ![f] = TRUE]
  /\ peer' = [peer EXCEPT ![f] = FALSE]
  /\ UNCHANGED <<given, online, met, replica, work, result, aborted, outcome,
                 files>>

\* Mutant: the interruption is reported without waiting for the work.
GiveUpAtOnce(f) ==
  /\ main[f] = "wait"
  /\ main' = [main EXCEPT ![f] = "final"]
  /\ outcome' = [outcome EXCEPT ![f] = "failed"]
  /\ UNCHANGED <<given, network, replica, work, result, aborted, closed, files>>

\* The work has settled, even with a value: the interruption is what is reported.
GiveUp(f) ==
  /\ main[f] = "wait"
  /\ work[f] = "settled"
  /\ main' = [main EXCEPT ![f] = "final"]
  /\ outcome' = [outcome EXCEPT ![f] = "failed"]
  /\ UNCHANGED <<given, network, replica, work, result, aborted, closed, files>>

\* SIGINT or SIGTERM while seeding.
Shutdown(f) ==
  /\ main[f] = "serve"
  /\ main' = [main EXCEPT ![f] = "final"]
  /\ UNCHANGED <<given, network, replica, work, result, aborted, closed, outcome,
                 files>>

Exit(f) ==
  /\ main[f] = "final"
  /\ main' = [main EXCEPT ![f] = "done"]
  /\ closed' = [closed EXCEPT ![f] = TRUE]
  /\ peer' = [peer EXCEPT ![f] = FALSE]
  /\ UNCHANGED <<given, online, met, replica, work, result, aborted, outcome,
                 files>>

\* The process ends: killed by the system or by a second SIGINT, for which
\* boundedWorkflow has no handler any more, or by an error of the blob stream that
\* comes before the pipeline listens to it.
Kill(f) ==
  /\ main[f] \notin {"idle", "done"}
  /\ main' = [main EXCEPT ![f] = "done"]
  /\ work' = [work EXCEPT ![f] = IF @ = "settled" THEN @ ELSE "killed"]
  /\ closed' = [closed EXCEPT ![f] = TRUE]
  /\ peer' = [peer EXCEPT ![f] = FALSE]
  /\ outcome' = [outcome EXCEPT ![f] = IF @ = "none" THEN "killed" ELSE @]
  /\ UNCHANGED <<given, online, met, replica, result, aborted, files>>

-------------------------------------------------------------------------------
(* The environment.                                                        *)

\* A peer matters while there is work, and has nothing the publisher lacks.
PeerComes(f) ==
  /\ f \notin Writer
  /\ main[f] \in {"run", "close"}
  /\ online[f] /\ ~peer[f]
  /\ peer' = [peer EXCEPT ![f] = TRUE]
  /\ met' = [met EXCEPT ![f] = TRUE]
  /\ UNCHANGED <<given, online, replica, control, work, result, files>>

PeerLeaves(f) ==
  /\ peer[f]
  /\ peer' = [peer EXCEPT ![f] = FALSE]
  /\ UNCHANGED <<given, online, met, replica, control, work, result, files>>

\* Another program creates the output path.
Interfere ==
  /\ dest = None
  /\ dest' = Foreign
  /\ UNCHANGED <<given, network, replica, control, work, result, read, temp>>

WorkStep(f) ==
  \/ FetchMetadata(f) \/ FindManifest(f) \/ MissManifest(f) \/ ReadOffline(f)
  \/ Sync(f) \/ List(f) \/ Reject(f) \/ Resolve(f) \/ MakeTemp(f) \/ OpenFails(f)
  \/ ReadChunk(f) \/ EndStream(f) \/ StreamStops(f) \/ CheckSignal(f) \/ Link(f)
  \/ RemoveTemp(f) \/ RemoveTempFails(f)

MainStep(f) ==
  Return(f) \/ Stop(f) \/ CloseRegistry(f) \/ GiveUp(f) \/ Exit(f)

Next ==
  \/ \E f \in Cmd :
       \/ Start(f) \/ WorkStep(f) \/ MainStep(f) \/ DiskFails(f) \/ Shutdown(f)
       \/ Kill(f) \/ PeerComes(f) \/ PeerLeaves(f)
  \/ Interfere

Spec == Init /\ [][Next]_vars

\* Both tasks of a running command go on: Node schedules what is ready, the timer
\* fires (it is Stop), local file operations and closing the drive end.  Nothing is
\* assumed of peers, of the disk's failures or of the user.
FairSpec ==
  Spec /\ \A f \in Cmd : WF_vars(WorkStep(f)) /\ WF_vars(MainStep(f))

-------------------------------------------------------------------------------
(* Properties.                                                             *)

\* Every variable has its type.
TypeOK ==
  /\ kind \in [Cmd -> Kinds]
  /\ manifest \in Manifest \cup {Invalid, None}
  /\ blob \in Content
  /\ online \in [Cmd -> BOOLEAN] /\ peer \in [Cmd -> BOOLEAN] /\ met \in [Cmd -> BOOLEAN]
  /\ meta \in [Cmd -> {"stale", "known", "cached"}]
  /\ have \in [Cmd -> 0..MaxLen]
  /\ main \in [Cmd -> {"idle", "run", "close", "wait", "serve", "final", "done"}]
  /\ work \in [Cmd -> {"none", "read1", "sync", "read2", "list", "resolve", "open",
                       "stream", "check", "link", "remove", "settled", "killed"}]
  /\ result \in [Cmd -> {"none", "value", "error", "miss", "leftover"}]
  /\ aborted \in [Cmd -> BOOLEAN] /\ closed \in [Cmd -> BOOLEAN]
  /\ read \in [Cmd -> Content]
  /\ temp \in [Cmd -> BOOLEAN]
  /\ dest \in [by : Cmd, bytes : Content] \cup {Foreign, None}
  /\ outcome \in [Cmd -> {"none", "ok", "failed", "killed"}]

Delivered(f) == dest \notin {None, Foreign} /\ dest.by = f

\* What a fetch has put at the output path is the artifact, whole, and so it was
\* when it appeared, whatever became of the fetch.
OutputVerified ==
  \A f \in Cmd : Delivered(f) => manifest \in Manifest /\ Verified(dest.bytes)

\* Whatever is at the output path stays: a fetch replaces neither another program's
\* file nor another fetch's.
NeverReplaces == [][dest # None => dest' = dest]_vars

\* A fetch that printed its manifest has made the output itself.
PrintedMeansDelivered ==
  \A f \in Cmd : kind[f] = "fetch" /\ outcome[f] = "ok" => Delivered(f)

\* A fetch that reports failure has made the output only if it was interrupted
\* after its last look at the signal, or could not remove its temporary file.
FailedMeansUndelivered ==
  \A f \in Cmd : outcome[f] = "failed" /\ Delivered(f) =>
    aborted[f] \/ result[f] = "leftover"

\* A command that reports how it ended has stopped working and has removed its
\* temporary directory, unless that failed: nothing appears behind its back.
NothingAfterReport ==
  \A f \in Cmd : outcome[f] \in {"ok", "failed"} =>
    work[f] = "settled" /\ (temp[f] => result[f] = "leftover")

\* A seed that announces an artifact can serve all of it, and has verified it.
SeedServesVerified ==
  \A f \in Cmd : kind[f] = "seed" /\ outcome[f] = "ok" =>
    have[f] = Len(blob) /\ manifest \in Manifest /\ Verified(blob)

\* A command with a swarm does not report, before a peer has been asked, that an
\* artifact is missing; an interrupted one reports its interruption (registry.ts: "a
\* fresh reader can call sync before DHT discovery completes and incorrectly treat
\* an empty local cache as a registry miss").
NoEarlyMiss ==
  \A f \in Cmd : outcome[f] = "failed" /\ result[f] = "miss" /\ ~aborted[f] =>
    manifest = None \/ met[f] \/ ~online[f] \/ f \in Writer

\* A started command ends or seeds, even if no peer ever comes.
EventuallyReturns == \A f \in Cmd : main[f] = "run" ~> main[f] \in {"serve", "done"}

-------------------------------------------------------------------------------
(* Fetch implements Delivery: seeds and lists deliver nothing.             *)

Genuine == IF manifest \in Manifest /\ Verified(blob) THEN {blob} ELSE {}

Ending == [f \in Cmd |-> IF kind[f] = "fetch" THEN outcome[f] ELSE "none"]

Promise ==
  INSTANCE Delivery WITH genuine <- Genuine, output <- dest, ending <- Ending

\* Whatever is interrupted, aborted or killed, and whoever else uses the output path,
\* the artifact appears there in one step, by a fetch that has not reported yet, and
\* only that fetch can report success.
ImplementsDelivery == Promise!Spec
===============================================================================
