# A TLA+ model of relayjs

relayjs distributes files between devices that trust each other: a publisher
stores artifacts (a reference `NAME@VERSION`, a manifest, a blob) in a
Hyperdrive; readers replicate the drive over Hyperswarm and export verified
files. This directory holds TLA+ modules translated from its source, the TLC
configurations that check them on small instances, and proofs of their safety
properties for instances of any size.

Paths below are relative to the repository; `registry.ts`, `files.ts`,
`artifacts.ts`, `artifact.ts` and `cli.ts` are the files of that name in `src/`.

## The system

| Component | State it keeps | Operations | Interacts with |
| --- | --- | --- | --- |
| Publish workflow (`artifacts.ts`, `files.ts`, `registry.ts`) | the private snapshot in a temporary directory, its readers, its digest; the drive's entries | look up, snapshot and hash, store blob, commit manifest, clean up | file system, drive, other publish commands (through the Corestore lock) |
| State directory (`registry.ts`) | `registry.json` (registry key, identity, allowlist), the Corestore and its lock | init, join, open, trust, untrust | other commands on the same directory |
| Fetch, mirror, list (`artifacts.ts`, `files.ts`) | the replica, a temporary download, the output path | resolve a manifest, sync, stream and verify, link | peers, timer, signals, other programs at the output path |
| Bounded workflow (`cli.ts`) | a race between work, timer and signals; an abort controller | return, stop, close, wait | the work above |
| Swarm (`registry.ts`) | the connections, `findingPeers`, the allowlist in memory | connect, sync, trust and untrust on a live registry, close | Hyperswarm, Hypercore |
| Stream adapters (`registry.ts`) | flags `finished`, `ended`, `destroyed` | write, final, read, destroy and the events of both sides | Node and streamx streams |
| Domain (`artifact.ts`) | none | validate a reference, a manifest | all of the above |
| Command line (`cli.ts`, `bin/relay.ts`) | none | parse, dispatch, print | all of the above |
| Replication (all of the above) | one replica of the drive per reader | learn, download, look up, export | the publisher's seeds, other readers |
| Work queue of the Bun experiment (`experiments/bun-native`) | a list of pending works per thread | queue, cancel, execute, complete | Node-API, the addon that owns the requests |
| Check of the Bun experiment (`scripts/verify-bun-native.ts`) | its children, a sandbox directory, an exit code | start, time out, interrupt, clean up | child processes, signals |
| Packaging, release workflow | files | package, verify, publish a release | - |

What makes them hard, and what must be true all the same:

- **Publish.** The version is looked up long before it is committed; the source
  may change meanwhile; anything may fail; Ctrl+C kills the process, for publish
  installs no handler. No peer may see a version without its bytes, bytes under
  another digest, or a version that changes; and a command's report must be
  true.
- **State directory.** `registry.json` is read before the lock is taken, created
  in place, replaced by rename. The identity it holds exists nowhere else: it
  must survive, and racing setups must not both believe in their own.
- **Fetch.** Two tasks of one event loop race; the output path is shared with
  other programs; peers come and go. Only the verified artifact may appear, it
  must replace nothing, the report must come after the last effect, and the
  command must end even if nobody answers.
- **Swarm.** Events of the network in any order against calls that await.
- **Stream adapters.** Two kinds of streams with their own events for "full",
  "finished", "failed" and "closed". A pipeline must not succeed early, hang, or
  leave the other stream open.
- **Replication.** A reader looks a manifest up in one state of its replica and
  reads the blob in a later one; publishers come and go. Manifest and blob must
  belong together, and what was acknowledged must get through.
- **Naming.** Names and versions become paths, a pattern takes paths back to
  names, `@` joins them: nothing may be found under another name.
- **Work queue.** A work runs on a thread while the environment thread still
  queues or cancels it, and its completion may free or reuse its request.
- **Check of the experiment.** Signals and timeouts between any two steps; no
  child may be left, and an incomplete check may not look like a passed one.

`PROJECT.json` lists the components, and each hazard at its line with the
properties that watch it.

## The modules

| Module | What it is |
| --- | --- |
| `ArtifactRegistry` | abstract: a version has no bytes, gets all of them in one step, keeps them |
| `Publish` | publish commands in one state directory; implements `ArtifactRegistry` |
| `Distribution` | abstract: extends `ArtifactRegistry` with readers, which obtain published versions whole and keep them |
| `Relay` | composes `Publish` with readers: replicas, downloads, fetches; implements `Distribution` |
| `Membership` | abstract: set up once; the allowlist changes by one peer at a time |
| `StateDirectory` | init, join, open, trust and untrust on one directory; run one at a time, implements `Membership` |
| `Delivery` | abstract: at most one fetch puts the artifact at the output path, in one step, and each ends once |
| `Fetch` | fetch, seed NAME@VERSION and list, each a pair of tasks, with peers and other programs; implements `Delivery` |
| `Swarm` | the overlapping calls of connect, sync, trust, untrust and close on one `Registry` object |
| `Transfer` | abstract: chunks arrive one by one; success only when all have |
| `BlobStream` | one upload or download through a stream adapter; implements `Transfer` |
| `WorkRequests` | abstract: a request runs at most once for each acceptance and is completed once, truthfully |
| `AsyncWork` | `async-work.c` with its threads and its addon; implements `WorkRequests` |
| `Naming` | references, paths and manifests, from publish to fetch and list |
| `NativeCheck` | the script that checks the Bun experiment, and its children |
| `PublishProofs` (with `Relay`), `StateDirectoryProofs`, `FetchProofs`, `SwarmProofs`, `BlobStreamProofs`, `AsyncWorkProofs`, `NativeCheckProofs`, `NamingProofs` | inductive invariants, safety, refinement and bounds on steps, proved |
| `MCPublish`, `MCRelay`, `MCStateDirectory`, `MCFetch`, `MCNaming`, `MCNativeCheck` | values of the constants for TLC |

The modules meet where one takes for granted what another shows. `Publish` takes
`writeBlob` as all or nothing and `Fetch` takes a download as one that ends
whole or fails: `BlobStream` shows it of the adapters. `Fetch` takes sync as a
wait for the first authenticated peer, which `Swarm` shows. `Fetch` lets
manifest and blob be anything; `Relay` says what they are when they come from a
publisher. `Publish` takes a reference as one value: `Naming` shows that this is
what paths and arguments make of it.

Operators whose comment starts with "Mutant" are plausible bugs. Nothing uses
them: each can be put in the place of the definition below it, to see that the
property it breaks is worth something.

### Publish

One process per `relay publish`. `pc` is its place in `run` and
`publishArtifact`:

| `pc` | Code | Actions |
| --- | --- | --- |
| idle | `openRegistry` | `Open`, `OpenLocked` (the Corestore lock is taken or the command fails) |
| check | `artifacts.ts` 12-14 | `Refuse`, `Accept` |
| prepare, copy | `files.prepare` | `BeginSnapshot`, `CopyChunk`, `EndSnapshot`, `PrepareFails` |
| manifest | `validateManifest` | `RejectManifest`, `BeginBlob` (opens the reader) |
| blob | `writeBlob` | `StoreBlob`, `StoreFails` |
| commit | `writeManifest` | `CommitManifest`, `StoreFails`, `ReaderCloses` |
| cleanup | the `finally` block | `ReaderCloses`, `Cleanup`, `CleanupFails` |
| close | `registry.close` | `Close` |

`Serve` and `StopServing` are a `seed` command, which has the store's lock as
long as it runs. `Crash` is a kill between any two steps, `EditSource` somebody
who rewrites a source file, one chunk of which is copied at a time. The drive is
`log`, the sequence of entries appended to it. Hypercore is append-only and a
replica has a prefix of it, so the invariants quantify over the positions of the
log: what holds of an entry and those before it is what every peer sees. An
append is atomic and fails only without effect; this is assumed of Hyperdrive.

### StateDirectory

One process per command. `seen` is what it read of `registry.json` before it
took the lock (the stale copy that the constructor of `Registry` keeps),
`saving` what `_saveTrust` reads again. `CreateConfig` and `FillConfig` are the
two steps of `writeNewConfig`, between which the file does not parse (`Torn`);
`RenameConfig` is the rename of `writeConfig`, whose temporary file has a name
of its own and is left out. `Own` is the key that the directory's Corestore
makes for itself, the same at every `init`. With `Serial`, a command starts only
when no other runs, as `docs/artifact-cli.md` asks of users.

### Fetch

One process per command, with a replica of its own. `main` is its main task
(`run` and `boundedWorkflow`), `work` the promise it races:

| `work` | Code |
| --- | --- |
| read1, sync, read2, resolve | `resolveManifest`, `Registry.readManifest`, `Registry.sync` |
| list | `listManifests` |
| open, stream, check, link, remove | `exportVerified`; seed uses stream alone (`verify`) |
| settled | the promise has a value or an error |

`Stop` is the timer, SIGINT or SIGTERM: it may come in any state of the work.
The steps from `abort` to the rejection, `CloseRegistry` and `GiveUp`,
interleave with the work, which sees `aborted` only where the code looks at the
signal (`throwIfAborted`, the pipeline). The replica is `meta`, how much of the
reference's metadata it has, and `have`, how many of the blob's chunks. A peer
has the whole artifact or does not count; it serves metadata and chunks while it
is connected. `manifest` and `blob` are any manifest and any content, matching
or not: the meter is what must tell. `Interfere` is another program at the
output path. `Sync` takes of `Swarm` that a sync waits for the first
authenticated peer, and that closing the registry, which starts in the same tick
as the abort, releases it.

### Swarm

One `Registry` object, any number of calls. `at` is where each call of trust,
untrust and sync is; connect and close happen once each. A call is cut at its
awaits: `CallTrust`, `CallUntrust`, `CallSync` and `Close` are the code before
the first one, `FinishTrust`, `FinishUntrust`, `EndUpdate` and `EndClose` the
code after it, and between them anything may happen. `finding` is
`_doneFindingPeer`, the handle that keeps Hypercore's update waiting; it is
released by `_releaseFindingPeer` (in `DiscoveryEnds` and in `Open`) and by
`Close`. `conn` is the connection with each peer: `PassFirewall` begins one,
`Open` is the "connection" handler, and between them the allowlist may have
changed. `Ban` is what Hyperswarm does with a peer that the firewall refuses
when it is about to dial it. A save is an await that ends or fails; what it
writes is in `StateDirectory`.

### BlobStream

One pipeline, an upload or a download (`way`). `node` is the Node stream that
the adapter makes, `drive` the streamx stream it wraps; a step is one callback
or one event with every handler it runs. `Write`, `Final` and `Abort` are
`write`, `final` and `destroy` of `asNodeWritable`, `Flush` and `Finish` the
drain and finish events it waits for; `Data`, `End` and `Read` are the events
and `read` of `asNodeReadable`; `Closes` is the error event, if there is one,
and the close event of either. `DriveFails` destroys the drive's stream with or
without an error at any time, which is what closing the registry does. Chunks
keep their order within one stream, so they are counted: handed over (`sent`),
waiting (`buffer`), arrived (`carried`).

### Relay

Extends `Publish` with readers. A replica is a prefix of `log` of length
`known`, with the blobs in `cached`; `Learn` takes it to the length that a peer
has, and `Download` takes a blob from one that has it. `Resolve` is
`resolveManifest`, `Export` reads and verifies the blob (`BlobRead` is what
`readBlob` can give, the empty content where there is no entry); between them
the replica may grow and the publisher do anything. A path holds its last entry
(`SeenManifest`, `SeenBlob`). The publisher is a peer only while `seed` runs
there; the readers always are to one another.

### Naming

No state but the drive's manifests and what publish printed. A text is a
sequence of pieces, one for each class of characters that the patterns of
`artifact.ts` and `registry.ts` tell apart. `Publish` applies
`validateReference`, `pathPart` and `validateManifest` as `publishArtifact`
does; `Fetched` takes an argument through `parseReference`, `readManifest` and
`validateManifest`; `Listed` and `ListFails` are `listManifests` and
`listArtifacts`.

### AsyncWork

`state` is what Node-API knows of a record, `pending` the list, `queueing` and
`completing` the record that a call of the environment thread is at: only that
thread queues, cancels and completes, and threads start and end works between
any two of its steps. `Queue` ends at `napi_queue_async_work`, `Link` is the
rest of the call. `Complete` is `complete` up to the upstream callback, which
may make any call (`completing` stays set), and `Return` frees the record. The
addon (`Free`, `Allocate`) frees a request that it is owed no completion of and
may get the same address for a new one. `relayjs_queue_work` before
`relayjs_async_init` is left out.

### NativeCheck

`main` is where the script is: `next` between two probes, `wait` for the child
that runs one, `cleanup` and `reap` for the `finally` block. A locking probe waits
for its holder's first line (`ready`), for the contender that must not get the
lock (`contend`), for the holder's end (`stop`) and for the runner that must get
it (`wait`). The children of a probe are processes of their own in `child`, which
keeps how each closed: as the probe expects (`ok`), by SIGKILL, or otherwise. Any
child may close in any way at any time, also one that was killed, which may have
been done before. `Interrupt` is the handler, more than once if the user insists;
`TimeOut` is `bounded`. `Die` is a signal before there are handlers, and `Reap`
may fail to remove the sandbox, which ends the script with an error. Probes are
told apart by what their failure does: throw (`run`, and `sigterm` and `sigkill`,
the locking ones by the signal for the holder), be reported (`report`), or set the
exit code (`accept`).

## What is checked

| Run | Instance | Shows |
| --- | --- | --- |
| `publish` | 2 commands, a valid and an invalid reference, 2 sources (one with an illegal name), files of up to 2 chunks, fairness | `BlobBeforeManifest`, `ContentAddressed`, `VersionsImmutable`, `AcknowledgedIsPublished`, `NoReaderOutlivesSnapshot`, `FailureAfterCommitIsCleanup`, `ImplementsRegistry`, `EventuallyDone` |
| `relay` | 2 commands for one reference, 2 readers, files of up to 1 chunk, fairness | `ImplementsDistribution`, `NeverRejected`, `AcknowledgedReachesReaders` |
| `state_overlap` | 3 commands (symmetric) that overlap, 2 keys, 2 peers, malformed arguments | `ReportedStands`, `IdentityStable` |
| `state_serial` | 4 commands (symmetric) one at a time | `ImplementsMembership` |
| `state_lost_trust` | 3 commands that overlap | a violation of `SaveChangesOnlyItsPeer`, see below |
| `fetch_output` | 2 fetches to one path, one by the publisher, up to 1 chunk | `ImplementsDelivery`, `OutputVerified`, `PrintedMeansDelivered`, `FailedMeansUndelivered`, `NothingAfterReport` |
| `fetch_readers` | 1 command of any kind, up to 2 chunks, fairness | `SeedServesVerified`, `NoEarlyMiss`, `EventuallyReturns` |
| `swarm` | 2 calls, 2 peers, fairness | `UntrustedDisconnected`, `TrustedNotBanned`, `SyncNeedsPeer`, `SyncReturns` |
| `blob_stream` | an upload or a download of up to 4 chunks, a buffer of 2, fairness | `ImplementsTransfer`, `BackPressure`, `NoStreamLeft`, `Settles`, `ResumesAfterPause` |
| `async_work` | 2 requests, 3 records, 1 thread, fairness | `ImplementsRequests`, `RequestRetained`, `NoRecordLost`, `EveryCompletionComes` |
| `naming` | names and versions of up to 2 pieces (and one too long), arguments of up to 5, 3 versions | `FetchNamesPublished`, `ListShowsPublished` |
| `native_check` | 7 probes of all kinds with 11 children, fairness | `NothingLeft`, `SuccessMeansProbed`, `AlwaysEnds` |

Each `TypeOK` (and `RelayTypeOK`) is a theorem; the runs spend their properties
on the rest. So are `ExportsPublished`, which `ImplementsDistribution` contains,
and `NeverReplaces`, which `ImplementsDelivery` contains.

The bounds. A republication needs two commands that overlap; contents of lengths
0 to 2 are files cut short, too long, and the empty one. One chunk value is
enough: a manifest's size and digest are chosen independently, so that one may be
right and the other wrong. A lost trust
update needs a setup and two changes. An output race needs two fetches;
everything about one command's replica and peers is within one command, which
runs alone with longer artifacts. Two calls about one peer, or one of them a
sync, are all that the properties of `Swarm` relate; a call whose work is done
can be repeated by another. A reader that learns from a reader needs two of
them. Four chunks through a buffer of two fill it, empty it and fill it again. A
third record lets a request be queued again from within its own completion while
the other request is outstanding; one thread makes works wait, and be cancelled,
in the queue. Two pieces make every combination of a good beginning with a
separator or with ".json", and five pieces every argument made of two such texts
and `@`. Both locking probes, two runs and two reports let every kind of probe
that may fail in its own way come before another. `MaxLen`, `MaxTotal`, `MaxVersions`, `MaxSegment`, `Record` and `Probe`
are the bounds that are not a number of actors or values.

Deadlock is not checked where every command ends and then nothing is left to do;
that they end is checked as liveness instead. In `AsyncWork` it is checked.

Fairness. A process with an enabled step is scheduled (`WF` of `Step`, of
`WorkStep`, of `MainStep`): the operating system and Node do that, local file
operations end, and the timer fires (it is a `MainStep`). In `Swarm`, a save
that has begun ends or fails, a released update resolves, and destroying the
swarm ends. In `BlobStream`, Node's callbacks and the drive's local writes
happen (`Handle`), while a download's next block need not come. In `AsyncWork`
calls and works end (`WF`), and neither the thread pool nor the event loop
passes one work over for ever (`SF`: both take them in order). In `Relay` a
reader asks again and again and its downloads are not starved (`SF`), and
`AcknowledgedReachesReaders` is conditional on a publisher that seeds again and
again. In `NativeCheck` the script and its timers go on and a killed child
closes (if no process that it started holds its output pipes, see below); a child
that is alive need not. Nothing is assumed of peers, discovery,
failures, kills, users, other programs, or of which of several enabled steps is
taken.

### A finding

`state_lost_trust` shows that a `trust` or `untrust` command that overlaps
another can undo its acknowledged change. `openRegistry` reads the allowlist
(`registry.ts` 76) before the Corestore's lock is taken (`registry.ts` 84-92)
and `_saveTrust` (277-281) writes it back from memory. The guide says that a
state directory "is exclusively used by its running process"; the lock that
enforces this comes too late for the allowlist. The key and the identity are
safe, which `IdentityStable` and `ReportedStands` show and the theorems prove.
The overlap is the only cause: `LostTrustNeedsOverlap` proves the property that
the run refutes for commands that run one at a time.

### Observations

Met while modelling; no statement of the repository is contradicted.

- `readBlob` starts the download before `exportVerified` has made its directory
  and its pipeline (`artifacts.ts` 45, `files.ts` 84-87). An error of the stream
  in between has no listener, which ends the process. `Fetch!Kill` stands for it.
- `NativeCheck`: a signal between lines 87 and 88 leaves the sandbox (`Die`); a
  failed acceptance may turn the exit code 130 or 143 of an interruption into 1;
  processes that a probe's child starts are not killed, and while one of them
  holds the child's output pipes, the child does not close and the `finally` block
  waits, without a timeout (217).
- A second Ctrl+C during `fetch` leaves its temporary directory (`Fetch!Kill`).

## What is proved

For constants of any size, from the assumptions named in the modules
(`ConstantsAssumption`, `BoundsAssumption`, `NoneAssumption`: numbers are
numbers and markers are not values; `DigestAssumption`: SHA-256 has no collision
among the contents at hand). None of the properties is inductive; what follows
is what each needs.

`PublishProofs`: each invariant of `publish`, and that `Spec` implements
`ArtifactRegistry`. That a version is committed once rests on what the command
found at its check still being true at its commit, which rests on the store lock
(`Holds`, `Progress`); that a manifest follows its blob rests on the digest
being the snapshot's when the blob is stored (`Digested`, `WholeBlob`); that a
failed command left no version, on where it failed (`Progress`). `IInv` puts
these facts about a command, by its place, together with those about the log.
There is one lemma per action that it keeps `IInv`; steps that leave the log
alone keep the log's part by `LogUnchanged`, and the two that append are done by
hand. The refinement reads off `IInv` that a reference stands for the one blob
of its one manifest (`ReadingVersions`), and then that only `CommitManifest`
changes what any reference stands for.

Its second part is about `Relay`: `ExportsPublished`, `NeverRejected`, and that
`RelaySpec` implements `Distribution`, for any number of readers. The invariants
of the first part are about every position of the log and so about every prefix,
which is what a replica has. On top of them, what a reader is after is a manifest
within its replica (`Wanted`), so its blob is there before it
(`BlobIsPublished`); and what was exported stays what is published, for the log
only grows and versions stay (`Exported`). So an export is the abstract step that
obtains a version, or repeats it; what the publish commands do maps as in the
first part.

`StateDirectoryProofs`, for commands that overlap: `ReportedStands`,
`IdentityStable`. Its invariant says that what a command has read, however long
ago, still has the right key and identity (`Stands`), and that a command about
to create or fill the file has seen none and has the lock (`Writes`, `Holds`).
For commands that run one at a time, which is the hypothesis `Serial` of the
theorems and the constant of `state_serial`: that `Spec` implements `Membership`
in spite of kills at any step, and `SaveChangesOnlyItsPeer`. There a command that
runs is alone (`Alone`), so that what it has read is what the file still says
(`Fresh`).

`FetchProofs`: the six invariants of the two runs, `NeverReplaces`, and that
`Spec` implements `Delivery`. What the
main task reports rests on what the work has come to (`Reports`), that on where
the work is (`Course`), and the files on both (`Leftover`, `Output`). A seed or
a link needs that the bytes that went through the meter are a prefix of the blob
and are in the replica (`Progress`); a miss needs that a look-up that is the
second one was preceded by a peer, an interruption, or the want of a swarm
(`Asked`). One lemma per part, each with one step per group of actions. For the
refinement an output must be the whole blob that the manifest describes
(`OutputGenuine`), and a killed fetch must be past its link (`Reports`).

`SwarmProofs`: `UntrustedDisconnected`, `TrustedNotBanned`, `SyncNeedsPeer`. The
first two are inductive once nothing is connected or banned before connect
(`Unconnected`). That a sync waits for a peer rests on `Waiting`: in an open
registry, the update is released only after a peer was there. `SyncsReleased` is the other
half, the safety part of `SyncReturns`: in whichever order discovery ends, a peer
connects and the registry is closed, the last of them releases the update, so
that `EndUpdate` is never held back when it should run.

`BlobStreamProofs`: `BackPressure`, `NoStreamLeft`, and that `Spec` implements
`Transfer`, for every length and buffer. No chunk is lost between the streams
unless the one it was for is being destroyed (`Conserved`), the Node stream gets
no further than the drive's lets it (`Phases`), and whoever may put a chunk into
the buffer finds room (`Room`).

`AsyncWorkProofs`: `RequestRetained`, `NoRecordLost`, and that `Spec` implements
`WorkRequests`, for any requests, records and threads. Node-API's works are
those on the list and the one being queued (`Linked`), no two are of one request
(`Unique`), and the addon is owed the completion of each linked one (`Owed`).

`NativeCheckProofs`: `NothingLeft` and `SuccessMeansProbed`, for any sequence of
probes. Each place of the script tells how its probe's children have closed
(`Course`) and where there may be children (`Housed`), and a closed child of an
earlier probe stays as it is (`ResultsStay`), so that what is behind the script
has passed. A signal's exit code is never 0 again, a failed report is followed by
the acceptance that sets the code (`Remembered`), and without an error or a
signal the `finally` block comes after the last probe (`Reached`).

`NamingProofs`: `FetchNamesPublished` and `ListShowsPublished`, for texts of any
length (`TextAssumption`: they are sequences of the classes of characters that
the patterns tell apart). A path and an argument are read back by where their
first separator is, and valid names have none (`SegmentIsPlain`), so that two
references have two paths (`PathInjective`) and an argument has one reading
(`ParseReads`). The invariant: the drive has the published manifests and nothing
else, each at its own path, each valid, one for each reference.

Bounds on steps. `StepsAreNumbered`, in `PublishProofs`, `FetchProofs`,
`BlobStreamProofs` and `NativeCheckProofs`, says of a measure of what a command
has left to do (lexicographic: its place, then what is to be read or tried at
this place) that each of its own steps lowers it and that no step of anybody (a
crash, a peer, a signal, an edit of the source, another program) raises it. No
command loops or starts over. In `BlobStreamProofs` every step of either stream and every failure
lowers it: waiting and drain, pausing and reading cannot alternate without a chunk.
This is the safety part of `EventuallyDone`, `EventuallyReturns`, `Settles` and
`AlwaysEnds`; the other part, that a command which has not ended has an enabled
step, is about ENABLED and left to TLC.

Only model-checked: liveness (`EventuallyDone`, `EventuallyReturns`,
`SyncReturns`, `Settles`, `ResumesAfterPause`, `EveryCompletionComes`,
`AcknowledgedReachesReaders`, `AlwaysEnds`), which is out of the prover's reach.

## Not modelled

- Power loss: which unsynced writes survive it depends on the file system. A
  kill of the process, after which the system keeps what was written, is.
- The inside of Hypercore, Hyperdrive, Corestore, Hyperswarm, Node's streams and
  Node-API: appends are atomic, replicas have verified prefixes, the Corestore
  lock excludes, an update waits for a peer, events come as documented. Peers lie
  about nothing; in `Fetch`, manifests and blobs are arbitrary all the same.
- `seed` without an argument beyond the time it serves: it connects and waits
  for a signal.
- Concurrent `trust` and `untrust` calls of one process on `registry.json`
  (`Swarm` takes a save as an await): the command line makes one per process.
- Digits of digests, JSON, the other options, messages, permissions.
- `ports.ts`: declarations.
- `scripts/package.ts`, `scripts/verify-package.ts`, `.github/`: copies and
  commands in sequence. The file operations and the build of the experiment: one
  system call for each, for a caller that is not in the repository.
