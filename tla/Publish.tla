------------------------------- MODULE Publish --------------------------------
(***************************************************************************)
(* `relay publish` commands run against one state directory: each command  *)
(* is a process that opens the registry, snapshots and hashes its source   *)
(* file, stores the blob, commits the manifest and closes.  Any number of  *)
(* them may be started, in any order and at the same time; the source      *)
(* files change under them; every step may fail; and a process may be      *)
(* killed between any two of its steps (publish installs no signal         *)
(* handler, so Ctrl+C kills it).                                           *)
(*                                                                         *)
(* The drive is the sequence of entries appended to it.  A replica holds a *)
(* prefix of that sequence, so an invariant of every prefix is what any    *)
(* peer can observe.                                                       *)
(***************************************************************************)
EXTENDS Integers, Sequences

CONSTANTS
  Proc,        \* publish commands
  Ref,         \* the NAME@VERSION a command may be given
  ValidRef,    \* those validateReference accepts
  Source,      \* source file paths
  LegalName,   \* those whose base name validateManifest accepts
  Chunk,       \* values of a chunk of a file
  MaxLen,      \* bound: chunks in a file
  Sha256,      \* the digest of each content
  Writable,    \* whether this directory holds the registry's signing key
  Server,      \* another command that opens the directory: seed, fetch or list
  None

Content == UNION {[1..n -> Chunk] : n \in 0..MaxLen}

ASSUME ConstantsAssumption ==
  /\ {None, Server} \cap Proc = {} /\ None # Server
  /\ None \notin Content
  /\ ValidRef \subseteq Ref
  /\ LegalName \subseteq Source
  /\ MaxLen \in Nat
  /\ Writable \in BOOLEAN

Digest == {Sha256[c] : c \in Content}

\* SHA-256 has no collision among the contents at hand.
ASSUME DigestAssumption ==
  /\ \A c, d \in Content : Sha256[c] = Sha256[d] => c = d
  /\ None \notin Digest

VARIABLES
  lock,      \* the process that has the Corestore open, Server or None
  pc,        \* where each process is
  req,       \* what each process was asked to publish
  source,    \* the bytes in each source file
  snapshot,  \* the bytes copied so far into each process's private snapshot
  snapDir,   \* whether each process's temporary directory exists
  reader,    \* the read stream over the snapshot: "none", "open" or "closed"
  digest,    \* what the meter computed over the snapshot
  log,       \* the entries appended to the drive
  outcome    \* what each command reported

vars == <<lock, pc, req, source, snapshot, snapDir, reader, digest, log, outcome>>

local == <<req, snapshot, snapDir, reader, digest>>

\* The request, snapshot and digest of a process that has not got that far.
NoRequest == [ref |-> None, source |-> None]
NoDigest == [sha256 |-> None, size |-> 0]

BlobEntry(id, bytes) == [kind |-> "blob", id |-> id, bytes |-> bytes]
ManifestEntry(r, d) == [kind |-> "manifest", ref |-> r, id |-> d.sha256, size |-> d.size]

IsBlob(i, id) == log[i].kind = "blob" /\ log[i].id = id
IsManifest(i, r) == log[i].kind = "manifest" /\ log[i].ref = r

\* readManifest: the drive has an entry at the manifest's path.
Published(r) == \E i \in 1..Len(log) : IsManifest(i, r)

\* The drive has a blob under this digest.
Stored(id) == \E i \in 1..Len(log) : IsBlob(i, id)

Goto(p, next) == pc' = [pc EXCEPT ![p] = next] /\ UNCHANGED outcome

Fail(p, next) ==
  /\ pc' = [pc EXCEPT ![p] = next]
  /\ outcome' = [outcome EXCEPT ![p] = "failed"]

-------------------------------------------------------------------------------
Init ==
  /\ lock = None
  /\ pc = [p \in Proc |-> "idle"]
  /\ req = [p \in Proc |-> NoRequest]
  /\ source \in [Source -> Content]
  /\ snapshot = [p \in Proc |-> << >>]
  /\ snapDir = [p \in Proc |-> FALSE]
  /\ reader = [p \in Proc |-> "none"]
  /\ digest = [p \in Proc |-> NoDigest]
  /\ log = << >>
  /\ outcome = [p \in Proc |-> "none"]

\* Mutant: opening the Corestore excludes nobody.
OpenShared(p, r, s) ==
  /\ pc[p] = "idle"
  /\ lock' = p
  /\ req' = [req EXCEPT ![p] = [ref |-> r, source |-> s]]
  /\ Goto(p, "check")
  /\ UNCHANGED <<source, snapshot, snapDir, reader, digest, log>>

\* openRegistry: opening the Corestore takes its exclusive lock.
Open(p, r, s) ==
  /\ pc[p] = "idle"
  /\ lock = None
  /\ lock' = p
  /\ req' = [req EXCEPT ![p] = [ref |-> r, source |-> s]]
  /\ Goto(p, "check")
  /\ UNCHANGED <<source, snapshot, snapDir, reader, digest, log>>

\* Another process has the Corestore open: createRegistry throws.
OpenLocked(p) ==
  /\ pc[p] = "idle"
  /\ lock # None
  /\ Fail(p, "done")
  /\ UNCHANGED <<lock, source, log, local>>

\* publishArtifact up to the answer of readManifest.
Refuse(p) ==
  /\ pc[p] = "check"
  /\ \/ req[p].ref \notin ValidRef
     \/ ~Writable
     \/ Published(req[p].ref)
  /\ Fail(p, "close")
  /\ UNCHANGED <<lock, source, log, local>>

\* Mutant: the version is not looked up.
AcceptUnchecked(p) ==
  /\ pc[p] = "check"
  /\ req[p].ref \in ValidRef
  /\ Writable
  /\ Goto(p, "prepare")
  /\ UNCHANGED <<lock, source, log, local>>

Accept(p) ==
  /\ pc[p] = "check"
  /\ req[p].ref \in ValidRef
  /\ Writable
  /\ ~Published(req[p].ref)
  /\ Goto(p, "prepare")
  /\ UNCHANGED <<lock, source, log, local>>

-------------------------------------------------------------------------------
(* files.prepare: open the source, make a temporary directory, and pipe    *)
(* the source through the meter into the snapshot.                         *)

BeginSnapshot(p) ==
  /\ pc[p] = "prepare"
  /\ snapDir' = [snapDir EXCEPT ![p] = TRUE]
  /\ Goto(p, "copy")
  /\ UNCHANGED <<lock, source, log, req, snapshot, reader, digest>>

CopyChunk(p) ==
  LET bytes == source[req[p].source]
      n == Len(snapshot[p])
  IN  /\ pc[p] = "copy"
      /\ n < Len(bytes)
      /\ snapshot' = [snapshot EXCEPT ![p] = Append(@, bytes[n + 1])]
      /\ UNCHANGED <<lock, pc, outcome, source, log, req, snapDir, reader, digest>>

\* End of file: the meter's flush digests the chunks that went through it.
EndSnapshot(p) ==
  /\ pc[p] = "copy"
  /\ Len(snapshot[p]) >= Len(source[req[p].source])
  /\ digest' = [digest EXCEPT ![p] =
                  [sha256 |-> Sha256[snapshot[p]], size |-> Len(snapshot[p])]]
  /\ Goto(p, "manifest")
  /\ UNCHANGED <<lock, source, log, req, snapshot, snapDir, reader>>

\* The drive cannot be read, or prepare rejects: no such file, not a regular
\* file, no space...  It removes the directory it made, unless that fails too.
PrepareFails(p) ==
  /\ pc[p] \in {"check", "prepare", "copy"}
  /\ snapDir' = [snapDir EXCEPT ![p] = FALSE] \/ UNCHANGED snapDir
  /\ Fail(p, "close")
  /\ UNCHANGED <<lock, source, log, req, snapshot, reader, digest>>

-------------------------------------------------------------------------------
(* The rest of publishArtifact: manifest, blob, commit, cleanup.           *)

RejectManifest(p) ==
  /\ pc[p] = "manifest"
  /\ req[p].source \notin LegalName
  /\ Fail(p, "cleanup")
  /\ UNCHANGED <<lock, source, log, local>>

BeginBlob(p) ==
  /\ pc[p] = "manifest"
  /\ req[p].source \in LegalName
  /\ reader' = [reader EXCEPT ![p] = "open"]
  /\ Goto(p, "blob")
  /\ UNCHANGED <<lock, source, log, req, snapshot, snapDir, digest>>

\* Mutant: the blob is streamed from the source file, not from the snapshot.
StoreBlobFromSource(p) ==
  /\ pc[p] = "blob"
  /\ log' = Append(log, BlobEntry(digest[p].sha256, source[req[p].source]))
  /\ Goto(p, "commit")
  /\ UNCHANGED <<lock, source, local>>

\* The drive adds the blob's entry when its write stream finishes; "dedup" lets
\* it keep the entry it already has for the same bytes.
StoreBlob(p) ==
  /\ pc[p] = "blob"
  /\ \/ log' = Append(log, BlobEntry(digest[p].sha256, snapshot[p]))
     \/ Stored(digest[p].sha256) /\ UNCHANGED log
  /\ Goto(p, "commit")
  /\ UNCHANGED <<lock, source, local>>

\* Mutant: the manifest is written while the blob is still being stored.
CommitEarly(p) ==
  /\ pc[p] \in {"blob", "commit"}
  /\ log' = Append(log, ManifestEntry(req[p].ref, digest[p]))
  /\ Goto(p, IF pc[p] = "blob" THEN "blob" ELSE "cleanup")
  /\ UNCHANGED <<lock, source, local>>

CommitManifest(p) ==
  /\ pc[p] = "commit"
  /\ log' = Append(log, ManifestEntry(req[p].ref, digest[p]))
  /\ Goto(p, "cleanup")
  /\ UNCHANGED <<lock, source, local>>

\* writeBlob or writeManifest rejects; what the blob stream wrote is orphaned.
StoreFails(p) ==
  /\ pc[p] \in {"blob", "commit"}
  /\ Fail(p, "cleanup")
  /\ UNCHANGED <<lock, source, log, local>>

\* Mutant: cleanup waits for the reader without destroying it.
ReaderClosesAlone(p) ==
  /\ pc[p] = "commit"
  /\ reader[p] = "open"
  /\ reader' = [reader EXCEPT ![p] = "closed"]
  /\ UNCHANGED <<lock, pc, outcome, source, log, req, snapshot, snapDir, digest>>

\* The stream over the snapshot closes some time after it ended or was destroyed.
ReaderCloses(p) ==
  /\ pc[p] \in {"commit", "cleanup"}
  /\ reader[p] = "open"
  /\ reader' = [reader EXCEPT ![p] = "closed"]
  /\ UNCHANGED <<lock, pc, outcome, source, log, req, snapshot, snapDir, digest>>

\* Mutant: cleanup does not wait for the reader.
CleanupAtOnce(p) ==
  /\ pc[p] = "cleanup"
  /\ snapDir' = [snapDir EXCEPT ![p] = FALSE]
  /\ pc' = [pc EXCEPT ![p] = "close"]
  /\ outcome' = [outcome EXCEPT ![p] = IF @ = "failed" THEN @ ELSE "ok"]
  /\ UNCHANGED <<lock, source, log, req, snapshot, reader, digest>>

\* Mutant: the finally block returns, which swallows the failure.
CleanupSwallows(p) ==
  /\ pc[p] = "cleanup"
  /\ reader[p] # "open"
  /\ snapDir' = [snapDir EXCEPT ![p] = FALSE]
  /\ pc' = [pc EXCEPT ![p] = "close"]
  /\ outcome' = [outcome EXCEPT ![p] = "ok"]
  /\ UNCHANGED <<lock, source, log, req, snapshot, reader, digest>>

\* snapshot.cleanup waits for its readers, then removes the directory; a command
\* that has not failed prints its manifest.
Cleanup(p) ==
  /\ pc[p] = "cleanup"
  /\ reader[p] # "open"
  /\ snapDir' = [snapDir EXCEPT ![p] = FALSE]
  /\ pc' = [pc EXCEPT ![p] = "close"]
  /\ outcome' = [outcome EXCEPT ![p] = IF @ = "failed" THEN @ ELSE "ok"]
  /\ UNCHANGED <<lock, source, log, req, snapshot, reader, digest>>

\* Removing the directory throws out of the finally block.
CleanupFails(p) ==
  /\ pc[p] = "cleanup"
  /\ reader[p] # "open"
  /\ Fail(p, "close")
  /\ UNCHANGED <<lock, source, log, local>>

Close(p) ==
  /\ pc[p] = "close"
  /\ lock' = None
  /\ Goto(p, "done")
  /\ UNCHANGED <<source, log, local>>

\* The process is killed: the system closes its files and releases its lock.
Crash(p) ==
  /\ pc[p] \notin {"idle", "done"}
  /\ lock' = None
  /\ pc' = [pc EXCEPT ![p] = "done"]
  /\ outcome' = [outcome EXCEPT ![p] = IF @ = "none" THEN "crashed" ELSE @]
  /\ reader' = [reader EXCEPT ![p] = IF @ = "open" THEN "closed" ELSE @]
  /\ UNCHANGED <<source, log, req, snapshot, snapDir, digest>>

\* Somebody rewrites a source file.
EditSource(s) ==
  /\ \E c \in Content : source' = [source EXCEPT ![s] = c]
  /\ UNCHANGED <<lock, pc, outcome, log, local>>

\* Another command opens the directory, for as long as it runs, and commits nothing.
Serve ==
  /\ lock = None
  /\ lock' = Server
  /\ UNCHANGED <<pc, outcome, source, log, local>>

StopServing ==
  /\ lock = Server
  /\ lock' = None
  /\ UNCHANGED <<pc, outcome, source, log, local>>

-------------------------------------------------------------------------------
\* What a started process does by itself.
Step(p) ==
  \/ Refuse(p) \/ Accept(p)
  \/ BeginSnapshot(p) \/ CopyChunk(p) \/ EndSnapshot(p) \/ PrepareFails(p)
  \/ RejectManifest(p) \/ BeginBlob(p) \/ StoreBlob(p) \/ CommitManifest(p)
  \/ StoreFails(p) \/ ReaderCloses(p) \/ Cleanup(p) \/ CleanupFails(p)
  \/ Close(p)

Start(p) == OpenLocked(p) \/ \E r \in Ref, s \in Source : Open(p, r, s)

Next ==
  \/ \E p \in Proc : Start(p) \/ Step(p) \/ Crash(p)
  \/ \E s \in Source : EditSource(s)
  \/ Serve \/ StopServing

Spec == Init /\ [][Next]_vars

\* A process that has an enabled step is scheduled eventually; commands need not
\* be started, and nothing forces a crash or an edit.
FairSpec == Spec /\ \A p \in Proc : WF_vars(Step(p))

-------------------------------------------------------------------------------
(* Properties.                                                             *)

PC == {"idle", "check", "prepare", "copy", "manifest", "blob", "commit",
       "cleanup", "close", "done"}

Entry ==
  [kind : {"blob"}, id : Digest, bytes : Content]
    \cup [kind : {"manifest"}, ref : Ref, id : Digest, size : 0..MaxLen]

\* Every variable has its type.
TypeOK ==
  /\ lock \in Proc \cup {Server, None}
  /\ pc \in [Proc -> PC]
  /\ req \in [Proc -> [ref : Ref, source : Source] \cup {NoRequest}]
  /\ source \in [Source -> Content]
  /\ snapshot \in [Proc -> Content]
  /\ snapDir \in [Proc -> BOOLEAN]
  /\ reader \in [Proc -> {"none", "open", "closed"}]
  /\ digest \in [Proc -> [sha256 : Digest, size : 0..MaxLen] \cup {NoDigest}]
  /\ log \in Seq(Entry)
  /\ outcome \in [Proc -> {"none", "ok", "failed", "crashed"}]

\* A manifest is committed only after the blob it names, whole: there is an
\* earlier entry with its digest and its size, so that no peer, whatever prefix
\* of the drive it has, sees an incomplete version (artifacts.ts: "Commit the
\* discoverable version only after the complete blob is stored").
BlobBeforeManifest ==
  \A i \in 1..Len(log) : log[i].kind = "manifest" =>
    \E j \in 1..(i - 1) :
      IsBlob(j, log[i].id) /\ Len(log[j].bytes) = log[i].size

\* The bytes stored under a digest have that digest, although the source file
\* may change between hashing and storing (files.prepare's private snapshot).
ContentAddressed ==
  \A i \in 1..Len(log) :
    log[i].kind = "blob" => Sha256[log[i].bytes] = log[i].id

\* A reference is committed at most once, although publishArtifact looks the
\* version up long before it commits it: nobody publishes in between.
VersionsImmutable ==
  \A i, j \in 1..Len(log) :
    \A r \in Ref : IsManifest(i, r) /\ IsManifest(j, r) => i = j

\* A command that printed its manifest has that manifest, with the digest of its
\* snapshot, in the drive.
AcknowledgedIsPublished ==
  \A p \in Proc : outcome[p] = "ok" =>
    \E i \in 1..Len(log) : log[i] = ManifestEntry(req[p].ref, digest[p])

\* The snapshot is not removed under an open reader.
NoReaderOutlivesSnapshot ==
  \A p \in Proc : reader[p] = "open" => snapDir[p]

\* A command that is about to report failure has committed its version only if
\* what failed is the removal of its snapshot, which is still there.
\* (It is past publishArtifact's check, so nobody else committed the version.)
FailureAfterCommitIsCleanup ==
  \A p \in Proc :
    /\ pc[p] = "close"
    /\ outcome[p] = "failed"
    /\ digest[p] # NoDigest
    /\ Published(req[p].ref)
    => snapDir[p]

\* A command that was started ends, and gives up the directory.
EventuallyDone ==
  \A p \in Proc : pc[p] # "idle" ~> pc[p] = "done" /\ lock # p

-------------------------------------------------------------------------------
(* Publish implements ArtifactRegistry: a reference stands for the blob    *)
(* that its last manifest names (blobs under one digest are all the same). *)

LastManifest(r) ==
  CHOOSE i \in 1..Len(log) :
    IsManifest(i, r) /\ \A j \in (i + 1)..Len(log) : ~IsManifest(j, r)

BlobOf(id) == CHOOSE i \in 1..Len(log) : IsBlob(i, id)

PublishedVersions ==
  [r \in Ref |-> IF Published(r)
                 THEN log[BlobOf(log[LastManifest(r)].id)].bytes
                 ELSE None]

Registry == INSTANCE ArtifactRegistry WITH versions <- PublishedVersions

\* Every version gets its bytes in one step, the commit of its manifest, and
\* keeps them.
ImplementsRegistry == Registry!Spec
===============================================================================
