---------------------------- MODULE PublishProofs -----------------------------
(***************************************************************************)
(* Proofs that Publish keeps its safety invariants, for every set of       *)
(* commands, references, sources and contents, and that what readers       *)
(* export in Relay is what was published, for every set of readers.        *)
(*                                                                         *)
(* The invariants are not inductive: that a version is committed once      *)
(* rests on the store's lock, which keeps what a command found at its      *)
(* check true until its commit; that a manifest's blob is there rests on   *)
(* the digest being that of the snapshot which was stored.  IInv adds      *)
(* these facts about a command at each point of its course.                *)
(*                                                                         *)
(* RInv, in the second part, adds the readers: what a reader is after is a *)
(* manifest within its replica (Wanted), and what it exported is the       *)
(* version as it is published (Exported), which no step takes back.        *)
(***************************************************************************)
EXTENDS Relay, SequenceTheorems, TLAPS

Working == PC \ {"idle", "done"}

\* Where a command has found that its version does not exist.
Accepted == {"prepare", "copy", "manifest", "blob", "commit"}

Measured(p) ==
  digest[p] = [sha256 |-> Sha256[snapshot[p]], size |-> Len(snapshot[p])]

Committed(p) ==
  \E i \in 1..Len(log) : log[i] = ManifestEntry(req[p].ref, digest[p])

WholeBlob(d, n) ==
  \E j \in 1..n : IsBlob(j, d.sha256) /\ Len(log[j].bytes) = d.size

\* A running command has the lock and a request.
Holds(p) ==
  pc[p] \in Working =>
    lock = p /\ req[p] \in [ref : Ref, source : Source]

\* What a command reported or will report, by where it is.
Reported(p) ==
  /\ pc[p] \in Accepted \cup {"idle", "check"} => outcome[p] = "none"
  /\ outcome[p] = "ok" => pc[p] \in {"close", "done"}

\* The snapshot lives from its creation to its cleanup, its reader within.
SnapshotKept(p) ==
  /\ pc[p] \in {"copy", "manifest", "blob", "commit", "cleanup"} => snapDir[p]
  /\ reader[p] = "open" => pc[p] \in {"blob", "commit", "cleanup"}

Digested(p) ==
  /\ pc[p] \in {"idle", "check", "prepare", "copy"} => digest[p] = NoDigest
  /\ pc[p] \in {"manifest", "blob", "commit"} => Measured(p)

\* What the drive holds of a command's version, by where the command is.
Progress(p) ==
  /\ pc[p] \in Accepted => ~Published(req[p].ref)
  /\ pc[p] = "commit" => WholeBlob(digest[p], Len(log))
  /\ pc[p] = "cleanup" /\ outcome[p] # "failed" => Committed(p)
  /\ outcome[p] = "ok" => Committed(p)
  /\ pc[p] = "cleanup" /\ outcome[p] = "failed" => ~Published(req[p].ref)
  /\ pc[p] = "close" /\ outcome[p] = "failed" /\ Published(req[p].ref)
       => digest[p] = NoDigest \/ snapDir[p]

CommandInv ==
  \A p \in Proc :
    Holds(p) /\ Reported(p) /\ SnapshotKept(p) /\ Digested(p) /\ Progress(p)

LogInv == BlobBeforeManifest /\ ContentAddressed /\ VersionsImmutable

IInv == TypeOK /\ CommandInv /\ LogInv

-------------------------------------------------------------------------------
(* Contents and the drive's log.                                           *)

\* A content is a sequence of chunks of bounded length.
LEMMA ContentIsSequence ==
  ASSUME NEW c \in Content
  PROVE  c \in Seq(Chunk) /\ Len(c) \in 0..MaxLen
<1>1. PICK n \in 0..MaxLen : c \in [1..n -> Chunk]
  BY DEF Content
<1>2. n \in Nat
  BY ConstantsAssumption
<1> QED
  BY <1>1, <1>2

\* Copying one chunk more of a content gives a content.
LEMMA CopyStaysContent ==
  ASSUME NEW c \in Content, NEW d \in Content, Len(c) < Len(d)
  PROVE  Append(c, d[Len(c) + 1]) \in Content
<1>1. /\ c \in Seq(Chunk) /\ d \in Seq(Chunk)
      /\ Len(c) \in Nat /\ Len(d) \in Nat
      /\ Len(d) <= MaxLen /\ MaxLen \in Nat
  BY ContentIsSequence, ConstantsAssumption
<1> DEFINE n == Len(c) + 1
           e == Append(c, d[n])
<1>2. n \in 0..MaxLen /\ d[n] \in Chunk
  BY <1>1
<1>3. e \in Seq(Chunk) /\ Len(e) = n
  BY <1>1, <1>2
<1>4. e \in [1..n -> Chunk]
  BY <1>3, LenProperties
<1> QED
  BY <1>2, <1>4 DEF Content

\* What appending an entry does to the log.
LEMMA LogGrows ==
  ASSUME TypeOK, NEW e \in Entry, log' = Append(log, e)
  PROVE  /\ log' \in Seq(Entry)
         /\ Len(log) \in Nat
         /\ Len(log') = Len(log) + 1
         /\ \A i \in 1..Len(log) : log'[i] = log[i]
         /\ log'[Len(log) + 1] = e
<1>1. log \in Seq(Entry)
  BY DEF TypeOK
<1> QED
  BY <1>1

\* The empty file is a content; it is what a snapshot starts as.
LEMMA EmptyContent == << >> \in Content
<1>1. << >> \in [1..0 -> Chunk]
  OBVIOUS
<1> QED
  BY ConstantsAssumption DEF Content

-------------------------------------------------------------------------------
(* IInv holds initially.                                                   *)

\* The invariant holds before any command is started.
LEMMA Initially == Init => IInv
<1> SUFFICES ASSUME Init PROVE IInv
  OBVIOUS
<1>1. TypeOK
  BY EmptyContent DEF Init, TypeOK, PC
<1>2. CommandInv
  BY DEF Init, CommandInv, Holds, Reported, SnapshotKept, Digested, Progress,
         Working, Accepted
<1>3. LogInv
  BY DEF Init, LogInv, BlobBeforeManifest, ContentAddressed, VersionsImmutable
<1> QED
  BY <1>1, <1>2, <1>3 DEF IInv

-------------------------------------------------------------------------------
(* Every step keeps IInv.  First the steps that leave the log alone.       *)

\* Without a new entry the log's invariants stay, and so does what it holds.
LEMMA LogUnchanged ==
  ASSUME LogInv, UNCHANGED log
  PROVE  /\ LogInv'
         /\ \A r : Published(r)' <=> Published(r)
         /\ \A d, n : WholeBlob(d, n)' <=> WholeBlob(d, n)
  BY DEF LogInv, BlobBeforeManifest, ContentAddressed, VersionsImmutable,
     Published, WholeBlob, IsBlob, IsManifest

\* A refused command has not touched the drive.
LEMMA RefuseKeeps ==
  ASSUME IInv, NEW p \in Proc, Refuse(p)
  PROVE  IInv'
<1> USE DEF IInv
<1>1. UNCHANGED log
  BY DEF Refuse, local
<1>2. TypeOK'
  BY DEF Refuse, Fail, local, TypeOK, PC
<1>3. CommandInv'
  BY DEF Refuse, Fail, local, TypeOK, CommandInv, Holds, Reported, SnapshotKept,
     Digested, Progress, Committed, Working, Accepted
<1> QED
  BY <1>1, <1>2, <1>3, LogUnchanged

\* The look-up establishes that the version is not published.
LEMMA AcceptKeeps ==
  ASSUME IInv, NEW p \in Proc, Accept(p)
  PROVE  IInv'
<1> USE DEF IInv
<1>1. UNCHANGED log
  BY DEF Accept, local
<1>2. TypeOK'
  BY DEF Accept, Goto, local, TypeOK, PC
<1>3. CommandInv'
  BY LogUnchanged
    DEF Accept, Goto, local, PC, CommandInv, Holds, Reported, SnapshotKept,
      Digested, Progress, Committed, Working
<1> QED
  BY <1>1, <1>2, <1>3, LogUnchanged

\* The snapshot directory exists from here on.
LEMMA BeginSnapshotKeeps ==
  ASSUME IInv, NEW p \in Proc, BeginSnapshot(p)
  PROVE  IInv'
<1> USE DEF IInv
<1>1. UNCHANGED log
  BY DEF BeginSnapshot, local
<1>2. TypeOK'
  BY DEF BeginSnapshot, Goto, TypeOK, PC
<1>3. CommandInv'
  BY LogUnchanged
    DEF BeginSnapshot, Goto, TypeOK, CommandInv, Holds, Reported, SnapshotKept,
      Digested, Progress, Committed, Working, Accepted
<1> QED
  BY <1>1, <1>2, <1>3, LogUnchanged

\* The snapshot stays a content: it is no longer than its source.
LEMMA CopyChunkKeeps ==
  ASSUME IInv, NEW p \in Proc, CopyChunk(p)
  PROVE  IInv'
<1> USE DEF IInv
<1>1. UNCHANGED log
  BY DEF CopyChunk, local
<1>2. TypeOK'
  BY CopyStaysContent DEF CopyChunk, TypeOK, CommandInv, Holds, Working
<1>3. CommandInv'
  BY LogUnchanged
    DEF CopyChunk, TypeOK, CommandInv, Holds, Reported, SnapshotKept, Digested,
      Progress, Measured, Committed
<1> QED
  BY <1>1, <1>2, <1>3, LogUnchanged

\* The digest is that of the snapshot, which changes no more.
LEMMA EndSnapshotKeeps ==
  ASSUME IInv, NEW p \in Proc, EndSnapshot(p)
  PROVE  IInv'
<1> USE DEF IInv
<1>1. UNCHANGED log
  BY DEF EndSnapshot, local
<1>2. TypeOK'
  BY ContentIsSequence DEF EndSnapshot, Goto, TypeOK, PC, Digest
<1>3. CommandInv'
  BY LogUnchanged
    DEF EndSnapshot, Goto, TypeOK, CommandInv, Holds, Reported, SnapshotKept,
      Digested, Progress, Measured, Committed, Working, Accepted
<1> QED
  BY <1>1, <1>2, <1>3, LogUnchanged

\* prepare has published nothing and returned no digest.
LEMMA PrepareFailsKeeps ==
  ASSUME IInv, NEW p \in Proc, PrepareFails(p)
  PROVE  IInv'
<1> USE DEF IInv
<1>1. UNCHANGED log
  BY DEF PrepareFails, local
<1>2. TypeOK'
  BY DEF PrepareFails, Fail, TypeOK, PC
<1>3. CommandInv'
  BY DEF PrepareFails, Fail, TypeOK, CommandInv, Holds, Reported, SnapshotKept,
     Digested, Progress, Committed, Working, Accepted
<1> QED
  BY <1>1, <1>2, <1>3, LogUnchanged

\* A rejected manifest leaves the version unpublished.
LEMMA RejectManifestKeeps ==
  ASSUME IInv, NEW p \in Proc, RejectManifest(p)
  PROVE  IInv'
<1> USE DEF IInv
<1>1. UNCHANGED log
  BY DEF RejectManifest, local
<1>2. TypeOK'
  BY DEF RejectManifest, Fail, local, TypeOK, PC
<1>3. CommandInv'
  BY LogUnchanged
    DEF RejectManifest, Fail, local, TypeOK, CommandInv, Holds, Reported,
      SnapshotKept, Digested, Progress, Committed, Working, Accepted
<1> QED
  BY <1>1, <1>2, <1>3, LogUnchanged

\* The reader is opened on a snapshot that exists.
LEMMA BeginBlobKeeps ==
  ASSUME IInv, NEW p \in Proc, BeginBlob(p)
  PROVE  IInv'
<1> USE DEF IInv
<1>1. UNCHANGED log
  BY DEF BeginBlob, local
<1>2. TypeOK'
  BY DEF BeginBlob, Goto, TypeOK, PC
<1>3. CommandInv'
  BY LogUnchanged
    DEF BeginBlob, Goto, TypeOK, CommandInv, Holds, Reported, SnapshotKept,
      Digested, Progress, Measured, Committed, Working, Accepted
<1> QED
  BY <1>1, <1>2, <1>3, LogUnchanged

\* A failed store leaves the version unpublished.
LEMMA StoreFailsKeeps ==
  ASSUME IInv, NEW p \in Proc, StoreFails(p)
  PROVE  IInv'
<1> USE DEF IInv
<1>1. UNCHANGED log
  BY DEF StoreFails, local
<1>2. TypeOK'
  BY DEF StoreFails, Fail, local, TypeOK, PC
<1>3. CommandInv'
  BY LogUnchanged
    DEF StoreFails, Fail, local, TypeOK, CommandInv, Holds, Reported,
      SnapshotKept, Digested, Progress, Committed, Working, Accepted
<1> QED
  BY <1>1, <1>2, <1>3, LogUnchanged

\* Only the reader changes.
LEMMA ReaderClosesKeeps ==
  ASSUME IInv, NEW p \in Proc, ReaderCloses(p)
  PROVE  IInv'
<1> USE DEF IInv
<1>1. UNCHANGED log
  BY DEF ReaderCloses, local
<1>2. TypeOK'
  BY DEF ReaderCloses, TypeOK
<1>3. CommandInv'
  BY LogUnchanged
    DEF ReaderCloses, CommandInv, Holds, Reported, SnapshotKept, Digested,
      Progress, Measured, Committed
<1> QED
  BY <1>1, <1>2, <1>3, LogUnchanged

\* The snapshot goes when its reader is closed; a command that has not
\* failed is past its commit.
LEMMA CleanupKeeps ==
  ASSUME IInv, NEW p \in Proc, Cleanup(p)
  PROVE  IInv'
<1> USE DEF IInv
<1>1. UNCHANGED log
  BY DEF Cleanup, local
<1>2. TypeOK'
  BY DEF Cleanup, TypeOK, PC
<1>3. CommandInv'
  BY LogUnchanged
    DEF Cleanup, TypeOK, CommandInv, Holds, Reported, SnapshotKept, Digested,
      Progress, Committed, Working, Accepted
<1> QED
  BY <1>1, <1>2, <1>3, LogUnchanged

\* A snapshot that cannot be removed is still there.
LEMMA CleanupFailsKeeps ==
  ASSUME IInv, NEW p \in Proc, CleanupFails(p)
  PROVE  IInv'
<1> USE DEF IInv
<1>1. UNCHANGED log
  BY DEF CleanupFails, local
<1>2. TypeOK'
  BY DEF CleanupFails, Fail, local, TypeOK, PC
<1>3. CommandInv'
  BY DEF CleanupFails, Fail, local, TypeOK, CommandInv, Holds, Reported,
     SnapshotKept, Digested, Progress, Committed, Working, Accepted
<1> QED
  BY <1>1, <1>2, <1>3, LogUnchanged

\* The lock is given up by a command that is done with the drive.
LEMMA CloseKeeps ==
  ASSUME IInv, NEW p \in Proc, Close(p)
  PROVE  IInv'
<1> USE DEF IInv
<1>1. UNCHANGED log
  BY DEF Close, local
<1>2. TypeOK'
  BY DEF Close, Goto, local, TypeOK, PC
<1>3. CommandInv'
  BY DEF Close, Goto, local, TypeOK, CommandInv, Holds, Reported, SnapshotKept,
     Digested, Progress, Committed, Working, Accepted
<1> QED
  BY <1>1, <1>2, <1>3, LogUnchanged

\* A killed command leaves the drive, and its lock to others.
LEMMA CrashKeeps ==
  ASSUME IInv, NEW p \in Proc, Crash(p)
  PROVE  IInv'
<1> USE DEF IInv
<1>1. UNCHANGED log
  BY DEF Crash, local
<1>2. TypeOK'
  BY DEF Crash, TypeOK, PC
<1>3. CommandInv'
  BY DEF Crash, TypeOK, CommandInv, Holds, Reported, SnapshotKept, Digested,
     Progress, Committed, Working, Accepted
<1> QED
  BY <1>1, <1>2, <1>3, LogUnchanged

\* The lock was free, so no other command is at work.
LEMMA OpenKeeps ==
  ASSUME IInv, NEW p \in Proc, NEW r \in Ref, NEW s \in Source, Open(p, r, s)
  PROVE  IInv'
<1> USE DEF IInv
<1>1. UNCHANGED log
  BY DEF Open
<1>2. TypeOK'
  BY DEF Open, Goto, TypeOK, PC
<1>3. CommandInv'
  BY ConstantsAssumption
    DEF Open, Goto, TypeOK, CommandInv, Holds, Reported, SnapshotKept, Digested,
      Progress, Committed, Working, Accepted
<1> QED
  BY <1>1, <1>2, <1>3, LogUnchanged

\* A command that finds the lock taken has done nothing.
LEMMA OpenLockedKeeps ==
  ASSUME IInv, NEW p \in Proc, OpenLocked(p)
  PROVE  IInv'
<1> USE DEF IInv
<1>1. UNCHANGED log
  BY DEF OpenLocked
<1>2. TypeOK'
  BY DEF OpenLocked, Fail, local, TypeOK, PC
<1>3. CommandInv'
  BY LogUnchanged
    DEF OpenLocked, Fail, local, TypeOK, CommandInv, Holds, Reported,
      SnapshotKept, Digested, Progress, Measured, Committed, Working, Accepted
<1> QED
  BY <1>1, <1>2, <1>3, LogUnchanged

\* Another command takes a lock that is free, or gives up its own.
LEMMA ServeKeeps ==
  ASSUME IInv, Serve \/ StopServing
  PROVE  IInv'
<1> USE DEF IInv
<1>1. UNCHANGED log
  BY DEF Serve, StopServing
<1>2. TypeOK'
  BY DEF Serve, StopServing, local, TypeOK
<1>3. \A p \in Proc : pc[p] \notin Working
  BY ConstantsAssumption DEF Serve, StopServing, CommandInv, Holds
<1>4. CommandInv'
  BY <1>3, LogUnchanged
    DEF Serve, StopServing, local, CommandInv, Holds, Reported, SnapshotKept,
      Digested, Progress, Measured, Committed
<1> QED
  BY <1>1, <1>2, <1>4, LogUnchanged

\* No invariant looks at the source files.
LEMMA EditSourceKeeps ==
  ASSUME IInv, NEW s \in Source, EditSource(s)
  PROVE  IInv'
<1> USE DEF IInv
<1>1. UNCHANGED log
  BY DEF EditSource
<1>2. TypeOK'
  BY DEF EditSource, local, TypeOK
<1>3. CommandInv'
  BY LogUnchanged
    DEF EditSource, local, CommandInv, Holds, Reported, SnapshotKept, Digested,
      Progress, Measured, Committed
<1> QED
  BY <1>1, <1>2, <1>3, LogUnchanged

-------------------------------------------------------------------------------
(* The two steps that append to the log.                                   *)

\* Storing the blob: it is the snapshot that was digested.
LEMMA StoreBlobKeeps ==
  ASSUME IInv, NEW p \in Proc, StoreBlob(p)
  PROVE  IInv'
<1> USE DEF IInv
<1> DEFINE e == BlobEntry(digest[p].sha256, snapshot[p])
<1>1. /\ lock = p
      /\ req[p] \in [ref : Ref, source : Source]
      /\ snapshot[p] \in Content
      /\ Measured(p)
      /\ digest[p].sha256 = Sha256[snapshot[p]]
      /\ digest[p].size = Len(snapshot[p])
  BY DEF StoreBlob, CommandInv, Holds, Digested, Measured, Working, TypeOK
<1>2. e \in Entry
  BY <1>1 DEF Entry, BlobEntry, Digest
<1>3. CASE log' = Append(log, e)
  <2>1. TypeOK'
    BY <1>2, LogGrows DEF StoreBlob, Goto, TypeOK, PC, local
  <2>2. LogInv'
    <3>1. BlobBeforeManifest'
      <4>1. /\ Len(log) \in Nat
            /\ Len(log') = Len(log) + 1
            /\ \A i \in 1..Len(log) : log'[i] = log[i]
            /\ log'[Len(log) + 1] = e
        BY <1>2, <1>3, LogGrows
      <4>2. SUFFICES ASSUME NEW i \in 1..Len(log'), log'[i].kind = "manifest"
                     PROVE  \E j \in 1..(i - 1) :
                              /\ log'[j].kind = "blob" /\ log'[j].id = log'[i].id
                              /\ Len(log'[j].bytes) = log'[i].size
        BY DEF BlobBeforeManifest, IsBlob
      <4>3. i \in 1..Len(log)
        BY <4>1, <4>2 DEF BlobEntry
      <4>4. PICK j \in 1..(i - 1) :
              IsBlob(j, log[i].id) /\ Len(log[j].bytes) = log[i].size
        BY <4>1, <4>2, <4>3 DEF LogInv, BlobBeforeManifest
      <4>5. log'[i] = log[i] /\ log'[j] = log[j]
        BY <4>1, <4>3
      <4> QED
        BY <4>4, <4>5 DEF IsBlob
    <3>2. ContentAddressed'
      BY <1>1, <1>3, LogGrows DEF LogInv, ContentAddressed, IsBlob, BlobEntry
    <3>3. VersionsImmutable'
      BY <1>2, <1>3, LogGrows DEF LogInv, VersionsImmutable, IsManifest, BlobEntry
    <3> QED
      BY <3>1, <3>2, <3>3 DEF LogInv
  <2>3. WholeBlob(digest[p], Len(log))'
    BY <1>1, <1>3 DEF StoreBlob, local, WholeBlob, IsBlob, BlobEntry
  <2>4. \A r : Published(r)' <=> Published(r)
    BY <1>3 DEF Published, IsManifest, BlobEntry
  <2>5. \A q \in Proc : Committed(q) => Committed(q)'
    BY DEF StoreBlob, local, Committed
  <2>6. CommandInv'
    BY <1>1, <2>3, <2>4, <2>5
      DEF StoreBlob, Goto, local, PC, CommandInv, Holds, Reported, SnapshotKept,
        Digested, Progress, Measured, Working, Accepted
  <2> QED
    BY <2>1, <2>2, <2>6
<1>4. CASE Stored(digest[p].sha256) /\ UNCHANGED log
  <2>1. TypeOK'
    BY <1>4 DEF StoreBlob, Goto, TypeOK, PC, local
  <2>2. WholeBlob(digest[p], Len(log))
    <3>1. PICK j \in 1..Len(log) : IsBlob(j, digest[p].sha256)
      BY <1>4 DEF Stored
    <3>2. log[j] \in Entry /\ log[j].kind = "blob"
      BY <3>1 DEF TypeOK, IsBlob
    <3>3. log[j].bytes \in Content
      BY <3>2 DEF Entry
    <3>4. Sha256[log[j].bytes] = Sha256[snapshot[p]]
      BY <1>1, <3>1 DEF LogInv, ContentAddressed, IsBlob
    <3>5. log[j].bytes = snapshot[p]
      BY <1>1, <3>3, <3>4, DigestAssumption
    <3> QED
      BY <1>1, <3>1, <3>5 DEF WholeBlob
  <2>3. CommandInv'
    BY <1>1, <1>4, <2>2, LogUnchanged
      DEF StoreBlob, Goto, local, CommandInv, Holds, Reported, SnapshotKept,
        Digested, Progress, Measured, Committed, Accepted
  <2> QED
    BY <1>4, <2>1, <2>3, LogUnchanged
<1> QED
  BY <1>3, <1>4 DEF StoreBlob

\* Committing the manifest: its blob is there and the version was not.
LEMMA CommitManifestKeeps ==
  ASSUME IInv, NEW p \in Proc, CommitManifest(p)
  PROVE  IInv'
<1> USE DEF IInv
<1> DEFINE e == ManifestEntry(req[p].ref, digest[p])
<1>1. /\ lock = p
      /\ req[p] \in [ref : Ref, source : Source]
      /\ ~Published(req[p].ref)
      /\ WholeBlob(digest[p], Len(log))
      /\ Measured(p)
  BY DEF CommitManifest, CommandInv, Holds, Digested, Progress, Working, PC,
     Accepted
<1>2. e \in Entry
  BY <1>1, ContentIsSequence DEF Entry, ManifestEntry, Digest, Measured, TypeOK
<1>3. log' = Append(log, e)
  BY DEF CommitManifest
<1>4. TypeOK'
  BY <1>2 DEF CommitManifest, Goto, TypeOK, PC, local
<1>5. LogInv'
  <2>1. BlobBeforeManifest'
    <3>1. /\ Len(log) \in Nat
          /\ Len(log') = Len(log) + 1
          /\ \A i \in 1..Len(log) : log'[i] = log[i]
          /\ log'[Len(log) + 1] = e
      BY <1>2, <1>3, LogGrows
    <3>2. SUFFICES ASSUME NEW i \in 1..Len(log'), log'[i].kind = "manifest"
                   PROVE  \E j \in 1..(i - 1) :
                            /\ log'[j].kind = "blob" /\ log'[j].id = log'[i].id
                            /\ Len(log'[j].bytes) = log'[i].size
      BY DEF BlobBeforeManifest, IsBlob
    <3>3. CASE i \in 1..Len(log)
      <4>1. PICK j \in 1..(i - 1) :
              IsBlob(j, log[i].id) /\ Len(log[j].bytes) = log[i].size
        BY <3>1, <3>2, <3>3 DEF LogInv, BlobBeforeManifest
      <4>2. log'[i] = log[i] /\ j \in 1..Len(log) /\ log'[j] = log[j]
        BY <3>1, <3>3
      <4> QED
        BY <4>1, <4>2 DEF IsBlob
    <3>4. CASE i = Len(log) + 1
      <4>1. PICK j \in 1..Len(log) :
              IsBlob(j, digest[p].sha256) /\ Len(log[j].bytes) = digest[p].size
        BY <1>1 DEF WholeBlob
      <4>2. log'[j] = log[j] /\ j \in 1..(i - 1)
        BY <3>1, <3>4
      <4>3. log'[i].id = digest[p].sha256 /\ log'[i].size = digest[p].size
        BY <3>1, <3>4 DEF ManifestEntry
      <4> QED
        BY <4>1, <4>2, <4>3 DEF IsBlob
    <3> QED
      BY <3>1, <3>3, <3>4
  <2>2. ContentAddressed'
    BY <1>3 DEF LogInv, ContentAddressed, ManifestEntry
  <2>3. VersionsImmutable'
    BY <1>1, <1>3
      DEF LogInv, VersionsImmutable, Published, IsManifest, ManifestEntry
  <2> QED
    BY <2>1, <2>2, <2>3 DEF LogInv
<1>6. CommandInv'
  BY <1>1, <1>3, LogGrows
    DEF CommitManifest, Goto, local, TypeOK, PC, CommandInv, Holds, Reported,
      SnapshotKept, Digested, Progress, Measured, Committed, Working, Accepted,
      Published, ManifestEntry
<1> QED
  BY <1>4, <1>5, <1>6

-------------------------------------------------------------------------------
(* The invariant and what follows from it.                                 *)

\* Every step keeps the invariant.
LEMMA StepKeeps == IInv /\ [Next]_vars => IInv'
<1> SUFFICES ASSUME IInv, [Next]_vars PROVE IInv'
  OBVIOUS
<1>1. ASSUME NEW p \in Proc, Start(p) PROVE IInv'
  BY <1>1, OpenKeeps, OpenLockedKeeps DEF Start
<1>2. ASSUME NEW p \in Proc, Step(p) PROVE IInv'
  BY <1>2, RefuseKeeps, AcceptKeeps, BeginSnapshotKeeps, CopyChunkKeeps,
     EndSnapshotKeeps, PrepareFailsKeeps, RejectManifestKeeps, BeginBlobKeeps,
     StoreBlobKeeps, CommitManifestKeeps, StoreFailsKeeps, ReaderClosesKeeps,
     CleanupKeeps, CleanupFailsKeeps, CloseKeeps
    DEF Step
<1>3. ASSUME NEW p \in Proc, Crash(p) PROVE IInv'
  BY <1>3, CrashKeeps
<1>4. ASSUME NEW s \in Source, EditSource(s) PROVE IInv'
  BY <1>4, EditSourceKeeps
<1>5. CASE Serve \/ StopServing
  BY <1>5, ServeKeeps
<1>6. CASE UNCHANGED vars
  <2>1. TypeOK'
    BY <1>6 DEF vars, IInv, TypeOK
  <2>2. CommandInv'
    BY <1>6, LogUnchanged
      DEF vars, IInv, CommandInv, Holds, Reported, SnapshotKept, Digested,
        Progress, Measured, Committed
  <2> QED
    BY <1>6, <2>1, <2>2, LogUnchanged DEF vars, IInv
<1> QED
  BY <1>1, <1>2, <1>3, <1>4, <1>5, <1>6 DEF Next

\* Every reachable state satisfies the inductive invariant: a command that is past
\* its check has the lock, its version is unpublished until it commits it, and its
\* blob is in the drive by then.
THEOREM Invariance == Spec => []IInv
  BY Initially, StepKeeps, PTL DEF Spec

\* Every variable has its type, for any number of publish commands.
THEOREM TypeCorrect == Spec => []TypeOK
<1>1. IInv => TypeOK
  BY DEF IInv
<1> QED
  BY <1>1, Invariance, PTL

\* However publish commands fail, are killed and follow one another, a manifest is
\* appended to the drive only after the whole blob it names.
THEOREM BlobsBeforeManifests == Spec => []BlobBeforeManifest
<1>1. IInv => BlobBeforeManifest
  BY DEF IInv, LogInv
<1> QED
  BY <1>1, Invariance, PTL

\* The bytes stored under a digest have that digest, whatever becomes of the
\* source file while it is published.
THEOREM BlobsContentAddressed == Spec => []ContentAddressed
<1>1. IInv => ContentAddressed
  BY DEF IInv, LogInv
<1> QED
  BY <1>1, Invariance, PTL

\* No two manifests are committed for one reference: the store lock makes
\* publishArtifact's look-up still true when it commits.
THEOREM VersionsCommittedOnce == Spec => []VersionsImmutable
<1>1. IInv => VersionsImmutable
  BY DEF IInv, LogInv
<1> QED
  BY <1>1, Invariance, PTL

\* A publish command that reported success has its manifest in the drive.
THEOREM AcknowledgementsHold == Spec => []AcknowledgedIsPublished
<1>1. IInv => AcknowledgedIsPublished
  BY DEF IInv, CommandInv, Progress, Committed, AcknowledgedIsPublished
<1> QED
  BY <1>1, Invariance, PTL

\* snapshot.cleanup never removes the snapshot under an open reader.
THEOREM ReadersEndFirst == Spec => []NoReaderOutlivesSnapshot
<1>1. IInv => NoReaderOutlivesSnapshot
  BY DEF IInv, CommandInv, SnapshotKept, NoReaderOutlivesSnapshot
<1> QED
  BY <1>1, Invariance, PTL

\* A publish command that fails has committed its version only if what failed is
\* the removal of its snapshot.
THEOREM LateFailuresAreCleanups == Spec => []FailureAfterCommitIsCleanup
<1>1. IInv => FailureAfterCommitIsCleanup
  BY DEF IInv, CommandInv, Progress, FailureAfterCommitIsCleanup
<1> QED
  BY <1>1, Invariance, PTL

-------------------------------------------------------------------------------
(* Publish implements ArtifactRegistry.                                    *)

\* What PublishedVersions is, without its choices of entries.
VersionsRead ==
  /\ PublishedVersions = [r \in Ref |-> PublishedVersions[r]]
  /\ \A r \in Ref : ~Published(r) => PublishedVersions[r] = None
  /\ \A r \in Ref : \A i, j \in 1..Len(log) :
       IsManifest(i, r) /\ IsBlob(j, log[i].id) =>
         PublishedVersions[r] = log[j].bytes

\* With the invariant, the choices of PublishedVersions have one outcome.
LEMMA ReadingVersions == IInv => VersionsRead
<1> SUFFICES ASSUME IInv PROVE VersionsRead
  OBVIOUS
<1>1. PublishedVersions = [r \in Ref |-> PublishedVersions[r]]
  BY DEF PublishedVersions
<1>2. ASSUME NEW r \in Ref, ~Published(r) PROVE PublishedVersions[r] = None
  BY <1>2 DEF PublishedVersions
<1>3. ASSUME NEW r \in Ref, NEW i \in 1..Len(log), NEW j \in 1..Len(log),
             IsManifest(i, r), IsBlob(j, log[i].id)
      PROVE  PublishedVersions[r] = log[j].bytes
  <2>1. LastManifest(r) = i
    <3>1. \A k \in (i + 1)..Len(log) : ~IsManifest(k, r)
      BY <1>3 DEF IInv, LogInv, VersionsImmutable
    <3>2. \A k \in 1..Len(log) : IsManifest(k, r) => k = i
      BY <1>3 DEF IInv, LogInv, VersionsImmutable
    <3> QED
      BY <3>2 DEF LastManifest
  <2> DEFINE k == BlobOf(log[i].id)
  <2>2. k \in 1..Len(log) /\ IsBlob(k, log[i].id)
    BY <1>3 DEF BlobOf
  <2>3. log[j] \in Entry /\ log[k] \in Entry
    BY <2>2 DEF IInv, TypeOK
  <2>4. log[j].bytes \in Content /\ log[k].bytes \in Content
    BY <1>3, <2>2, <2>3 DEF Entry, IsBlob
  <2>5. Sha256[log[j].bytes] = Sha256[log[k].bytes]
    BY <1>3, <2>2 DEF IInv, LogInv, ContentAddressed, IsBlob
  <2>6. log[j].bytes = log[k].bytes
    BY <2>4, <2>5, DigestAssumption
  <2>7. Published(r)
    BY <1>3 DEF Published
  <2> QED
    BY <2>1, <2>6, <2>7 DEF PublishedVersions
<1> QED
  BY <1>1, <1>2, <1>3 DEF VersionsRead

\* A reference that is neither published nor withdrawn keeps what it stands for.
LEMMA VersionKept ==
  ASSUME IInv, VersionsRead, VersionsRead', NEW r \in Ref,
         Published(r)' <=> Published(r),
         \A i \in 1..Len(log) : i \in 1..Len(log') /\ log'[i] = log[i]
  PROVE  PublishedVersions'[r] = PublishedVersions[r]
<1>1. CASE Published(r)
  <2>1. PICK i \in 1..Len(log) : IsManifest(i, r)
    BY <1>1 DEF Published
  <2>2. PICK j \in 1..(i - 1) : IsBlob(j, log[i].id)
    BY <2>1 DEF IInv, LogInv, BlobBeforeManifest, IsManifest
  <2>3. j \in 1..Len(log)
    OBVIOUS
  <2>4. IsManifest(i, r)' /\ IsBlob(j, log[i].id)'
    BY <2>1, <2>2 DEF IsManifest, IsBlob
  <2>5. PublishedVersions'[r] = log'[j].bytes
    BY <2>4 DEF VersionsRead
  <2> QED
    BY <2>1, <2>2, <2>5 DEF VersionsRead
<1>2. CASE ~Published(r)
  BY <1>2 DEF VersionsRead
<1> QED
  BY <1>1, <1>2

\* Only the commit of a manifest changes what is published, and it publishes.
LEMMA StepRefines ==
  ASSUME IInv, VersionsRead, VersionsRead', [Next]_vars
  PROVE  [Registry!Next]_PublishedVersions
<1>1. ASSUME \A r : Published(r)' <=> Published(r),
             \A i \in 1..Len(log) : i \in 1..Len(log') /\ log'[i] = log[i]
      PROVE  PublishedVersions' = PublishedVersions
  <2>1. \A r \in Ref : PublishedVersions'[r] = PublishedVersions[r]
    BY <1>1, VersionKept
  <2> QED
    BY <2>1 DEF VersionsRead
<1>2. CASE UNCHANGED log
  BY <1>1, <1>2, LogUnchanged DEF IInv
<1>3. ASSUME NEW p \in Proc, StoreBlob(p)
      PROVE  PublishedVersions' = PublishedVersions
  <2> DEFINE e == BlobEntry(digest[p].sha256, snapshot[p])
  <2>1. e \in Entry
    BY <1>3
      DEF StoreBlob, IInv, CommandInv, Digested, Measured, TypeOK, Entry,
        BlobEntry, Digest
  <2>2. CASE log' = Append(log, e)
    <3>1. \A r : Published(r)' <=> Published(r)
      BY <2>2 DEF Published, IsManifest, BlobEntry
    <3> QED
      BY <1>1, <2>2, <3>1
  <2> QED
    BY <1>1, <1>3, <2>2, LogUnchanged DEF StoreBlob, IInv
<1>4. ASSUME NEW p \in Proc, CommitManifest(p)
      PROVE  Registry!Next
  <2> DEFINE e == ManifestEntry(req[p].ref, digest[p])
  <2>n. PICK n \in Nat : n = Len(log) + 1
    BY DEF IInv, TypeOK
  <2>r. PICK ref \in Ref : ref = req[p].ref
    BY <1>4 DEF CommitManifest, IInv, CommandInv, Holds, Working, PC
  <2>1. /\ req[p] \in [ref : Ref, source : Source]
        /\ ~Published(ref)
        /\ WholeBlob(digest[p], Len(log))
        /\ Measured(p)
    BY <1>4, <2>r
      DEF CommitManifest, IInv, CommandInv, Holds, Progress, Digested, Working,
        PC, Accepted
  <2>2. e \in Entry
    BY <2>1, ContentIsSequence
      DEF IInv, TypeOK, Entry, ManifestEntry, Digest, Measured
  <2>3. /\ Len(log) \in Nat
        /\ Len(log') = n
        /\ \A i \in 1..Len(log) : log'[i] = log[i]
        /\ log'[n] = e
    BY <1>4, <2>n DEF CommitManifest
  <2>4. PICK j \in 1..Len(log) : IsBlob(j, digest[p].sha256)
    BY <2>1 DEF WholeBlob
  <2>5. log[j] \in Entry /\ log[j].bytes \in Content
    BY <2>4 DEF IInv, TypeOK, Entry, IsBlob
  <2>6. IsManifest(n, ref)' /\ IsBlob(j, log[n].id)'
    BY <2>3, <2>4, <2>r DEF IsManifest, IsBlob, ManifestEntry
  <2>7. PublishedVersions'[ref] = log[j].bytes
    BY <2>3, <2>6, <2>n DEF VersionsRead
  <2>8. \A r \in Ref : r # ref => PublishedVersions'[r] = PublishedVersions[r]
    <3> SUFFICES ASSUME NEW r \in Ref, r # ref
                 PROVE  PublishedVersions'[r] = PublishedVersions[r]
      OBVIOUS
    <3>1. Published(r)' <=> Published(r)
      BY <2>3, <2>r, <2>n DEF Published, IsManifest, ManifestEntry
    <3> QED
      BY <2>3, <2>n, <3>1, VersionKept
  <2>9. PublishedVersions[ref] = None
    BY <2>1 DEF VersionsRead
  <2>10. PublishedVersions' = [PublishedVersions EXCEPT ![ref] = log[j].bytes]
    BY <2>7, <2>8 DEF VersionsRead
  <2> QED
    BY <2>5, <2>9, <2>10 DEF Registry!Next, Registry!Publish
<1> QED
  BY <1>2, <1>3, <1>4
    DEF Next, Start, Step, vars, Open, OpenLocked, Refuse, Accept,
      BeginSnapshot, CopyChunk, EndSnapshot, PrepareFails, RejectManifest,
      BeginBlob, StoreFails, ReaderCloses, Cleanup, CleanupFails, Close, Crash,
      EditSource, Serve, StopServing

\* Every behaviour of the publish commands is one of ArtifactRegistry: a version
\* gets all its bytes in one step and keeps them.
THEOREM PublishImplementsRegistry == Spec => ImplementsRegistry
<1>1. Init => Registry!Init
  BY DEF Init, Registry!Init, PublishedVersions, Published
<1>2. IInv /\ VersionsRead /\ VersionsRead' /\ [Next]_vars
        => [Registry!Next]_PublishedVersions
  BY StepRefines
<1> QED
  BY <1>1, <1>2, Invariance, ReadingVersions, PTL
  DEF Spec, ImplementsRegistry, Registry!Spec
-------------------------------------------------------------------------------
(* Every command's steps are numbered.                                     *)

\* How many places a command has before it, and what it has to do at this one.
Stage ==
  [idle |-> 9, check |-> 8, prepare |-> 7, copy |-> 6, manifest |-> 5, blob |-> 4,
   commit |-> 3, cleanup |-> 2, close |-> 1, done |-> 0]

Left(p) == (MaxLen - Len(snapshot[p])) + (IF reader[p] = "open" THEN 1 ELSE 0)

Nearer(p) ==
  \/ Stage[pc'[p]] < Stage[pc[p]]
  \/ pc'[p] = pc[p] /\ Left(p)' < Left(p)

NoFurther(p) == Nearer(p) \/ (pc'[p] = pc[p] /\ Left(p)' = Left(p))

\* A command that was started never has more to do than before, whatever it and the
\* others do, however the source file grows meanwhile; each step of its own leaves less.
StepsNumbered ==
  [][\A p \in Proc : NoFurther(p) /\ (Step(p) => Nearer(p))]_vars

\* What is left to do is a number.
LEMMA LeftIsNumber ==
  ASSUME TypeOK, NEW p \in Proc
  PROVE  Left(p) \in Nat /\ Len(snapshot[p]) \in 0..MaxLen /\ MaxLen \in Nat
<1>1. Len(snapshot[p]) \in 0..MaxLen /\ MaxLen \in Nat
  BY ContentIsSequence, ConstantsAssumption DEF TypeOK
<1> QED
  BY <1>1 DEF Left

\* A step of the command's own: to the next place, one more chunk, or the end of
\* the reader.
LEMMA StepIsNearer ==
  ASSUME TypeOK, TypeOK', NEW p \in Proc, Step(p)
  PROVE  Nearer(p)
<1>1. CASE CopyChunk(p)
  <2>1. /\ pc'[p] = pc[p] /\ reader' = reader
        /\ snapshot'[p] = Append(snapshot[p], source[req[p].source][Len(snapshot[p]) + 1])
    BY <1>1 DEF CopyChunk, TypeOK
  <2>2. snapshot[p] \in Seq(Chunk)
    BY ContentIsSequence DEF TypeOK
  <2>3. Len(snapshot'[p]) = Len(snapshot[p]) + 1
    BY <2>1, <2>2
  <2> QED
    BY <2>1, <2>3, LeftIsNumber DEF Nearer, Left
<1>2. CASE ReaderCloses(p)
  <2>1. /\ pc'[p] = pc[p] /\ snapshot' = snapshot
        /\ reader[p] = "open" /\ reader'[p] = "closed"
    BY <1>2 DEF ReaderCloses, TypeOK
  <2> QED
    BY <2>1, LeftIsNumber DEF Nearer, Left
<1>3. CASE ~CopyChunk(p) /\ ~ReaderCloses(p)
  BY <1>3
    DEF Nearer, Stage, TypeOK, Step, Goto, Fail, Refuse, Accept, BeginSnapshot,
      EndSnapshot, PrepareFails, RejectManifest, BeginBlob, StoreBlob, CommitManifest,
      StoreFails, Cleanup, CleanupFails, Close
<1> QED
  BY <1>1, <1>2, <1>3

\* Publish commands take boundedly many steps, each of which brings them nearer to
\* their end: nothing makes one start over or wait for the same thing again.
THEOREM StepsAreNumbered == Spec => StepsNumbered
<1>1. IInv /\ IInv' /\ [Next]_vars
        => [\A p \in Proc : NoFurther(p) /\ (Step(p) => Nearer(p))]_vars
  <2> SUFFICES ASSUME IInv, IInv', [Next]_vars, NEW p \in Proc
               PROVE  NoFurther(p) /\ (Step(p) => Nearer(p))
    OBVIOUS
  <2>1. TypeOK /\ TypeOK'
    BY DEF IInv
  <2>2. Step(p) => Nearer(p)
    BY <2>1, StepIsNearer
  <2>3. ASSUME Crash(p) \/ Start(p) PROVE NoFurther(p)
    BY <2>1, <2>3
      DEF Crash, Start, Open, OpenLocked, Goto, Fail, NoFurther, Nearer, Stage, TypeOK, PC
  <2>4. ASSUME pc'[p] = pc[p], snapshot'[p] = snapshot[p], reader'[p] = reader[p]
        PROVE  NoFurther(p)
    BY <2>4 DEF NoFurther, Left
  <2>5. ASSUME NEW q \in Proc, q # p, Start(q) \/ Step(q) \/ Crash(q)
        PROVE  pc'[p] = pc[p] /\ snapshot'[p] = snapshot[p] /\ reader'[p] = reader[p]
    BY <2>1, <2>5
      DEF TypeOK, local, Goto, Fail, Start, Open, OpenLocked, Step, Crash, Refuse, Accept,
        BeginSnapshot, CopyChunk, EndSnapshot, PrepareFails, RejectManifest, BeginBlob,
        StoreBlob, CommitManifest, StoreFails, ReaderCloses, Cleanup, CleanupFails, Close
  <2>6. ASSUME (\E s \in Source : EditSource(s)) \/ Serve \/ StopServing \/ UNCHANGED vars
        PROVE  NoFurther(p)
    BY <2>4, <2>6 DEF EditSource, Serve, StopServing, vars, local
  <2> QED
    BY <2>2, <2>3, <2>4, <2>5, <2>6 DEF Next, NoFurther
<1> QED
  BY <1>1, Invariance, PTL DEF Spec, StepsNumbered

-------------------------------------------------------------------------------
(* The readers.                                                            *)


Wanted ==
  \A d \in Reader : want[d] # None =>
    \E i \in 1..known[d] : want[d] = log[i] /\ log[i].kind = "manifest"

Exported ==
  \A d \in Reader, r \in Ref :
    /\ export[d][r].how \in {"none", "verified"}
    /\ export[d][r].how = "verified" =>
         Published(r) /\ export[d][r].bytes = PublishedVersions[r]

RInv == IInv /\ RelayTypeOK /\ Wanted /\ Exported

-------------------------------------------------------------------------------
(* The drive grows.                                                        *)

\* Appending keeps what was there.
LEMMA AppendKeeps ==
  ASSUME NEW S, NEW s \in Seq(S), NEW e
  PROVE  /\ Len(s) <= Len(Append(s, e))
         /\ \A i \in 1..Len(s) : i \in 1..Len(Append(s, e)) /\ Append(s, e)[i] = s[i]
  OBVIOUS

\* The entries that the drive has stay where they are.
LogKept ==
  Len(log) <= Len(log') /\ \A i \in 1..Len(log) : i \in 1..Len(log') /\ log'[i] = log[i]

\* Publish commands only append.
LEMMA NextKeepsLog == IInv /\ [Next]_vars => LogKept
<1> SUFFICES ASSUME IInv, [Next]_vars PROVE LogKept
  OBVIOUS
<1>1. log \in Seq(Entry) /\ Len(log) \in Nat
  BY DEF IInv, TypeOK
<1>2. CASE UNCHANGED log
  BY <1>1, <1>2 DEF LogKept
<1>3. ASSUME NEW e, log' = Append(log, e) PROVE LogKept
  BY <1>1, <1>3, AppendKeeps DEF LogKept
<1>4. ASSUME NEW p \in Proc, StoreBlob(p) \/ CommitManifest(p) PROVE LogKept
  BY <1>2, <1>3, <1>4 DEF StoreBlob, CommitManifest
<1> QED
  BY <1>2, <1>4
    DEF Next, Start, Step, vars, local, Goto, Fail, Open, OpenLocked, Refuse, Accept,
      BeginSnapshot, CopyChunk, EndSnapshot, PrepareFails, RejectManifest,
      BeginBlob, StoreFails, ReaderCloses, Cleanup, CleanupFails, Close, Crash,
      EditSource, Serve, StopServing

-------------------------------------------------------------------------------
(* What a reader reads.                                                    *)

\* The blob that a reader with a manifest reads is the version that is published.
LEMMA BlobIsPublished ==
  ASSUME RInv, NEW d \in Reader, want[d] # None, NEW bytes \in BlobRead(d, want[d].id)
  PROVE  /\ want[d].ref \in Ref /\ Published(want[d].ref)
         /\ bytes \in Content /\ bytes = PublishedVersions[want[d].ref]
         /\ Matches(want[d], bytes)
<1>1. PICK i \in 1..known[d] : want[d] = log[i] /\ log[i].kind = "manifest"
  BY DEF RInv, Wanted
<1>2. i \in 1..Len(log) /\ log[i] \in Entry /\ known[d] \in 0..Len(log) /\ Len(log) \in Nat
  BY <1>1 DEF RInv, IInv, TypeOK, RelayTypeOK
<1>3. log[i].ref \in Ref /\ IsManifest(i, log[i].ref)
  BY <1>1, <1>2 DEF Entry, IsManifest
<1>4. PICK j \in 1..(i - 1) : IsBlob(j, log[i].id) /\ Len(log[j].bytes) = log[i].size
  BY <1>1, <1>2 DEF RInv, IInv, LogInv, BlobBeforeManifest
<1>5. j \in 1..known[d] /\ j \in 1..Len(log)
  BY <1>2
<1>6. PICK k \in cached[d] : IsBlob(k, log[i].id) /\ bytes = log[k].bytes
  BY <1>1, <1>4, <1>5 DEF BlobRead, SeenBlob
<1>7. k \in 1..Len(log)
  BY <1>2 DEF RInv, RelayTypeOK
<1>8. log[j] \in Entry /\ log[k] \in Entry
  BY <1>5, <1>7 DEF RInv, IInv, TypeOK
<1>9. log[j].bytes \in Content /\ log[k].bytes \in Content
  BY <1>4, <1>6, <1>8 DEF Entry, IsBlob
<1>10. Sha256[log[j].bytes] = log[i].id /\ Sha256[log[k].bytes] = log[i].id
  BY <1>4, <1>5, <1>6, <1>7 DEF RInv, IInv, LogInv, ContentAddressed, IsBlob
<1>11. log[j].bytes = log[k].bytes
  BY <1>9, <1>10, DigestAssumption
<1>12. PublishedVersions[log[i].ref] = bytes
  BY <1>2, <1>3, <1>6, <1>7, ReadingVersions DEF RInv, VersionsRead
<1>13. Matches(log[i], bytes)
  BY <1>4, <1>6, <1>10, <1>11 DEF Matches
<1> QED
  BY <1>1, <1>2, <1>3, <1>6, <1>9, <1>12, <1>13 DEF Published

-------------------------------------------------------------------------------
\* The invariant holds while nobody knows anything.
LEMMA RelayInitially == RelayInit => RInv
<1> SUFFICES ASSUME RelayInit PROVE RInv
  OBVIOUS
<1>1. IInv
  BY Initially DEF RelayInit
<1>2. Len(log) \in Nat
  BY <1>1 DEF IInv, TypeOK
<1>3. RelayTypeOK
  <2>1. 0 \in 0..Len(log)
    BY <1>2
  <2>2. Nothing \in [how : {"none", "verified", "rejected"}, bytes : Content]
    BY EmptyContent DEF Nothing
  <2>3. export \in [Reader -> [Ref -> [how : {"none", "verified", "rejected"},
                                       bytes : Content]]]
    BY <2>2 DEF RelayInit
  <2> QED
    BY <2>1, <2>3 DEF RelayInit, RelayTypeOK
<1>4. Wanted /\ Exported
  BY DEF RelayInit, Wanted, Exported, Nothing
<1> QED
  BY <1>1, <1>3, <1>4 DEF RInv

\* A step that leaves the readers alone keeps what they have.
LEMMA PublisherKeeps ==
  ASSUME RInv, [Next]_vars, UNCHANGED readers PROVE RInv'
<1>1. IInv'
  BY StepKeeps DEF RInv
<1>2. LogKept /\ Len(log) \in Nat /\ Len(log') \in Nat
  BY <1>1, NextKeepsLog DEF RInv, IInv, TypeOK
<1>3. RelayTypeOK'
  <2> USE DEF RInv, RelayTypeOK, readers, LogKept
  <2>1. 0..Len(log) \subseteq 0..Len(log') /\ 1..Len(log) \subseteq 1..Len(log')
    BY <1>2
  <2>2. {log[i] : i \in 1..Len(log)} \subseteq {log'[i] : i \in 1..Len(log')}
    BY <1>2
  <2>3. known' \in [Reader -> 0..Len(log')]
    BY <2>1
  <2>4. cached' \in [Reader -> SUBSET (1..Len(log'))]
    BY <2>1
  <2>5. want' \in [Reader -> {None} \cup {log'[i] : i \in 1..Len(log')}]
    BY <2>2
  <2> QED
    BY <2>3, <2>4, <2>5
<1>4. \A d \in Reader : known[d] \in 0..Len(log)
  BY DEF RInv, RelayTypeOK
<1>5. Wanted'
  BY <1>2, <1>4 DEF RInv, Wanted, readers, LogKept
<1>6. ASSUME NEW r \in Ref, Published(r)
      PROVE  Published(r)' /\ PublishedVersions'[r] = PublishedVersions[r]
  <2>1. Published(r)'
    BY <1>2, <1>6 DEF Published, IsManifest, LogKept
  <2>2. VersionsRead /\ VersionsRead'
    BY <1>1, ReadingVersions, PTL DEF RInv
  <2> QED
    BY <1>2, <1>6, <2>1, <2>2, VersionKept DEF LogKept, RInv
<1>7. Exported'
  BY <1>6 DEF RInv, Exported, readers
<1> QED
  BY <1>1, <1>3, <1>5, <1>7 DEF RInv

\* Nor does what a reader does change what is published.
LEMMA PublishedStays ==
  ASSUME UNCHANGED vars
  PROVE  /\ IInv => IInv'
         /\ PublishedVersions' = PublishedVersions
         /\ \A r : Published(r)' <=> Published(r)
<1>1. IInv => IInv'
  BY StepKeeps
<1>2. log' = log
  BY DEF vars
<1> QED
  BY <1>1, <1>2
  DEF PublishedVersions, Published, IsManifest, IsBlob, BlobOf, LastManifest

\* What exporting a reference does: the reader has the version that is published.
ExportOf(d, r) ==
  /\ Published(r) /\ PublishedVersions[r] \in Content
  /\ export' = [export EXCEPT ![d][r] =
                  [how |-> "verified", bytes |-> PublishedVersions[r]]]
  /\ want' = [want EXCEPT ![d] = None]
  /\ UNCHANGED <<known, cached>>

\* An export that ends is one of the version its reference stands for.
LEMMA ExportIsPublished ==
  ASSUME RInv, NEW d \in Reader, Export(d)
  PROVE  \E r \in Ref : ExportOf(d, r)
<1> DEFINE ref == want[d].ref
           got(bytes) == [how |-> "verified", bytes |-> bytes]
<1>1. PICK bytes \in BlobRead(d, want[d].id) :
        export' = [export EXCEPT ![d][ref] =
                     IF Matches(want[d], bytes)
                     THEN got(bytes) ELSE [how |-> "rejected", bytes |-> << >>]]
  BY DEF Export
<1>2. want[d] # None /\ want' = [want EXCEPT ![d] = None] /\ UNCHANGED <<known, cached>>
  BY DEF Export
<1>3. /\ ref \in Ref /\ Published(ref) /\ Matches(want[d], bytes)
      /\ bytes \in Content /\ bytes = PublishedVersions[ref]
  BY <1>1, <1>2, BlobIsPublished
<1>4. export' = [export EXCEPT ![d][ref] = got(bytes)]
  BY <1>1, <1>3
<1> QED
  BY <1>2, <1>3, <1>4 DEF ExportOf

\* A reader's steps keep the invariant.
LEMMA ReaderKeeps ==
  ASSUME RInv, NEW d \in Reader, ReaderStep(d) PROVE RInv'
<1>1. UNCHANGED vars
  BY DEF ReaderStep, Learn, Download, Resolve, Export
<1>2. IInv' /\ log' = log /\ Len(log) \in Nat
  BY <1>1, PublishedStays DEF RInv, IInv, TypeOK, vars
<1>3. CASE Learn(d)
  <2>1. PICK n \in Offered : n > known[d] /\ known' = [known EXCEPT ![d] = n]
    BY <1>3 DEF Learn
  <2>2. n \in 0..Len(log) /\ known[d] \in 0..Len(log)
    BY <1>2 DEF Offered, RInv, RelayTypeOK
  <2>3. RelayTypeOK'
    BY <1>2, <1>3, <2>1, <2>2 DEF Learn, RInv, RelayTypeOK
  <2>4. Wanted'
    BY <1>2, <1>3, <2>1, <2>2 DEF Learn, RInv, RelayTypeOK, Wanted
  <2>5. Exported'
    BY <1>1, <1>3, PublishedStays DEF Learn, RInv, Exported
  <2> QED
    BY <1>2, <2>3, <2>4, <2>5 DEF RInv
<1>4. ASSUME NEW j \in 1..known[d], Download(d, j) PROVE RInv'
  <2>1. RelayTypeOK' /\ Wanted'
    BY <1>2, <1>4 DEF Download, RInv, RelayTypeOK, Wanted
  <2>2. Exported'
    BY <1>1, <1>4, PublishedStays DEF Download, RInv, Exported
  <2> QED
    BY <1>2, <2>1, <2>2 DEF RInv
<1>5. ASSUME NEW r \in Ref, Resolve(d, r) PROVE RInv'
  <2>1. PICK i \in 1..known[d] : IsManifest(i, r) /\ want' = [want EXCEPT ![d] = log[i]]
    BY <1>5 DEF Resolve, SeenManifest
  <2>2. want'[d] = log[i] /\ \A e \in Reader \ {d} : want'[e] = want[e]
    BY <2>1 DEF RInv, RelayTypeOK
  <2>3. RelayTypeOK' /\ Wanted'
    BY <1>2, <1>5, <2>1, <2>2 DEF Resolve, RInv, RelayTypeOK, Wanted, IsManifest
  <2>4. Exported'
    BY <1>1, <1>5, PublishedStays DEF Resolve, RInv, Exported
  <2> QED
    BY <1>2, <2>3, <2>4 DEF RInv
<1>6. CASE Export(d)
  <2>1. PICK r \in Ref : ExportOf(d, r)
    BY <1>6, ExportIsPublished
  <2>2. /\ PublishedVersions[r] \in Content /\ Published(r)
        /\ want' = [want EXCEPT ![d] = None] /\ UNCHANGED <<known, cached>>
    BY <2>1 DEF ExportOf
  <2>3. export' = [export EXCEPT ![d][r] =
                     [how |-> "verified", bytes |-> PublishedVersions[r]]]
    BY <2>1 DEF ExportOf
  <2>4. RelayTypeOK' /\ Wanted'
    BY <1>2, <2>2, <2>3 DEF RInv, RelayTypeOK, Wanted
  <2>5. Exported'
    BY <1>1, <2>2, <2>3, PublishedStays DEF RInv, RelayTypeOK, Exported
  <2> QED
    BY <1>2, <2>4, <2>5 DEF RInv
<1> QED
  BY <1>3, <1>4, <1>5, <1>6 DEF ReaderStep

\* It holds in every reachable state.
LEMMA RelayInvariant == RelaySpec => []RInv
<1>1. RInv /\ [RelayNext]_relayVars => RInv'
  BY PublisherKeeps, ReaderKeeps DEF RelayNext, relayVars
<1> QED
  BY <1>1, RelayInitially, PTL DEF RelaySpec

\* Replicas, caches and exports keep their types: a replica is a prefix of the drive.
THEOREM RelayTypeCorrect == RelaySpec => []RelayTypeOK
  BY RelayInvariant, PTL DEF RInv

\* What any reader exports under a reference, with any prefix of the drive, is the
\* version that is published under it, now and at any later time.
THEOREM ExportsArePublished == RelaySpec => []ExportsPublished
<1>1. RInv => ExportsPublished
  BY DEF RInv, Exported, ExportsPublished
<1> QED
  BY <1>1, RelayInvariant, PTL

\* A manifest in a replica comes with its whole blob: no verification ever fails.
THEOREM ExportsNeverFail == RelaySpec => []NeverRejected
<1>1. RInv => NeverRejected
  BY DEF RInv, Exported, NeverRejected
<1> QED
  BY <1>1, RelayInvariant, PTL

-------------------------------------------------------------------------------
(* Refinement.                                                             *)

\* A reader's step obtains the version that it exports, or nothing new.
LEMMA ReaderRefines ==
  ASSUME RInv, NEW d \in Reader, ReaderStep(d)
  PROVE  [Promised!DistributionNext]_<<PublishedVersions, Obtained>>
<1>1. UNCHANGED vars
  BY DEF ReaderStep, Learn, Download, Resolve, Export
<1>2. PublishedVersions' = PublishedVersions
  BY <1>1, PublishedStays
<1>3. CASE UNCHANGED export
  BY <1>2, <1>3 DEF Obtained
<1>4. CASE Export(d)
  <2>1. PICK r \in Ref : ExportOf(d, r)
    BY <1>4, ExportIsPublished
  <2>2. /\ PublishedVersions[r] \in Content /\ PublishedVersions[r] # None
        /\ export' = [export EXCEPT ![d][r] =
                        [how |-> "verified", bytes |-> PublishedVersions[r]]]
    BY <2>1, ConstantsAssumption DEF ExportOf
  <2>3. export \in [Reader -> [Ref -> [how : {"none", "verified", "rejected"},
                                       bytes : Content]]]
    BY DEF RInv, RelayTypeOK
  <2>4. Obtained' = [Obtained EXCEPT ![d][r] = PublishedVersions[r]]
    BY <2>2, <2>3 DEF Obtained
  <2>5. CASE export[d][r].how = "verified"
    <3>1. Obtained[d][r] = PublishedVersions[r]
      BY <2>5 DEF Obtained, RInv, Exported
    <3>2. Obtained' = [Obtained EXCEPT ![d][r] = Obtained[d][r]]
      BY <2>4, <3>1
    <3>3. Obtained \in [Reader -> [Ref -> Content \cup {None}]]
      BY <2>3 DEF Obtained
    <3>4. Obtained' = Obtained
      BY <3>2, <3>3
    <3> QED
      BY <1>2, <3>4
  <2>6. CASE export[d][r].how # "verified"
    <3>1. Obtained[d][r] = None
      BY <2>6 DEF Obtained
    <3>2. Promised!Obtain(d, r)
      BY <1>2, <2>2, <2>4, <3>1 DEF Promised!Obtain
    <3> QED
      BY <3>2 DEF Promised!DistributionNext
  <2> QED
    BY <2>5, <2>6
<1> QED
  BY <1>3, <1>4 DEF ReaderStep, Learn, Download, Resolve

\* The registry and its readers, whatever overlaps, fails or restarts, are one
\* Distribution: each version appears whole, each reader gets it whole and keeps it.
THEOREM RelayImplementsDistribution == RelaySpec => ImplementsDistribution
<1>1. RelayInit => Promised!DistributionInit
  BY DEF RelayInit, Init, Promised!DistributionInit, Promised!Init,
       PublishedVersions, Published, Obtained, Nothing
<1>2. RInv /\ VersionsRead /\ VersionsRead' /\ [RelayNext]_relayVars
        => [Promised!DistributionNext]_<<PublishedVersions, Obtained>>
  <2> SUFFICES ASSUME RInv, VersionsRead, VersionsRead', [RelayNext]_relayVars
               PROVE  [Promised!DistributionNext]_<<PublishedVersions, Obtained>>
    OBVIOUS
  <2>1. ASSUME [Next]_vars, UNCHANGED readers
        PROVE  [Promised!DistributionNext]_<<PublishedVersions, Obtained>>
    <3>1. [Registry!Next]_PublishedVersions
      BY <2>1, StepRefines DEF RInv
    <3>2. Obtained' = Obtained
      BY <2>1 DEF Obtained, readers
    <3> QED
      BY <3>1, <3>2
      DEF Promised!DistributionNext, Promised!Next, Promised!Publish,
        Registry!Next, Registry!Publish
  <2> QED
    BY <2>1, ReaderRefines DEF RelayNext, relayVars
<1>3. RInv => VersionsRead
  BY ReadingVersions DEF RInv
<1> QED
  BY <1>1, <1>2, <1>3, RelayInvariant, PTL
  DEF RelaySpec, ImplementsDistribution, Promised!DistributionSpec
===============================================================================
