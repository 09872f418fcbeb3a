--------------------------------- MODULE Relay ---------------------------------
(***************************************************************************)
(* One registry as a whole: the publish commands of Publish on the          *)
(* publisher's machine, and readers with replicas of the drive on theirs.   *)
(* A replica is a prefix of the drive's entries and those of the blobs that *)
(* were downloaded; it comes from the publisher, while a seed command has   *)
(* the publisher's directory open, or from another reader.  A fetch on a    *)
(* reader looks the manifest up in its replica, and later reads the blob,   *)
(* while the replica goes on growing and the publisher goes on publishing.  *)
(* What interrupts a fetch is in Fetch.                                     *)
(***************************************************************************)
EXTENDS Publish

CONSTANT Reader

VARIABLES
  known,   \* how much of the drive each replica has
  cached,  \* the entries whose blobs it has
  want,    \* the manifest that each reader's fetch has resolved, or None
  export   \* what its last fetch of each reference exported

readers == <<known, cached, want, export>>

relayVars == <<vars, readers>>

Nothing == [how |-> "none", bytes |-> << >>]

RelayInit ==
  /\ Init
  /\ known = [d \in Reader |-> 0]
  /\ cached = [d \in Reader |-> {}]
  /\ want = [d \in Reader |-> None]
  /\ export = [d \in Reader |-> [r \in Ref |-> Nothing]]

-------------------------------------------------------------------------------
(* Replication.                                                            *)

Serving == lock = Server

\* How much of the drive a reader can get to know, and who has a blob.
Offered == {known[e] : e \in Reader} \cup (IF Serving THEN {Len(log)} ELSE {})
HasBlob(j) == Serving \/ \E e \in Reader : j \in cached[e]

\* Mutant: a reader asks for news only while it knows nothing.
LearnOnce(d) ==
  /\ known[d] = 0
  /\ \E n \in Offered : n > known[d] /\ known' = [known EXCEPT ![d] = n]
  /\ UNCHANGED <<vars, cached, want, export>>

\* An update of a replica: it gets as far as the peer it learns from.
Learn(d) ==
  /\ \E n \in Offered : n > known[d] /\ known' = [known EXCEPT ![d] = n]
  /\ UNCHANGED <<vars, cached, want, export>>

Download(d, j) ==
  /\ j \in 1..known[d] \ cached[d]
  /\ log[j].kind = "blob"
  /\ HasBlob(j)
  /\ cached' = [cached EXCEPT ![d] = @ \cup {j}]
  /\ UNCHANGED <<vars, known, want, export>>

-------------------------------------------------------------------------------
(* fetchArtifact on a reader.                                              *)

\* What is at a path is the last entry a replica has for it.
SeenManifest(d, i, r) ==
  IsManifest(i, r) /\ \A j \in (i + 1)..known[d] : ~IsManifest(j, r)

SeenBlob(d, i, id) ==
  IsBlob(i, id) /\ \A j \in (i + 1)..known[d] : ~IsBlob(j, id)

\* resolveManifest finds the reference in the replica.
Resolve(d, r) ==
  /\ want[d] = None
  /\ \E i \in 1..known[d] :
       SeenManifest(d, i, r) /\ want' = [want EXCEPT ![d] = log[i]]
  /\ UNCHANGED <<vars, known, cached, export>>

Matches(m, bytes) == Len(bytes) = m.size /\ Sha256[bytes] = m.id

\* What readBlob gives, if it ends; a blob without an entry reads as an empty one.
BlobRead(d, id) ==
  {log[j].bytes : j \in {i \in cached[d] : SeenBlob(d, i, id)}}
    \cup (IF \E j \in 1..known[d] : IsBlob(j, id) THEN {} ELSE {<< >>})

\* Mutant: a download that ends early is taken for the whole.
ExportCutShort(d) ==
  /\ want[d] # None
  /\ \E bytes \in BlobRead(d, want[d].id) : \E n \in 0..Len(bytes) :
       export' = [export EXCEPT ![d][want[d].ref] =
                    [how |-> "verified", bytes |-> SubSeq(bytes, 1, n)]]
  /\ want' = [want EXCEPT ![d] = None]
  /\ UNCHANGED <<vars, known, cached>>

\* exportVerified reads the blob to its end and verifies it.
Export(d) ==
  /\ want[d] # None
  /\ \E bytes \in BlobRead(d, want[d].id) :
       export' = [export EXCEPT ![d][want[d].ref] =
                    IF Matches(want[d], bytes)
                    THEN [how |-> "verified", bytes |-> bytes]
                    ELSE [how |-> "rejected", bytes |-> << >>]]
  /\ want' = [want EXCEPT ![d] = None]
  /\ UNCHANGED <<vars, known, cached>>

ReaderStep(d) ==
  \/ Learn(d)
  \/ \E j \in 1..known[d] : Download(d, j)
  \/ \E r \in Ref : Resolve(d, r)
  \/ Export(d)

RelayNext ==
  \/ Next /\ UNCHANGED readers
  \/ \E d \in Reader : ReaderStep(d)

RelaySpec == RelayInit /\ [][RelayNext]_relayVars

\* A reader asks again and again, and downloads what it has heard of.
FairRelaySpec ==
  /\ RelaySpec
  /\ \A d \in Reader :
       /\ SF_relayVars(Learn(d))
       /\ SF_relayVars(\E j \in 1..known[d] : Download(d, j))

-------------------------------------------------------------------------------
(* Properties.                                                             *)

\* Every variable of the readers has its type.
RelayTypeOK ==
  /\ known \in [Reader -> 0..Len(log)]
  /\ cached \in [Reader -> SUBSET (1..Len(log))]
  /\ \A d \in Reader : cached[d] \subseteq 1..known[d]
  /\ want \in [Reader -> {None} \cup {log[i] : i \in 1..Len(log)}]
  /\ export \in [Reader -> [Ref -> [how : {"none", "verified", "rejected"}, bytes : Content]]]

\* Whatever prefix of the drive a reader has, and whatever is published, crashes or
\* fails meanwhile, what it exports is the version as it was published and will stay:
\* two readers never have different artifacts under one reference.
ExportsPublished ==
  \A d \in Reader, r \in Ref :
    export[d][r].how = "verified" => export[d][r].bytes = PublishedVersions[r]

\* A reader that has a manifest never finds its blob incomplete, wrong or absent.
NeverRejected ==
  \A d \in Reader, r \in Ref : export[d][r].how # "rejected"

Available(d, r) ==
  \E i \in 1..known[d], j \in cached[d] :
    SeenManifest(d, i, r) /\ SeenBlob(d, j, log[i].id)

\* If the publisher seeds again and again, every reader gets every version whose
\* publish command printed its manifest, although that command has long exited.
AcknowledgedReachesReaders ==
  []<>Serving =>
    \A p \in Proc :
      outcome[p] = "ok" ~> \A d \in Reader : Available(d, req[p].ref)

-------------------------------------------------------------------------------
(* Relay implements Distribution: a reader has obtained what it exported.  *)

Obtained ==
  [d \in Reader |-> [r \in Ref |->
     IF export[d][r].how = "verified" THEN export[d][r].bytes ELSE None]]

Promised == INSTANCE Distribution WITH versions <- PublishedVersions, obtained <- Obtained

\* A reader gets a version in one step, after the step that published it, and no
\* later publish, fetch or failure takes it back or puts another in its place.
ImplementsDistribution == Promised!DistributionSpec
===============================================================================
