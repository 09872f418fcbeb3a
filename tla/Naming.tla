-------------------------------- MODULE Naming ---------------------------------
(***************************************************************************)
(* How artifacts are named from one command to the next: what publish       *)
(* accepts as a name, a version and a file becomes a path of the drive and  *)
(* a manifest; fetch and seed take NAME@VERSION back to that path, and list *)
(* takes the paths of the drive back to names.  Texts are sequences of      *)
(* pieces: "a" for letters and digits, "." for dots, underscores and        *)
(* hyphens, ".json" for itself, and the separators "/" and "@".             *)
(***************************************************************************)
EXTENDS Naturals, Sequences, FiniteSets

CONSTANTS
  Text,         \* what the command line may give as a name or as a version
  Argument,     \* what it may give as a reference to an artifact
  MaxVersions,  \* bound: versions published
  MaxSegment    \* how long a name or a version may be

Piece == {"a", ".", ".json", "/", "@"}

ASSUME TextAssumption == Text \subseteq Seq(Piece) /\ Argument \subseteq Seq(Piece)

VARIABLES
  drive,     \* the manifests of the drive, each at its path
  published  \* what publish commands printed

vars == <<drive, published>>

Has(text, piece) == \E i \in DOMAIN text : text[i] = piece

-------------------------------------------------------------------------------
(* References and manifests.                                               *)

\* The segment pattern of validateReference.
Segment(text) ==
  /\ Len(text) \in 1..MaxSegment
  /\ text[1] = "a"
  /\ ~Has(text, "/") /\ ~Has(text, "@")

ValidReference(name, version) == Segment(name) /\ Segment(version)

\* The file's name is what a Linux path ends with, so it may have a backslash or a
\* control character; digest and size are what was measured.
ValidManifest(m) == ValidReference(m.name, m.version) /\ m.filename = "plain"

\* Mutant: what follows a second "@" is dropped.
FirstTwoParts(argument) ==
  LET ats == {i \in DOMAIN argument : argument[i] = "@"}
      end == Len(argument) + 1
      first == CHOOSE i \in ats : \A j \in ats : i <= j
      next == CHOOSE i \in (ats \cup {end}) \ {first} :
                \A j \in (ats \cup {end}) \ {first} : i <= j
  IN {r \in {[name |-> SubSeq(argument, 1, first - 1),
              version |-> SubSeq(argument, first + 1, next - 1)] : i \in ats} :
        ValidReference(r.name, r.version)}

\* parseReference: the reference that an argument stands for, if it is one.
ParseReference(argument) ==
  LET ats == {i \in DOMAIN argument : argument[i] = "@"}
  IN {r \in {[name |-> SubSeq(argument, 1, i - 1),
              version |-> SubSeq(argument, i + 1, Len(argument))] : i \in ats} :
        Cardinality(ats) = 1 /\ ValidReference(r.name, r.version)}

-------------------------------------------------------------------------------
(* Paths.                                                                  *)

\* The part of a path after /artifacts.
ManifestPath(name, version) ==
  <<"/">> \o name \o <<"/">> \o version \o <<".json">>

\* What pathPart lets through to a path.
PathPart(text) == text \notin {<< >>, <<".">>, <<".", ".">>} /\ ~Has(text, "/")

ReadManifest(name, version) ==
  {e.manifest : e \in {f \in drive : f.path = ManifestPath(name, version)}}

\* The pattern of listManifests: both groups have no slash and are not empty.
PathParts(path) ==
  {r \in {[name |-> SubSeq(path, 2, k - 1), version |-> SubSeq(path, k + 1, Len(path) - 1)] :
            k \in 3..Len(path)} :
     /\ r.name # << >> /\ r.version # << >>
     /\ ~Has(r.name, "/") /\ ~Has(r.version, "/")
     /\ path = ManifestPath(r.name, r.version)}

-------------------------------------------------------------------------------
(* The commands.                                                           *)

Init == drive = {} /\ published = {}

Put(m) ==
  /\ drive' = drive \cup {[path |-> ManifestPath(m.name, m.version), manifest |-> m]}
  /\ published' = published \cup {m}

\* Mutant: the manifest of a valid reference is not validated.
PublishUnvalidated(m) ==
  /\ Cardinality(drive) < MaxVersions
  /\ ValidReference(m.name, m.version)
  /\ ReadManifest(m.name, m.version) = {}
  /\ Put(m)

\* publishArtifact.
Publish(m) ==
  /\ Cardinality(drive) < MaxVersions
  /\ ValidReference(m.name, m.version)
  /\ PathPart(m.name) /\ PathPart(m.version)
  /\ ReadManifest(m.name, m.version) = {}
  /\ ValidManifest(m)
  /\ Put(m)

Manifest == [name : Text, version : Text, filename : {"plain", "odd"}]

Next == \E m \in Manifest : Publish(m)

Spec == Init /\ [][Next]_vars

\* What fetch and seed find for an argument: a manifest that is the reference's.
Fetched(argument) ==
  UNION {{m \in ReadManifest(r.name, r.version) :
            ValidManifest(m) /\ m.name = r.name /\ m.version = r.version} :
           r \in ParseReference(argument)}

\* What list reads, entry by entry; a path or a manifest that is not valid fails it.
Listed == UNION {PathParts(e.path) : e \in drive}

ListFails ==
  \E r \in Listed :
    \/ ~PathPart(r.name) \/ ~PathPart(r.version)
    \/ \E m \in ReadManifest(r.name, r.version) : ~ValidManifest(m)

-------------------------------------------------------------------------------
(* Properties.                                                             *)

\* An argument NAME@VERSION names the artifact that was published under that name and
\* version, whatever characters the command line lets through, and any other argument
\* names none.
FetchNamesPublished ==
  \A argument \in Argument :
    Fetched(argument) =
      {m \in published : m.name \o <<"@">> \o m.version = argument}

\* list shows what was published, all of it and once, and nothing that can be published
\* makes it fail.
ListShowsPublished ==
  /\ ~ListFails
  /\ UNION {ReadManifest(r.name, r.version) : r \in Listed} = published
  /\ Cardinality(Listed) = Cardinality(published)
===============================================================================
