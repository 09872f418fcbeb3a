----------------------------- MODULE FetchProofs ------------------------------
(***************************************************************************)
(* Proofs about Fetch, for every set of commands, contents and registries,  *)
(* with any interference.                                                   *)
(*                                                                         *)
(* What a command reports rests on what its work has come to: Reports ties  *)
(* the main task to the work, Course the work to the manifest and to its    *)
(* result, Leftover and Output the result to the files, Progress the bytes  *)
(* that went through the meter to those of the registry, and Asked a miss   *)
(* to the peer that was asked.                                              *)
(***************************************************************************)
EXTENDS Fetch, SequenceTheorems, TLAPS

\* The main task reports once, and only on a work that has settled.
Reports(f) ==
  /\ main[f] = "idle" => work[f] = "none" /\ outcome[f] = "none"
  /\ main[f] \in {"run", "close", "wait"} => outcome[f] = "none"
  /\ main[f] \in {"close", "wait"} => aborted[f]
  /\ outcome[f] \in {"ok", "failed"} => work[f] = "settled"
  /\ outcome[f] = "killed" => work[f] \in {"settled", "killed"}
  /\ outcome[f] = "ok" => result[f] = "value"

\* How far the work has come with which manifest.
Course(f) ==
  /\ work[f] \in {"open", "check", "link", "remove"} => kind[f] = "fetch"
  /\ work[f] = "list" => kind[f] = "list"
  /\ work[f] = "resolve" => manifest # None
  /\ work[f] \in {"open", "stream", "check", "link"} => manifest \in Manifest
  /\ work[f] \notin {"remove", "settled", "killed"} => result[f] = "none"
  /\ work[f] = "remove" => result[f] \in {"value", "error"}

\* Where a temporary directory may be.
Leftover(f) ==
  temp[f] =>
    /\ kind[f] = "fetch"
    /\ \/ work[f] \in {"stream", "check", "link", "remove", "killed"}
       \/ work[f] = "settled" /\ result[f] = "leftover"

\* An output is there iff linking it was the result.
Output(f) ==
  /\ Delivered(f) =>
       work[f] \in {"remove", "settled", "killed"} /\ result[f] \in {"value", "leftover"}
  /\ kind[f] = "fetch" /\ work[f] \in {"remove", "settled"} /\ result[f] = "value"
       => Delivered(f)
  /\ outcome[f] = "failed" /\ Delivered(f) => aborted[f] \/ result[f] = "leftover"

\* What went through the meter is a prefix of the blob, and in the replica.
Progress(f) ==
  /\ Len(read[f]) <= have[f] /\ have[f] <= Len(blob)
  /\ \A i \in 1..Len(read[f]) : read[f][i] = blob[i]
  /\ work[f] \in {"check", "link"} => read[f] = blob /\ Verified(blob)
  /\ kind[f] = "seed" /\ result[f] = "value" =>
       have[f] = Len(blob) /\ manifest \in Manifest /\ Verified(blob)

\* Before the second look-up, a peer was there, or none is waited for.
Asked(f) ==
  work[f] = "read2" \/ result[f] = "miss" =>
    manifest = None \/ met[f] \/ ~online[f] \/ f \in Writer \/ aborted[f]

CommandInv ==
  \A f \in Cmd :
    Reports(f) /\ Course(f) /\ Leftover(f) /\ Output(f) /\ Progress(f) /\ Asked(f)

\* An output is the blob, which is what the manifest describes.
OutputGenuine ==
  \A f \in Cmd : Delivered(f) =>
    dest.bytes = blob /\ manifest \in Manifest /\ Verified(blob)

IInv == TypeOK /\ CommandInv /\ OutputGenuine

-------------------------------------------------------------------------------
(* Contents.                                                               *)

\* A content is a sequence of chunks of bounded length.
LEMMA ContentIsSequence ==
  ASSUME NEW c \in Content
  PROVE  c \in Seq(Chunk) /\ Len(c) \in 0..MaxLen
<1>1. PICK n \in 0..MaxLen : c \in [1..n -> Chunk]
  BY DEF Content
<1>2. n \in Nat
  BY ConstantsAssumption
<1> QED
  BY <1>1, <1>2

\* The empty sequence is one.
LEMMA EmptyContent == << >> \in Content
<1>1. << >> \in [1..0 -> Chunk] /\ 0 \in 0..MaxLen
  BY ConstantsAssumption
<1> QED
  BY <1>1 DEF Content

\* The next chunk of a content makes one that is longer, and changes no other chunk.
LEMMA NextChunk ==
  ASSUME NEW c \in Content, NEW d \in Content, Len(c) < Len(d)
  PROVE  LET e == Append(c, d[Len(c) + 1])
         IN  /\ e \in Content /\ Len(e) = Len(c) + 1
             /\ e[Len(c) + 1] = d[Len(c) + 1]
             /\ \A i \in 1..Len(c) : e[i] = c[i]
<1>1. /\ c \in Seq(Chunk) /\ d \in Seq(Chunk)
      /\ Len(c) \in Nat /\ Len(d) \in Nat
      /\ Len(d) <= MaxLen /\ MaxLen \in Nat
  BY ContentIsSequence, ConstantsAssumption
<1> DEFINE n == Len(c) + 1
           e == Append(c, d[n])
<1>2. n \in 0..MaxLen /\ d[n] \in Chunk
  BY <1>1
<1>3. e \in Seq(Chunk) /\ Len(e) = n /\ e[n] = d[n] /\ \A i \in 1..Len(c) : e[i] = c[i]
  BY <1>1, <1>2
<1>4. e \in [1..n -> Chunk]
  BY <1>3, LenProperties
<1> QED
  BY <1>2, <1>3, <1>4 DEF Content

-------------------------------------------------------------------------------
(* Every step keeps each part of the invariant.                            *)

\* Types: only the bytes read and the count of blocks take an argument.
LEMMA TypesKept ==
  ASSUME TypeOK, [Next]_vars
  PROVE  TypeOK'
<1> USE DEF TypeOK, given, network, replica, control, files
<1>1. ASSUME NEW f \in Cmd, FindManifest(f) PROVE TypeOK'
  BY <1>1 DEF FindManifest, Work
<1>2. ASSUME NEW f \in Cmd, MissManifest(f) PROVE TypeOK'
  BY <1>2 DEF MissManifest, Settle, Work
<1>3. ASSUME NEW f \in Cmd, ReadOffline(f) PROVE TypeOK'
  BY <1>3 DEF ReadOffline, Settle, Reading
<1>4. ASSUME NEW f \in Cmd, List(f) PROVE TypeOK'
  BY <1>4 DEF List, Settle
<1>5. ASSUME NEW f \in Cmd, Reject(f) PROVE TypeOK'
  BY <1>5 DEF Reject, Settle, Reading
<1>6. ASSUME NEW f \in Cmd, Resolve(f) PROVE TypeOK'
  BY <1>6 DEF Resolve, Settle, Work
<1>7. ASSUME NEW f \in Cmd, Sync(f) PROVE TypeOK'
  BY <1>7 DEF Sync, AfterSync, Work, Settle
<1>8. ASSUME NEW f \in Cmd, FetchMetadata(f) PROVE TypeOK'
  BY <1>8 DEF FetchMetadata, Reading
<1>9. ASSUME NEW f \in Cmd, PeerComes(f) PROVE TypeOK'
  BY <1>9 DEF PeerComes
<1>10. ASSUME NEW f \in Cmd, PeerLeaves(f) PROVE TypeOK'
  BY <1>10 DEF PeerLeaves
<1>11. ASSUME NEW f \in Cmd, MakeTemp(f) PROVE TypeOK'
  BY <1>11 DEF MakeTemp, Work
<1>12. ASSUME NEW f \in Cmd, OpenFails(f) PROVE TypeOK'
  BY <1>12 DEF OpenFails, Settle
<1>13. ASSUME NEW f \in Cmd, StreamStops(f) PROVE TypeOK'
  <2>1. Unwind(f, "error") \/ Settle(f, "error")
    BY <1>13 DEF StreamStops, StreamError
  <2>2. UNCHANGED <<given, network, replica, control, files>>
    BY <1>13 DEF StreamStops
  <2>3. work' \in [Cmd -> {"none", "read1", "sync", "read2", "list", "resolve", "open",
                           "stream", "check", "link", "remove", "settled", "killed"}]
    BY <2>1 DEF Unwind, Settle, Work
  <2>4. result' \in [Cmd -> {"none", "value", "error", "miss", "leftover"}]
    BY <2>1 DEF Unwind, Settle, Work
  <2> QED
    BY <2>2, <2>3, <2>4
<1>14. ASSUME NEW f \in Cmd, CheckSignal(f) PROVE TypeOK'
  BY <1>14 DEF CheckSignal, Unwind, Work
<1>15. ASSUME NEW f \in Cmd, DiskFails(f) PROVE TypeOK'
  BY <1>15 DEF DiskFails, Unwind
<1>16. ASSUME NEW f \in Cmd, RemoveTemp(f) PROVE TypeOK'
  BY <1>16 DEF RemoveTemp, Settle
<1>17. ASSUME NEW f \in Cmd, RemoveTempFails(f) PROVE TypeOK'
  BY <1>17 DEF RemoveTempFails, Settle
<1>18. ASSUME NEW f \in Cmd, ReadChunk(f) PROVE TypeOK'
  <2>1. /\ Len(read[f]) \in Nat /\ Len(blob) \in Nat /\ Len(blob) <= MaxLen
        /\ MaxLen \in Nat
    BY ContentIsSequence, ConstantsAssumption
  <2>2. have' \in [Cmd -> 0..MaxLen]
    BY <1>18, <2>1 DEF ReadChunk
  <2>3. read' \in [Cmd -> Content]
    <3>1. read[f] \in Content /\ blob \in Content /\ Len(read[f]) < Len(blob)
      BY <1>18 DEF ReadChunk
    <3>2. Append(read[f], blob[Len(read[f]) + 1]) \in Content
      BY <3>1, NextChunk
    <3>3. \/ read' = read
          \/ read' = [read EXCEPT ![f] = Append(@, blob[Len(read[f]) + 1])]
      BY <1>18 DEF ReadChunk
    <3> HIDE DEF TypeOK
    <3>4. read \in [Cmd -> Content]
      BY DEF TypeOK
    <3> QED
      BY <3>2, <3>3, <3>4
  <2>4. \/ StreamError(f)
        \/ UNCHANGED <<work, result>>
    BY <1>18 DEF ReadChunk
  <2>5. UNCHANGED <<given, network, meta, control, temp, dest>>
    BY <1>18 DEF ReadChunk
  <2> QED
    BY <2>2, <2>3, <2>4, <2>5 DEF StreamError, Unwind, Settle
<1>19. ASSUME NEW f \in Cmd, EndStream(f) PROVE TypeOK'
  <2>1. Unwind(f, "error") \/ Settle(f, "error") \/ Work(f, "check") \/ Settle(f, "value")
    BY <1>19 DEF EndStream, StreamError
  <2>2. UNCHANGED <<given, network, replica, control, files>>
    BY <1>19 DEF EndStream
  <2>3. work' \in [Cmd -> {"none", "read1", "sync", "read2", "list", "resolve", "open",
                           "stream", "check", "link", "remove", "settled", "killed"}]
    BY <2>1 DEF Unwind, Settle, Work
  <2>4. result' \in [Cmd -> {"none", "value", "error", "miss", "leftover"}]
    BY <2>1 DEF Unwind, Settle, Work
  <2> QED
    BY <2>2, <2>3, <2>4
<1>20. ASSUME NEW f \in Cmd, Link(f) PROVE TypeOK'
  BY <1>20 DEF Link, Unwind
<1>21. ASSUME NEW f \in Cmd, Start(f) PROVE TypeOK'
  BY <1>21 DEF Start, Work
<1>22. ASSUME NEW f \in Cmd, Return(f) PROVE TypeOK'
  BY <1>22 DEF Return
<1>23. ASSUME NEW f \in Cmd, Stop(f) PROVE TypeOK'
  BY <1>23 DEF Stop
<1>24. ASSUME NEW f \in Cmd, CloseRegistry(f) PROVE TypeOK'
  BY <1>24 DEF CloseRegistry
<1>25. ASSUME NEW f \in Cmd, GiveUp(f) PROVE TypeOK'
  BY <1>25 DEF GiveUp
<1>26. ASSUME NEW f \in Cmd, Shutdown(f) PROVE TypeOK'
  BY <1>26 DEF Shutdown
<1>27. ASSUME NEW f \in Cmd, Exit(f) PROVE TypeOK'
  BY <1>27 DEF Exit
<1>28. ASSUME NEW f \in Cmd, Kill(f) PROVE TypeOK'
  BY <1>28 DEF Kill
<1>29. CASE Interfere
  BY <1>29 DEF Interfere
<1>30. CASE UNCHANGED vars
  BY <1>30 DEF vars
<1> QED
  BY <1>1, <1>2, <1>3, <1>4, <1>5, <1>6, <1>7, <1>8, <1>9, <1>10, <1>11, <1>12, <1>13,
     <1>14, <1>15, <1>16, <1>17, <1>18, <1>19, <1>20, <1>21, <1>22, <1>23, <1>24, <1>25,
     <1>26, <1>27, <1>28, <1>29, <1>30
  DEF Next, WorkStep, MainStep

\* What the main task reports, the work has come to.
LEMMA ReportsKept ==
  ASSUME IInv, TypeOK', [Next]_vars, NEW e \in Cmd
  PROVE  Reports(e)'
<1> USE DEF given, network, replica, control, files, IInv, CommandInv, TypeOK, Reports
<1>1. ASSUME NEW f \in Cmd, FindManifest(f) \/ MissManifest(f) \/ ReadOffline(f) \/
            List(f) \/ Reject(f) \/ Resolve(f)
      PROVE  Reports(e)'
  BY <1>1 DEF FindManifest, MissManifest, ReadOffline, List, Reject, Resolve, Work,
     Settle, Reading
<1>2. ASSUME NEW f \in Cmd, Sync(f) \/ FetchMetadata(f) \/ PeerComes(f) \/
            PeerLeaves(f)
      PROVE  Reports(e)'
  BY <1>2 DEF Sync, FetchMetadata, PeerComes, PeerLeaves, AfterSync, Work, Settle,
     Reading
<1>3. ASSUME NEW f \in Cmd, MakeTemp(f) \/ OpenFails(f) \/ StreamStops(f) \/
            CheckSignal(f) \/ DiskFails(f)
      PROVE  Reports(e)'
  BY <1>3 DEF MakeTemp, OpenFails, StreamStops, CheckSignal, DiskFails, Work, Settle,
     StreamError, Unwind
<1>4. ASSUME NEW f \in Cmd, RemoveTemp(f) \/ RemoveTempFails(f) PROVE Reports(e)'
  BY <1>4 DEF RemoveTemp, RemoveTempFails, Settle
<1>5. ASSUME NEW f \in Cmd, ReadChunk(f) PROVE Reports(e)'
  BY <1>5 DEF ReadChunk, StreamError, Unwind, Settle
<1>6. ASSUME NEW f \in Cmd, EndStream(f) PROVE Reports(e)'
  BY <1>6 DEF EndStream, StreamError, Unwind, Settle, Work
<1>7. ASSUME NEW f \in Cmd, Link(f) PROVE Reports(e)'
  BY <1>7 DEF Link, Unwind
<1>8. ASSUME NEW f \in Cmd, Start(f) \/ Return(f) \/ Stop(f) \/ CloseRegistry(f)
      PROVE  Reports(e)'
  BY <1>8 DEF Start, Return, Stop, CloseRegistry, Work
<1>9. ASSUME NEW f \in Cmd, GiveUp(f) \/ Shutdown(f) \/ Exit(f) \/ Kill(f)
      PROVE  Reports(e)'
  BY <1>9 DEF GiveUp, Shutdown, Exit, Kill
<1>10. CASE Interfere
  BY <1>10 DEF Interfere
<1>11. CASE UNCHANGED vars
  BY <1>11 DEF vars
<1> QED
  BY <1>1, <1>2, <1>3, <1>4, <1>5, <1>6, <1>7, <1>8, <1>9, <1>10, <1>11
  DEF Next, WorkStep, MainStep

\* The work goes its course.
LEMMA CourseKept ==
  ASSUME IInv, TypeOK', [Next]_vars, NEW e \in Cmd
  PROVE  Course(e)'
<1> USE DEF given, network, replica, control, files, IInv, CommandInv, TypeOK, Course,
      Reports
<1>1. ASSUME NEW f \in Cmd, FindManifest(f) \/ MissManifest(f) \/ ReadOffline(f) \/
            List(f) \/ Reject(f) \/ Resolve(f)
      PROVE  Course(e)'
  BY <1>1 DEF FindManifest, MissManifest, ReadOffline, List, Reject, Resolve, Work,
     Settle, Reading
<1>2. ASSUME NEW f \in Cmd, Sync(f) \/ FetchMetadata(f) \/ PeerComes(f) \/
            PeerLeaves(f)
      PROVE  Course(e)'
  BY <1>2 DEF Sync, FetchMetadata, PeerComes, PeerLeaves, AfterSync, Work, Settle,
     Reading
<1>3. ASSUME NEW f \in Cmd, MakeTemp(f) \/ OpenFails(f) \/ StreamStops(f) \/
            CheckSignal(f) \/ DiskFails(f)
      PROVE  Course(e)'
  BY <1>3 DEF MakeTemp, OpenFails, StreamStops, CheckSignal, DiskFails, Work, Settle,
     StreamError, Unwind
<1>4. ASSUME NEW f \in Cmd, RemoveTemp(f) \/ RemoveTempFails(f) PROVE Course(e)'
  BY <1>4 DEF RemoveTemp, RemoveTempFails, Settle
<1>5. ASSUME NEW f \in Cmd, ReadChunk(f) PROVE Course(e)'
  BY <1>5 DEF ReadChunk, StreamError, Unwind, Settle
<1>6. ASSUME NEW f \in Cmd, EndStream(f) PROVE Course(e)'
  BY <1>6 DEF EndStream, StreamError, Unwind, Settle, Work
<1>7. ASSUME NEW f \in Cmd, Link(f) PROVE Course(e)'
  BY <1>7 DEF Link, Unwind
<1>8. ASSUME NEW f \in Cmd, Start(f) \/ Return(f) \/ Stop(f) \/ CloseRegistry(f)
      PROVE  Course(e)'
  BY <1>8 DEF Start, Return, Stop, CloseRegistry, Work
<1>9. ASSUME NEW f \in Cmd, GiveUp(f) \/ Shutdown(f) \/ Exit(f) \/ Kill(f)
      PROVE  Course(e)'
  BY <1>9 DEF GiveUp, Shutdown, Exit, Kill
<1>10. CASE Interfere
  BY <1>10 DEF Interfere
<1>11. CASE UNCHANGED vars
  BY <1>11 DEF vars
<1> QED
  BY <1>1, <1>2, <1>3, <1>4, <1>5, <1>6, <1>7, <1>8, <1>9, <1>10, <1>11
  DEF Next, WorkStep, MainStep

\* A settled work leaves a temporary directory only if removing it failed.
LEMMA LeftoverKept ==
  ASSUME IInv, TypeOK', [Next]_vars, NEW e \in Cmd
  PROVE  Leftover(e)'
<1> USE DEF given, network, replica, control, files, IInv, CommandInv, TypeOK, Leftover,
      Course, Reports
<1>1. ASSUME NEW f \in Cmd, FindManifest(f) \/ MissManifest(f) \/ ReadOffline(f) \/
            List(f) \/ Reject(f) \/ Resolve(f)
      PROVE  Leftover(e)'
  BY <1>1 DEF FindManifest, MissManifest, ReadOffline, List, Reject, Resolve, Work,
     Settle, Reading
<1>2. ASSUME NEW f \in Cmd, Sync(f) \/ FetchMetadata(f) \/ PeerComes(f) \/
            PeerLeaves(f)
      PROVE  Leftover(e)'
  BY <1>2 DEF Sync, FetchMetadata, PeerComes, PeerLeaves, AfterSync, Work, Settle,
     Reading
<1>3. ASSUME NEW f \in Cmd, MakeTemp(f) \/ OpenFails(f) \/ StreamStops(f) \/
            CheckSignal(f) \/ DiskFails(f)
      PROVE  Leftover(e)'
  BY <1>3 DEF MakeTemp, OpenFails, StreamStops, CheckSignal, DiskFails, Work, Settle,
     StreamError, Unwind
<1>4. ASSUME NEW f \in Cmd, RemoveTemp(f) \/ RemoveTempFails(f) PROVE Leftover(e)'
  BY <1>4 DEF RemoveTemp, RemoveTempFails, Settle
<1>5. ASSUME NEW f \in Cmd, ReadChunk(f) PROVE Leftover(e)'
  <2>1. CASE e # f
    BY <1>5, <2>1 DEF ReadChunk, StreamError, Unwind, Settle, Work
  <2>2. CASE e = f /\ kind[f] = "fetch"
    BY <1>5, <2>2 DEF ReadChunk, StreamError, Unwind, Settle, Work
  <2>3. CASE e = f /\ kind[f] # "fetch"
    BY <1>5, <2>3 DEF ReadChunk, StreamError, Unwind, Settle, Work
  <2> QED
    BY <2>1, <2>2, <2>3
<1>6. ASSUME NEW f \in Cmd, EndStream(f) PROVE Leftover(e)'
  <2>1. CASE e # f
    BY <1>6, <2>1 DEF EndStream, StreamError, Unwind, Settle, Work
  <2>2. CASE e = f /\ kind[f] = "fetch"
    BY <1>6, <2>2 DEF EndStream, StreamError, Unwind, Settle, Work
  <2>3. CASE e = f /\ kind[f] # "fetch"
    BY <1>6, <2>3 DEF EndStream, StreamError, Unwind, Settle, Work
  <2> QED
    BY <2>1, <2>2, <2>3
<1>7. ASSUME NEW f \in Cmd, Link(f) PROVE Leftover(e)'
  BY <1>7 DEF Link, Unwind
<1>8. ASSUME NEW f \in Cmd, Start(f) \/ Return(f) \/ Stop(f) \/ CloseRegistry(f)
      PROVE  Leftover(e)'
  BY <1>8 DEF Start, Return, Stop, CloseRegistry, Work
<1>9. ASSUME NEW f \in Cmd, GiveUp(f) \/ Shutdown(f) \/ Exit(f) \/ Kill(f)
      PROVE  Leftover(e)'
  BY <1>9 DEF GiveUp, Shutdown, Exit, Kill
<1>10. CASE Interfere
  BY <1>10 DEF Interfere
<1>11. CASE UNCHANGED vars
  BY <1>11 DEF vars
<1> QED
  BY <1>1, <1>2, <1>3, <1>4, <1>5, <1>6, <1>7, <1>8, <1>9, <1>10, <1>11
  DEF Next, WorkStep, MainStep

\* Only linking makes an output, and every value of a fetch was linked.
LEMMA OutputKept ==
  ASSUME IInv, TypeOK', [Next]_vars, NEW e \in Cmd
  PROVE  Output(e)'
<1> USE DEF given, network, replica, control, files, IInv, CommandInv, TypeOK, Output,
      Course, Reports, Delivered
<1>1. ASSUME NEW f \in Cmd, FindManifest(f) \/ MissManifest(f) \/ ReadOffline(f) \/
            List(f) \/ Reject(f) \/ Resolve(f)
      PROVE  Output(e)'
  BY <1>1 DEF FindManifest, MissManifest, ReadOffline, List, Reject, Resolve, Work,
     Settle, Reading
<1>2. ASSUME NEW f \in Cmd, Sync(f) \/ FetchMetadata(f) \/ PeerComes(f) \/
            PeerLeaves(f)
      PROVE  Output(e)'
  BY <1>2 DEF Sync, FetchMetadata, PeerComes, PeerLeaves, AfterSync, Work, Settle,
     Reading
<1>3. ASSUME NEW f \in Cmd, MakeTemp(f) \/ OpenFails(f) \/ StreamStops(f) \/
            CheckSignal(f) \/ DiskFails(f)
      PROVE  Output(e)'
  BY <1>3 DEF MakeTemp, OpenFails, StreamStops, CheckSignal, DiskFails, Work, Settle,
     StreamError, Unwind
<1>4. ASSUME NEW f \in Cmd, RemoveTemp(f) \/ RemoveTempFails(f) PROVE Output(e)'
  BY <1>4 DEF RemoveTemp, RemoveTempFails, Settle
<1>5. ASSUME NEW f \in Cmd, ReadChunk(f) PROVE Output(e)'
  BY <1>5 DEF ReadChunk, StreamError, Unwind, Settle
<1>6. ASSUME NEW f \in Cmd, EndStream(f) PROVE Output(e)'
  BY <1>6 DEF EndStream, StreamError, Unwind, Settle, Work
<1>7. ASSUME NEW f \in Cmd, Link(f) PROVE Output(e)'
  <2>1. CASE dest = None
    <3>1. dest' = [by |-> f, bytes |-> read[f]] /\ dest' \notin {None, Foreign}
      BY <1>7, <2>1, ConstantsAssumption DEF Link
    <3> QED
      BY <1>7, <2>1, <3>1 DEF Link, Unwind
  <2>2. CASE dest # None
    BY <1>7, <2>2 DEF Link, Unwind
  <2> QED
    BY <2>1, <2>2
<1>8. ASSUME NEW f \in Cmd, Start(f) \/ Return(f) \/ Stop(f) \/ CloseRegistry(f)
      PROVE  Output(e)'
  BY <1>8 DEF Start, Return, Stop, CloseRegistry, Work
<1>9. ASSUME NEW f \in Cmd, GiveUp(f) \/ Shutdown(f) \/ Exit(f) \/ Kill(f)
      PROVE  Output(e)'
  BY <1>9 DEF GiveUp, Shutdown, Exit, Kill
<1>10. CASE Interfere
  BY <1>10 DEF Interfere
<1>11. CASE UNCHANGED vars
  BY <1>11 DEF vars
<1> QED
  BY <1>1, <1>2, <1>3, <1>4, <1>5, <1>6, <1>7, <1>8, <1>9, <1>10, <1>11
  DEF Next, WorkStep, MainStep

\* A miss is said after asking.
LEMMA AskedKept ==
  ASSUME IInv, TypeOK', [Next]_vars, NEW e \in Cmd
  PROVE  Asked(e)'
<1> USE DEF given, network, replica, control, files, IInv, CommandInv, TypeOK, Asked,
      Course, Reports
<1>1. ASSUME NEW f \in Cmd, FindManifest(f) \/ MissManifest(f) \/ ReadOffline(f) \/
            List(f) \/ Reject(f) \/ Resolve(f)
      PROVE  Asked(e)'
  BY <1>1 DEF FindManifest, MissManifest, ReadOffline, List, Reject, Resolve, Work,
     Settle, Reading
<1>2. ASSUME NEW f \in Cmd, Sync(f) \/ FetchMetadata(f) \/ PeerComes(f) \/
            PeerLeaves(f)
      PROVE  Asked(e)'
  BY <1>2 DEF Sync, FetchMetadata, PeerComes, PeerLeaves, AfterSync, Work, Settle,
     Reading
<1>3. ASSUME NEW f \in Cmd, MakeTemp(f) \/ OpenFails(f) \/ StreamStops(f) \/
            CheckSignal(f) \/ DiskFails(f)
      PROVE  Asked(e)'
  BY <1>3 DEF MakeTemp, OpenFails, StreamStops, CheckSignal, DiskFails, Work, Settle,
     StreamError, Unwind
<1>4. ASSUME NEW f \in Cmd, RemoveTemp(f) \/ RemoveTempFails(f) PROVE Asked(e)'
  BY <1>4 DEF RemoveTemp, RemoveTempFails, Settle
<1>5. ASSUME NEW f \in Cmd, ReadChunk(f) PROVE Asked(e)'
  BY <1>5 DEF ReadChunk, StreamError, Unwind, Settle
<1>6. ASSUME NEW f \in Cmd, EndStream(f) PROVE Asked(e)'
  BY <1>6 DEF EndStream, StreamError, Unwind, Settle, Work
<1>7. ASSUME NEW f \in Cmd, Link(f) PROVE Asked(e)'
  BY <1>7 DEF Link, Unwind
<1>8. ASSUME NEW f \in Cmd, Start(f) \/ Return(f) \/ Stop(f) \/ CloseRegistry(f)
      PROVE  Asked(e)'
  BY <1>8 DEF Start, Return, Stop, CloseRegistry, Work
<1>9. ASSUME NEW f \in Cmd, GiveUp(f) \/ Shutdown(f) \/ Exit(f) \/ Kill(f)
      PROVE  Asked(e)'
  BY <1>9 DEF GiveUp, Shutdown, Exit, Kill
<1>10. CASE Interfere
  BY <1>10 DEF Interfere
<1>11. CASE UNCHANGED vars
  BY <1>11 DEF vars
<1> QED
  BY <1>1, <1>2, <1>3, <1>4, <1>5, <1>6, <1>7, <1>8, <1>9, <1>10, <1>11
  DEF Next, WorkStep, MainStep

\* What has gone through the meter is a prefix of the blob.
LEMMA ProgressKept ==
  ASSUME IInv, TypeOK', [Next]_vars, NEW e \in Cmd
  PROVE  Progress(e)'
<1> USE DEF given, network, replica, control, files, IInv, CommandInv, TypeOK, Progress,
      Course, Reports, Verified
<1>1. ASSUME NEW f \in Cmd, FindManifest(f) \/ MissManifest(f) \/ ReadOffline(f) \/
            List(f) \/ Reject(f) \/ Resolve(f)
      PROVE  Progress(e)'
  BY <1>1 DEF FindManifest, MissManifest, ReadOffline, List, Reject, Resolve, Work,
     Settle, Reading
<1>2. ASSUME NEW f \in Cmd, Sync(f) \/ FetchMetadata(f) \/ PeerComes(f) \/
            PeerLeaves(f)
      PROVE  Progress(e)'
  BY <1>2 DEF Sync, FetchMetadata, PeerComes, PeerLeaves, AfterSync, Work, Settle,
     Reading
<1>3. ASSUME NEW f \in Cmd, MakeTemp(f) \/ OpenFails(f) \/ StreamStops(f) \/
            CheckSignal(f) \/ DiskFails(f)
      PROVE  Progress(e)'
  <2>1. CASE MakeTemp(f) \/ OpenFails(f)
    BY <2>1 DEF MakeTemp, OpenFails, Work, Settle
  <2>2. CASE StreamStops(f)
    BY <2>2 DEF StreamStops, StreamError, Unwind, Settle
  <2>3. CASE CheckSignal(f) \/ DiskFails(f)
    BY <2>3 DEF CheckSignal, DiskFails, Unwind, Work
  <2> QED
    BY <1>3, <2>1, <2>2, <2>3
<1>4. ASSUME NEW f \in Cmd, RemoveTemp(f) \/ RemoveTempFails(f) PROVE Progress(e)'
  BY <1>4 DEF RemoveTemp, RemoveTempFails, Settle
<1>5. ASSUME NEW f \in Cmd, ReadChunk(f) PROVE Progress(e)'
  <2>1. CASE e # f
    BY <1>5, <2>1 DEF ReadChunk, StreamError, Unwind, Settle
  <2>2. CASE e = f /\ Len(read[f]) + 1 > manifest.size
    <3>1. read' = read /\ result'[f] \in {"error"} /\ work'[f] \in {"remove", "settled"}
      BY <1>5, <2>2 DEF ReadChunk, StreamError, Unwind, Settle
    <3>2. /\ Len(read[f]) \in Nat /\ Len(blob) \in Nat
          /\ have'[f] \in {have[f], Len(read[f]) + 1} /\ have'[f] >= have[f]
      BY <1>5, ContentIsSequence DEF ReadChunk
    <3> QED
      BY <1>5, <2>2, <3>1, <3>2 DEF ReadChunk
  <2>3. CASE e = f /\ ~(Len(read[f]) + 1 > manifest.size)
    <3>1. /\ read[f] \in Content /\ blob \in Content /\ Len(read[f]) < Len(blob)
          /\ Len(read[f]) \in Nat /\ Len(blob) \in Nat
      BY <1>5, ContentIsSequence DEF ReadChunk
    <3>2. read'[f] = Append(read[f], blob[Len(read[f]) + 1])
      BY <1>5, <2>3 DEF ReadChunk
    <3>3. /\ Len(read'[f]) = Len(read[f]) + 1
          /\ read'[f][Len(read[f]) + 1] = blob[Len(read[f]) + 1]
          /\ \A i \in 1..Len(read[f]) : read'[f][i] = read[f][i]
      BY <3>1, <3>2, NextChunk
    <3>4. /\ Len(read[f]) <= have[f] /\ have[f] <= Len(blob) /\ have[f] \in Int
          /\ \A i \in 1..Len(read[f]) : read[f][i] = blob[i]
      BY <2>3, ConstantsAssumption
    <3>5. \A i \in 1..Len(read'[f]) : read'[f][i] = blob[i]
      BY ONLY <3>1, <3>3, <3>4
    <3>6. Len(read'[f]) <= have'[f] /\ have'[f] <= Len(blob)
      BY <1>5, <3>1, <3>3, <3>4 DEF ReadChunk
    <3>7. work'[f] = "stream" /\ result'[f] = "none" /\ blob' = blob
      <4>1. work' = work /\ result' = result /\ work[f] = "stream"
        BY <1>5, <2>3 DEF ReadChunk
      <4>2. work'[f] = "stream" /\ result'[f] = "none"
        BY <4>1
      <4> QED
        BY <1>5, <4>2 DEF ReadChunk
    <3> QED
      BY <2>3, <3>5, <3>6, <3>7
  <2> QED
    BY <2>1, <2>2, <2>3
<1>6. ASSUME NEW f \in Cmd, EndStream(f) PROVE Progress(e)'
  <2>1. CASE e # f
    BY <1>6, <2>1 DEF EndStream, StreamError, Unwind, Settle, Work
  <2>2. CASE e = f /\ ~Verified(read[f])
    BY <1>6, <2>2 DEF EndStream, StreamError, Unwind, Settle
  <2>3. CASE e = f /\ Verified(read[f])
    <3>1. read[f] = blob
      <4>1. /\ read[f] \in Seq(Chunk) /\ blob \in Seq(Chunk) /\ Len(read[f]) = Len(blob)
            /\ \A i \in 1..Len(read[f]) : read[f][i] = blob[i]
        BY <1>6, ContentIsSequence DEF EndStream
      <4> QED
        BY ONLY <4>1, SeqEqual
    <3>2. have[f] = Len(blob) /\ manifest \in Manifest /\ Verified(blob)
      BY <1>6, <2>3, <3>1, ContentIsSequence DEF EndStream
    <3> QED
      BY <1>6, <2>3, <3>1, <3>2 DEF EndStream, Settle, Work
  <2> QED
    BY <2>1, <2>2, <2>3
<1>7. ASSUME NEW f \in Cmd, Link(f) PROVE Progress(e)'
  BY <1>7 DEF Link, Unwind
<1>8. ASSUME NEW f \in Cmd, Start(f) \/ Return(f) \/ Stop(f) \/ CloseRegistry(f)
      PROVE  Progress(e)'
  BY <1>8 DEF Start, Return, Stop, CloseRegistry, Work
<1>9. ASSUME NEW f \in Cmd, GiveUp(f) \/ Shutdown(f) \/ Exit(f) \/ Kill(f)
      PROVE  Progress(e)'
  BY <1>9 DEF GiveUp, Shutdown, Exit, Kill
<1>10. CASE Interfere
  BY <1>10 DEF Interfere
<1>11. CASE UNCHANGED vars
  BY <1>11 DEF vars
<1> QED
  BY <1>1, <1>2, <1>3, <1>4, <1>5, <1>6, <1>7, <1>8, <1>9, <1>10, <1>11
  DEF Next, WorkStep, MainStep

\* Only the whole verified blob is linked.
LEMMA OutputGenuineKept ==
  ASSUME IInv, TypeOK', [Next]_vars
  PROVE  OutputGenuine'
<1>1. manifest' = manifest /\ blob' = blob
  BY DEF Next, WorkStep, MainStep, vars, given, Start, FetchMetadata, FindManifest,
     MissManifest, ReadOffline, Sync, List, Reject, Resolve, MakeTemp, OpenFails,
     ReadChunk, EndStream, StreamStops, CheckSignal, Link, RemoveTemp, RemoveTempFails,
     DiskFails, Return, Stop, CloseRegistry, GiveUp, Shutdown, Exit, Kill, PeerComes,
     PeerLeaves, Interfere
<1>2. CASE dest' = dest
  BY <1>1, <1>2 DEF IInv, OutputGenuine, Delivered, Verified
<1>3. ASSUME NEW f \in Cmd, Link(f) PROVE OutputGenuine'
  <2>1. CASE dest = None
    <3>1. dest' = [by |-> f, bytes |-> read[f]]
      BY <1>3, <2>1 DEF Link
    <3>2. manifest \in Manifest /\ read[f] = blob /\ Verified(blob)
      BY <1>3 DEF Link, IInv, CommandInv, Course, Progress
    <3> QED
      BY <1>1, <3>1, <3>2 DEF OutputGenuine, Verified
  <2> QED
    BY <1>2, <1>3, <2>1 DEF Link
<1>4. CASE Interfere
  BY <1>4 DEF Interfere, OutputGenuine, Delivered
<1> QED
  BY <1>2, <1>3, <1>4
  DEF Next, WorkStep, MainStep, vars, files, Start, FetchMetadata, FindManifest,
      MissManifest, ReadOffline, Sync, List, Reject, Resolve, MakeTemp, OpenFails,
      ReadChunk, EndStream, StreamStops, CheckSignal, RemoveTemp, RemoveTempFails,
      DiskFails, Return, Stop, CloseRegistry, GiveUp, Shutdown, Exit, Kill, PeerComes,
      PeerLeaves

-------------------------------------------------------------------------------
(* The invariant and what follows from it.                                 *)

\* The invariant holds before any command runs.
LEMMA Initially == Init => IInv
<1> SUFFICES ASSUME Init PROVE IInv
  OBVIOUS
<1>1. Len(blob) \in 0..MaxLen /\ MaxLen \in Nat
  BY ContentIsSequence, ConstantsAssumption DEF Init
<1>2. TypeOK
  BY <1>1, EmptyContent DEF Init, TypeOK
<1>3. ASSUME NEW f \in Cmd
      PROVE  Reports(f) /\ Course(f) /\ Leftover(f) /\ Output(f) /\ Asked(f)
  BY DEF Init, Reports, Course, Leftover, Output, Asked, Delivered
<1>4. ASSUME NEW f \in Cmd PROVE Progress(f)
  BY <1>1 DEF Init, Progress
<1>5. OutputGenuine
  BY DEF Init, OutputGenuine, Delivered
<1> QED
  BY <1>2, <1>3, <1>4, <1>5 DEF IInv, CommandInv

\* Every step of a command, and of the world around it, keeps it.
LEMMA Inductive == IInv /\ [Next]_vars => IInv'
<1> SUFFICES ASSUME IInv, [Next]_vars PROVE IInv'
  OBVIOUS
<1>1. TypeOK'
  BY TypesKept DEF IInv
<1>2. CommandInv'
  BY <1>1, ReportsKept, CourseKept, LeftoverKept, OutputKept, ProgressKept, AskedKept
  DEF CommandInv
<1>3. OutputGenuine'
  BY <1>1, OutputGenuineKept
<1> QED
  BY <1>1, <1>2, <1>3 DEF IInv

\* It holds in every reachable state.
LEMMA Invariant == Spec => []IInv
  BY Initially, Inductive, PTL DEF Spec

\* Every variable has its type, for any number of commands.
THEOREM TypeCorrect == Spec => []TypeOK
  BY Invariant, PTL DEF IInv

\* The output path gets nothing but the whole, verified artifact.
THEOREM OutputsAreVerified == Spec => []OutputVerified
<1>1. IInv => OutputVerified
  BY DEF IInv, OutputGenuine, OutputVerified
<1> QED
  BY <1>1, Invariant, PTL

\* A fetch that reports success has made the output itself.
THEOREM PrintedOutputsExist == Spec => []PrintedMeansDelivered
<1>1. IInv => PrintedMeansDelivered
  BY DEF IInv, CommandInv, Reports, Output, PrintedMeansDelivered
<1> QED
  BY <1>1, Invariant, PTL

\* A fetch that reports failure has made no output, unless it was interrupted too late
\* or could not clean up.
THEOREM FailuresDeliverNothing == Spec => []FailedMeansUndelivered
<1>1. IInv => FailedMeansUndelivered
  BY DEF IInv, CommandInv, Output, FailedMeansUndelivered
<1> QED
  BY <1>1, Invariant, PTL

\* Nothing appears or disappears behind a report.
THEOREM ReportsAreLast == Spec => []NothingAfterReport
<1>1. IInv => NothingAfterReport
  BY DEF IInv, CommandInv, Reports, Leftover, NothingAfterReport
<1> QED
  BY <1>1, Invariant, PTL

\* An announced seed has the whole artifact, verified.
THEOREM SeedsServe == Spec => []SeedServesVerified
<1>1. IInv => SeedServesVerified
  BY DEF IInv, CommandInv, Reports, Progress, SeedServesVerified
<1> QED
  BY <1>1, Invariant, PTL

\* A miss is reported only after a peer was asked.
THEOREM MissesAreReal == Spec => []NoEarlyMiss
<1>1. IInv => NoEarlyMiss
  BY DEF IInv, CommandInv, Asked, NoEarlyMiss
<1> QED
  BY <1>1, Invariant, PTL

\* No fetch replaces what is at the output path.
THEOREM OutputsStay == Spec => NeverReplaces
<1>1. [Next]_vars => [dest # None => dest' = dest]_vars
  BY DEF Next, WorkStep, MainStep, vars, files, Start, FetchMetadata, FindManifest,
     MissManifest, ReadOffline, Sync, List, Reject, Resolve, MakeTemp, OpenFails,
     ReadChunk, EndStream, StreamStops, CheckSignal, Link, RemoveTemp, RemoveTempFails,
     DiskFails, Return, Stop, CloseRegistry, GiveUp, Shutdown, Exit, Kill, PeerComes,
     PeerLeaves, Interfere
<1> QED
  BY <1>1, PTL DEF Spec, NeverReplaces

-------------------------------------------------------------------------------
(* Every command's steps are numbered.                                     *)

\* How many places each task has before it, and what the work has to read at this one.
MainStage ==
  [idle |-> 6, run |-> 5, close |-> 4, wait |-> 3, serve |-> 2, final |-> 1, done |-> 0]

WorkStage ==
  [none |-> 11, read1 |-> 10, sync |-> 9, read2 |-> 8, list |-> 8, resolve |-> 7,
   open |-> 6, stream |-> 5, check |-> 4, link |-> 3, remove |-> 2, settled |-> 1,
   killed |-> 0]

Left(f) == (MaxLen - Len(read[f])) + (IF meta[f] = "cached" THEN 0 ELSE 1)

Nearer(f) ==
  \/ MainStage[main'[f]] < MainStage[main[f]]
  \/ main'[f] = main[f] /\ WorkStage[work'[f]] < WorkStage[work[f]]
  \/ main'[f] = main[f] /\ work'[f] = work[f] /\ Left(f)' < Left(f)

NoFurther(f) ==
  \/ Nearer(f)
  \/ main'[f] = main[f] /\ work'[f] = work[f] /\ Left(f)' = Left(f)

\* No step, of peers, other commands or the command itself, gives a command more to do;
\* each step of its two tasks leaves less.
StepsNumbered ==
  [][\A f \in Cmd : NoFurther(f) /\ (WorkStep(f) \/ MainStep(f) => Nearer(f))]_vars

\* What is left to read is a number.
LEMMA LeftIsNumber ==
  ASSUME TypeOK, NEW f \in Cmd
  PROVE  Left(f) \in Nat /\ Len(read[f]) \in 0..MaxLen /\ MaxLen \in Nat
<1>1. Len(read[f]) \in 0..MaxLen /\ MaxLen \in Nat
  BY ContentIsSequence, ConstantsAssumption DEF TypeOK
<1> QED
  BY <1>1 DEF Left

\* A chunk, or the metadata, that the work need not read again.
LEMMA ReadingIsNearer ==
  ASSUME TypeOK, TypeOK', NEW f \in Cmd, ReadChunk(f) \/ FetchMetadata(f)
  PROVE  Nearer(f)
<1>1. CASE FetchMetadata(f)
  <2>1. main' = main /\ work' = work /\ read' = read
    BY <1>1 DEF FetchMetadata, control, files
  <2>2. meta[f] = "known" /\ meta'[f] = "cached"
    BY <1>1 DEF FetchMetadata, TypeOK
  <2> QED
    BY <2>1, <2>2, LeftIsNumber DEF Nearer, Left
<1>2. CASE ReadChunk(f) /\ Len(read[f]) + 1 > manifest.size
  <2>1. main' = main /\ work[f] = "stream" /\ work'[f] \in {"remove", "settled"}
    BY <1>2 DEF ReadChunk, control, StreamError, Unwind, Settle, TypeOK
  <2> QED
    BY <2>1 DEF Nearer, WorkStage
<1>3. CASE ReadChunk(f) /\ ~(Len(read[f]) + 1 > manifest.size)
  <2>1. main' = main /\ work' = work /\ meta' = meta
    BY <1>3 DEF ReadChunk, control
  <2>2. read'[f] = Append(read[f], blob[Len(read[f]) + 1])
    BY <1>3 DEF ReadChunk, TypeOK
  <2>3. read[f] \in Seq(Chunk)
    BY ContentIsSequence DEF TypeOK
  <2>4. Len(read'[f]) = Len(read[f]) + 1
    BY <2>2, <2>3
  <2> QED
    BY <2>1, <2>4, LeftIsNumber DEF Nearer, Left
<1> QED
  BY <1>1, <1>2, <1>3

\* The other steps of the work take it to a later place.
LEMMA WorkIsNearer ==
  ASSUME TypeOK, TypeOK', NEW f \in Cmd, WorkStep(f) \/ DiskFails(f)
  PROVE  Nearer(f)
<1> USE DEF control, TypeOK, Settle, Work, Unwind, StreamError
<1>1. ASSUME main' = main, WorkStage[work'[f]] < WorkStage[work[f]] PROVE Nearer(f)
  BY <1>1 DEF Nearer
<1>2. CASE FindManifest(f) \/ MissManifest(f) \/ ReadOffline(f) \/ List(f) \/ Reject(f)
  BY <1>1, <1>2
    DEF WorkStage, FindManifest, MissManifest, ReadOffline, List, Reject, Reading
<1>3. CASE Sync(f) \/ Resolve(f) \/ MakeTemp(f) \/ OpenFails(f)
  BY <1>1, <1>3 DEF WorkStage, Sync, AfterSync, Resolve, MakeTemp, OpenFails
<1>4. CASE EndStream(f) \/ StreamStops(f) \/ CheckSignal(f) \/ Link(f)
  BY <1>1, <1>4 DEF WorkStage, EndStream, StreamStops, CheckSignal, Link
<1>5. CASE RemoveTemp(f) \/ RemoveTempFails(f) \/ DiskFails(f)
  BY <1>1, <1>5 DEF WorkStage, RemoveTemp, RemoveTempFails, DiskFails
<1> QED
  BY <1>2, <1>3, <1>4, <1>5, ReadingIsNearer DEF WorkStep

\* A step of the main task, a start and a kill take that task to a later place.
LEMMA MainIsNearer ==
  ASSUME TypeOK, NEW f \in Cmd, MainStep(f) \/ Start(f) \/ Shutdown(f) \/ Kill(f)
  PROVE  Nearer(f)
  BY DEF TypeOK, Nearer, MainStage, MainStep, Start, Shutdown, Kill, Return, Stop,
       CloseRegistry, GiveUp, Exit

\* Fetch, seed and list take boundedly many steps: there is no retry, no second sync and
\* nothing that peers can do which makes one start over.
THEOREM StepsAreNumbered == Spec => StepsNumbered
<1>1. IInv /\ IInv' /\ [Next]_vars
        => [\A f \in Cmd :
              NoFurther(f) /\ (WorkStep(f) \/ MainStep(f) => Nearer(f))]_vars
  <2> SUFFICES ASSUME IInv, IInv', [Next]_vars, NEW f \in Cmd
               PROVE  NoFurther(f) /\ (WorkStep(f) \/ MainStep(f) => Nearer(f))
    OBVIOUS
  <2>1. TypeOK /\ TypeOK'
    BY DEF IInv
  <2>2. \/ WorkStep(f) \/ DiskFails(f)
        \/ MainStep(f) \/ Start(f) \/ Shutdown(f) \/ Kill(f)
        => Nearer(f)
    BY <2>1, WorkIsNearer, MainIsNearer
  <2>3. ASSUME main'[f] = main[f], work'[f] = work[f], read'[f] = read[f],
               meta'[f] = meta[f]
        PROVE  NoFurther(f)
    BY <2>3 DEF NoFurther, Left
  <2>4. ASSUME \/ \E g \in Cmd : PeerComes(g) \/ PeerLeaves(g)
               \/ Interfere \/ UNCHANGED vars
        PROVE  NoFurther(f)
    BY <2>3, <2>4
      DEF PeerComes, PeerLeaves, Interfere, vars, replica, control, files
  <2>5. ASSUME NEW g \in Cmd, g # f, WorkStep(g) \/ DiskFails(g)
        PROVE  main'[f] = main[f] /\ work'[f] = work[f] /\ read'[f] = read[f]
               /\ meta'[f] = meta[f]
    BY <2>1, <2>5
      DEF TypeOK, WorkStep, replica, control, files, FetchMetadata, FindManifest,
          MissManifest, ReadOffline, Sync, AfterSync, List, Reject, Resolve, MakeTemp,
          OpenFails, ReadChunk, EndStream, StreamStops, CheckSignal, Link, RemoveTemp,
          RemoveTempFails, DiskFails, Work, Settle, Unwind, StreamError
  <2>6. ASSUME NEW g \in Cmd, g # f,
               MainStep(g) \/ Start(g) \/ Shutdown(g) \/ Kill(g)
        PROVE  main'[f] = main[f] /\ work'[f] = work[f] /\ read'[f] = read[f]
               /\ meta'[f] = meta[f]
    BY <2>1, <2>6
      DEF TypeOK, MainStep, Start, Shutdown, Kill, Return, Stop, CloseRegistry, GiveUp,
          Exit, Work, replica, files
  <2> QED
    BY <2>2, <2>3, <2>4, <2>5, <2>6 DEF Next, NoFurther
<1> QED
  BY <1>1, Invariant, PTL DEF Spec, StepsNumbered

-------------------------------------------------------------------------------
(* Refinement.                                                             *)

\* The step that ends a fetch, and the one that links its output.
LEMMA EndingRefines ==
  ASSUME IInv, NEW f \in Cmd, Return(f) \/ GiveUp(f) \/ Kill(f)
  PROVE  Promise!Next \/ UNCHANGED <<Genuine, dest, Ending>>
<1>1. UNCHANGED <<Genuine, dest>> /\ kind' = kind
  <2>1. manifest' = manifest /\ blob' = blob /\ dest' = dest /\ kind' = kind
    BY DEF Return, GiveUp, Kill, given, files
  <2> QED
    BY <2>1 DEF Genuine, Verified
<1> USE DEF IInv, TypeOK
<1>2. CASE kind[f] # "fetch"
  BY <1>1, <1>2 DEF Return, GiveUp, Kill, Ending
<1>3. CASE outcome' = outcome
  BY <1>1, <1>3 DEF Ending
<1>4. ASSUME NEW how, kind[f] = "fetch", outcome[f] = "none",
             outcome' = [outcome EXCEPT ![f] = how]
      PROVE  Ending[f] = "none" /\ Ending' = [Ending EXCEPT ![f] = how]
  BY <1>1, <1>4 DEF Ending
<1>5. ASSUME kind[f] = "fetch", outcome[f] = "none",
             outcome' = [outcome EXCEPT ![f] = "ok"], Return(f)
      PROVE  Promise!Succeed(f)
  <2>1. Delivered(f)
    BY <1>5 DEF Return, CommandInv, Output
  <2>2. dest = [by |-> f, bytes |-> blob] /\ Genuine = {blob}
    BY <2>1 DEF OutputGenuine, Delivered, Genuine
  <2> QED
    BY <1>1, <1>4, <1>5, <2>2 DEF Promise!Succeed
<1>6. ASSUME NEW how \in {"failed", "killed"}, kind[f] = "fetch", outcome[f] = "none",
             outcome' = [outcome EXCEPT ![f] = how]
      PROVE  Promise!Fail(f)
  BY <1>1, <1>4, <1>6 DEF Promise!Fail
<1>7. Return(f) \/ GiveUp(f) => outcome[f] = "none"
  BY DEF Return, GiveUp, CommandInv, Reports
<1>8. \/ outcome' = outcome
      \/ /\ outcome[f] = "none"
         /\ \/ outcome' = [outcome EXCEPT ![f] = "ok"] /\ Return(f)
            \/ \E how \in {"failed", "killed"} : outcome' = [outcome EXCEPT ![f] = how]
  BY <1>7 DEF Return, GiveUp, Kill
<1> QED
  BY <1>2, <1>3, <1>5, <1>6, <1>8 DEF Promise!Next

LEMMA LinkRefines ==
  ASSUME IInv, NEW f \in Cmd, Link(f)
  PROVE  Promise!Next \/ UNCHANGED <<Genuine, dest, Ending>>
<1>1. UNCHANGED <<Genuine, Ending>>
  BY DEF Link, given, control, Genuine, Ending, Verified
<1>2. CASE dest = None
  <2>1. /\ kind[f] = "fetch" /\ outcome[f] = "none"
        /\ manifest \in Manifest /\ read[f] = blob /\ Verified(blob)
    BY DEF Link, IInv, TypeOK, CommandInv, Course, Progress, Reports
  <2>2. Ending[f] = "none" /\ Genuine = {blob}
    BY <2>1 DEF Ending, Genuine
  <2>3. dest' = [by |-> f, bytes |-> blob]
    BY <1>2, <2>1 DEF Link
  <2>4. Promise!Deliver(f, blob)
    BY <1>1, <1>2, <2>2, <2>3 DEF Promise!Deliver
  <2> QED
    BY <2>2, <2>4 DEF Promise!Next
<1> QED
  BY <1>1, <1>2 DEF Link

\* The commands together are one Delivery: the artifact appears at the output path in
\* one step, by a fetch that has not ended, and is that fetch's only success.
THEOREM FetchImplementsDelivery == Spec => ImplementsDelivery
<1>1. Init => Promise!Init
  BY DEF Init, Promise!Init, Genuine, Ending
<1>2. IInv /\ [Next]_vars => [Promise!Next]_<<Genuine, dest, Ending>>
  <2> SUFFICES ASSUME IInv, [Next]_vars
               PROVE  Promise!Next \/ UNCHANGED <<Genuine, dest, Ending>>
    OBVIOUS
  <2>1. CASE UNCHANGED <<given, dest, outcome>>
    BY <2>1 DEF given, Genuine, Ending, Verified
  <2>2. CASE Interfere
    <3>1. UNCHANGED <<Genuine, Ending>>
      BY <2>2 DEF Interfere, given, control, Genuine, Ending, Verified
    <3> QED
      BY <2>2, <3>1 DEF Interfere, Promise!Next, Promise!Occupy
  <2> QED
    BY <2>1, <2>2, EndingRefines, LinkRefines
    DEF Next, WorkStep, MainStep, vars, files, control, Start, FetchMetadata,
        FindManifest, MissManifest, ReadOffline, Sync, List, Reject, Resolve, MakeTemp,
        OpenFails, ReadChunk, EndStream, StreamStops, CheckSignal, RemoveTemp,
        RemoveTempFails, DiskFails, Stop, CloseRegistry, Shutdown, Exit, PeerComes,
        PeerLeaves
<1> QED
  BY <1>1, <1>2, Invariant, PTL DEF Spec, ImplementsDelivery, Promise!Spec
===============================================================================
