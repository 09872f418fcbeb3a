------------------------------ MODULE BlobStream -------------------------------
(***************************************************************************)
(* One pipeline with a blob stream of the drive at one end: an upload into  *)
(* the drive (writeBlob, through asNodeWritable) or a download out of it    *)
(* (readBlob, through asNodeReadable).  The drive's streams are streamx's,  *)
(* the pipeline's are Node's; the adapter joins one of each by callbacks    *)
(* and event handlers.  A handler runs to its end within the step that      *)
(* emits its event.  Chunks keep their order, so they are counted.          *)
(***************************************************************************)
EXTENDS Integers

CONSTANTS
  MaxTotal,  \* bound: chunks to carry
  HighWater  \* chunks at which the buffer between the two streams is full

ASSUME BoundsAssumption == MaxTotal \in Nat /\ HighWater \in Nat \ {0}

VARIABLES
  way,      \* "write" for an upload, "read" for a download
  total,    \* chunks to carry
  sent,     \* chunks handed to the adapter
  buffer,   \* of those, how many wait in the stream on the far side
  carried,  \* chunks stored in the drive, or taken by the pipeline
  node,     \* the Node stream
  drive,    \* the drive's stream
  broken,   \* whether the drive's stream was destroyed with an error
  flowing,  \* whether a download's stream is resumed
  outcome   \* how the pipeline settled

vars == <<way, total, sent, buffer, carried, node, drive, broken, flowing, outcome>>

given == <<way, total>>

-------------------------------------------------------------------------------
\* Listening to "data" starts the flow of a download.
Init ==
  /\ way \in {"write", "read"}
  /\ total \in 0..MaxTotal
  /\ sent = 0 /\ buffer = 0 /\ carried = 0
  /\ node = "open"
  /\ drive = "open"
  /\ broken = FALSE
  /\ flowing = (way = "read")
  /\ outcome = "none"

-------------------------------------------------------------------------------
(* asNodeWritable.                                                         *)

\* Mutant: what write returns is ignored.
WriteRegardless ==
  /\ way = "write" /\ node = "open"
  /\ sent < total
  /\ sent' = sent + 1
  /\ buffer' = IF drive = "open" THEN buffer + 1 ELSE buffer
  /\ UNCHANGED <<given, carried, node, drive, broken, flowing, outcome>>

\* write: the drive's stream takes the chunk, and a full one makes the next wait for
\* drain.  One that is being destroyed drops it, and may or may not ask to wait.
Write ==
  /\ way = "write" /\ node = "open"
  /\ sent < total
  /\ sent' = sent + 1
  /\ IF drive = "open"
     THEN /\ buffer' = buffer + 1
          /\ node' = IF buffer + 1 < HighWater THEN "open" ELSE "drain"
     ELSE UNCHANGED buffer /\ node' \in {"open", "drain"}
  /\ UNCHANGED <<given, carried, drive, broken, flowing, outcome>>

\* The drive stores a chunk; its stream emits drain when its buffer is empty.
Flush ==
  /\ way = "write" /\ drive \in {"open", "ending"}
  /\ buffer > 0
  /\ buffer' = buffer - 1
  /\ carried' = carried + 1
  /\ node' = IF node = "drain" /\ buffer = 1 THEN "open" ELSE node
  /\ UNCHANGED <<given, sent, drive, broken, flowing, outcome>>

\* Mutant: final calls back without waiting for finish.
FinalAtOnce ==
  /\ way = "write" /\ node = "open"
  /\ sent = total
  /\ node' = "finished"
  /\ drive' = IF drive = "open" THEN "ending" ELSE drive
  /\ UNCHANGED <<given, sent, buffer, carried, broken, flowing, outcome>>

\* final: listen to finish and end the drive's stream.
Final ==
  /\ way = "write" /\ node = "open"
  /\ sent = total
  /\ node' = "final"
  /\ drive' = IF drive = "open" THEN "ending" ELSE drive
  /\ UNCHANGED <<given, sent, buffer, carried, broken, flowing, outcome>>

\* The blob has its entry: finish, and with it final's callback.
Finish ==
  /\ way = "write" /\ drive = "ending"
  /\ buffer = 0
  /\ drive' = "ended"
  /\ node' = IF node = "final" THEN "finished" ELSE node
  /\ UNCHANGED <<given, sent, buffer, carried, broken, flowing, outcome>>

-------------------------------------------------------------------------------
(* asNodeReadable.                                                         *)

\* A data event; push says whether the output wants more.
Data ==
  /\ way = "read" /\ drive = "open"
  /\ flowing
  /\ sent < total
  /\ sent' = sent + 1
  /\ buffer' = buffer + 1
  /\ flowing' = (buffer + 1 < HighWater)
  /\ UNCHANGED <<given, carried, node, drive, broken, outcome>>

\* Mutant: read resumes nothing.
ReadIdle ==
  /\ way = "read" /\ node = "open"
  /\ ~flowing /\ buffer < HighWater
  /\ UNCHANGED vars

\* read: Node asks for more when there is room again.
Read ==
  /\ way = "read" /\ node = "open"
  /\ ~flowing /\ buffer < HighWater
  /\ flowing' = TRUE
  /\ UNCHANGED <<given, sent, buffer, carried, node, drive, broken, outcome>>

\* The rest of the pipeline takes a chunk.
Take ==
  /\ way = "read" /\ node \in {"open", "ended"}
  /\ buffer > 0
  /\ buffer' = buffer - 1
  /\ carried' = carried + 1
  /\ UNCHANGED <<given, sent, node, drive, broken, flowing, outcome>>

\* An end event pushes null.
End ==
  /\ way = "read" /\ drive = "open"
  /\ sent = total
  /\ drive' = "ended"
  /\ node' = IF node = "open" THEN "ended" ELSE node
  /\ UNCHANGED <<given, sent, buffer, carried, broken, flowing, outcome>>

-------------------------------------------------------------------------------
(* Both.                                                                   *)

\* The drive's stream fails, or is destroyed with its drive, without an error.
DriveFails ==
  /\ drive \in {"open", "ending"}
  /\ drive' = "destroyed"
  /\ broken' \in BOOLEAN
  /\ UNCHANGED <<given, sent, buffer, carried, node, flowing, outcome>>

Settled == outcome # "none"

\* Mutant: only an error event counts; a plain close is not looked at.
ClosesQuietly ==
  /\ drive \in {"ended", "destroyed"}
  /\ drive' = "closed"
  /\ IF broken /\ ~Settled
     THEN node' = "destroyed" /\ outcome' = "failed"
     ELSE UNCHANGED <<node, outcome>>
  /\ UNCHANGED <<given, sent, buffer, carried, broken, flowing>>

\* error, if there is one, then close: either destroys an output that has neither
\* finished nor ended, and the pipeline rejects.
Closes ==
  /\ drive \in {"ended", "destroyed"}
  /\ drive' = "closed"
  /\ IF (broken \/ node \notin {"finished", "ended"}) /\ ~Settled
     THEN node' = "destroyed" /\ outcome' = "failed"
     ELSE UNCHANGED <<node, outcome>>
  /\ UNCHANGED <<given, sent, buffer, carried, broken, flowing>>

\* Mutant: destroying the output leaves the drive's stream alone.
AbortLeavesDrive ==
  /\ ~Settled
  /\ way = "read" \/ node \in {"open", "drain"}
  /\ node' = "destroyed" /\ outcome' = "failed"
  /\ UNCHANGED <<given, sent, buffer, carried, drive, broken, flowing>>

\* Another stream of the pipeline fails, or its signal is aborted: the output is
\* destroyed, and destroys the drive's stream.  An upload's source may fail up to
\* its end.
Abort ==
  /\ ~Settled
  /\ way = "read" \/ node \in {"open", "drain"}
  /\ node' = "destroyed" /\ outcome' = "failed"
  /\ IF drive \in {"open", "ending"}
     THEN drive' = "destroyed" /\ broken' = TRUE
     ELSE UNCHANGED <<drive, broken>>
  /\ UNCHANGED <<given, sent, buffer, carried, flowing>>

\* The Node stream has finished, or ended with all of it taken.
Succeed ==
  /\ \/ node = "finished"
     \/ node = "ended" /\ buffer = 0
  /\ node' = "destroyed" /\ outcome' = "ok"
  /\ UNCHANGED <<given, sent, buffer, carried, drive, broken, flowing>>

-------------------------------------------------------------------------------
\* What Node and a drive that has the next block do by themselves.
Handle == Write \/ Flush \/ Final \/ Finish \/ Read \/ Take \/ Closes \/ Succeed

Next == Handle \/ Data \/ End \/ DriveFails \/ Abort

Spec == Init /\ [][Next]_vars

\* Local writes and queued callbacks happen eventually.  A download's next block need
\* not come, and nothing has to fail.
FairSpec == Spec /\ WF_vars(Handle)

-------------------------------------------------------------------------------
(* Properties.                                                             *)

\* Every variable has its type.
TypeOK ==
  /\ way \in {"write", "read"}
  /\ total \in 0..MaxTotal /\ sent \in 0..total
  /\ buffer \in 0..total /\ carried \in 0..total
  /\ node \in {"open", "drain", "final", "finished", "ended", "destroyed"}
  /\ drive \in {"open", "ending", "ended", "destroyed", "closed"}
  /\ broken \in BOOLEAN /\ flowing \in BOOLEAN
  /\ outcome \in {"none", "ok", "failed"}

Pipeline == INSTANCE Transfer

\* A pipeline succeeds only when every chunk has arrived, whatever the order of the
\* drive stream's drain, finish, end, error and close events.
ImplementsTransfer == Pipeline!Spec

\* No more than a full buffer waits between the two streams: write waits for drain,
\* and a full output pauses the drive's stream.
BackPressure == buffer <= HighWater

\* A pipeline that has settled has ended or destroyed the drive's stream.
NoStreamLeft == Settled => drive \notin {"open", "ending"}

\* An upload settles; so does a download whose drive stream has ended or was
\* destroyed, with or without an error.
Settles == way = "write" \/ drive \notin {"open", "ending"} ~> Settled

\* A download that was paused flows again, or is over.
ResumesAfterPause ==
  way = "read" /\ ~flowing ~> flowing \/ Settled \/ drive # "open"
===============================================================================
