------------------------- MODULE StateDirectoryProofs -------------------------
(***************************************************************************)
(* Proofs about StateDirectory, for every set of commands, keys and peers  *)
(* and for commands that overlap in any way.                               *)
(*                                                                         *)
(* That the membership is stable rests on what a command read before it    *)
(* took the lock: the file it read may be out of date in its allowlist,    *)
(* but never in its key and identity.                                      *)
(***************************************************************************)
EXTENDS StateDirectory, TLAPS

\* A command that has the store open has its lock.
Holds(p) == pc[p] \in {"create", "fill", "save", "rename", "close"} => lock = p

\* A started command has a request; the files it read still say who we are.
Stands(c) ==
  c # None =>
    /\ c \in Config
    /\ config \in Config
    /\ MembershipIn(config) = MembershipIn(c)

Reads(p) ==
  /\ pc[p] # "idle" => cmd[p] \in Command
  /\ pc[p] \in {"idle", "read"} => seen[p] = None
  /\ Stands(seen[p])
  /\ Stands(saving[p])

\* What a command accepted of the file agrees with what it was asked.
Agrees(p) ==
  pc[p] \in {"open", "create", "fill", "save", "rename"} =>
    /\ cmd[p].kind = "init" => seen[p] = None
    /\ cmd[p].kind = "join" =>
         cmd[p].arg \in Key /\ (seen[p] # None => seen[p].key = cmd[p].arg)
    /\ Opens(p) => seen[p] # None

\* Where the command is on its way to writing the file.
Writes(p) ==
  /\ pc[p] \in {"create", "fill"} => seen[p] = None
  /\ pc[p] = "fill" => config = Torn
  /\ pc[p] \in {"save", "rename"} => seen[p] # None
  /\ pc[p] = "rename" => saving[p] # None /\ cmd[p].arg \in Peer

Reports(p) ==
  outcome[p] = "ok" =>
    /\ pc[p] \in {"close", "done"}
    /\ config \in Config
    /\ MembershipIn(config) = Reported(p)

CommandInv(p) == Holds(p) /\ Reads(p) /\ Agrees(p) /\ Writes(p) /\ Reports(p)

IInv == TypeOK /\ \A p \in Proc : CommandInv(p)

-------------------------------------------------------------------------------
\* The invariant holds before any command is started.
LEMMA Initially == Init => IInv
<1> SUFFICES ASSUME Init PROVE IInv
  OBVIOUS
<1>1. TypeOK
  BY DEF Init, TypeOK
<1>2. ASSUME NEW p \in Proc PROVE CommandInv(p)
  BY DEF Init, CommandInv, Holds, Reads, Stands, Agrees, Writes, Reports
<1> QED
  BY <1>1, <1>2 DEF IInv

-------------------------------------------------------------------------------
(* Every step keeps IInv.                                                  *)

\* What a step of p leaves as it was: the other commands, the lock unless it is
\* free or p's, the file unless p has the lock, and then its membership.
Frame(p) ==
  /\ \A q \in Proc \ {p} :
       /\ pc'[q] = pc[q] /\ cmd'[q] = cmd[q]
       /\ seen'[q] = seen[q] /\ saving'[q] = saving[q]
       /\ outcome'[q] = outcome[q]
  /\ UNCHANGED lock \/ lock = None \/ lock = p
  /\ \/ UNCHANGED config
     \/ /\ lock = p
        /\ config \in Config =>
             config' \in Config /\ MembershipIn(config') = MembershipIn(config)

\* A step of one command that is within its frame keeps what holds of the others.
LEMMA OthersKeep ==
  ASSUME IInv, NEW p \in Proc, Frame(p), NEW q \in Proc \ {p}
  PROVE  CommandInv(q)'
<1> USE DEF IInv, CommandInv, Frame
<1>1. Holds(q)'
  BY ConstantsAssumption DEF Holds
<1>2. \A c : Stands(c) => Stands(c)'
  BY DEF Stands
<1>3. Reads(q)'
  BY <1>2 DEF Reads
<1>4. Agrees(q)'
  BY DEF Agrees, Opens
<1>5. Writes(q)'
  BY DEF Writes, Holds
<1>6. Reports(q)'
  BY DEF Reports, Reported, KeyOf, IdentityOf
<1> QED
  BY <1>1, <1>3, <1>4, <1>5, <1>6

\* A command that found a file prints what that file said.
LEMMA ReportsWhatItRead ==
  ASSUME NEW p \in Proc, Agrees(p), seen[p] # None, cmd[p] \in Command,
         pc[p] \in {"open", "create", "fill", "save", "rename"}
  PROVE  Reported(p) = MembershipIn(seen[p])
  BY DEF Agrees, Reported, KeyOf, IdentityOf, MembershipIn

\* What is read is the file as it is, so it says who we are.
LEMMA ReadConfigKeeps ==
  ASSUME IInv, NEW p \in Proc, ReadConfig(p)
  PROVE  IInv' /\ Frame(p)
<1> USE ConstantsAssumption DEF IInv, CommandInv, ReadConfig, Goto, Ends
<1>1. TypeOK'
  BY DEF TypeOK, IsComplete, Readable
<1>2. Frame(p)
  BY DEF Frame
<1>3. Holds(p)'
  BY DEF Holds, TypeOK
<1>4. Reads(p)'
  <2>1. \A c : Stands(c) => Stands(c)'
    BY DEF Stands
  <2>2. Stands(config)
    BY DEF TypeOK, Stands, Readable, IsComplete
  <2> QED
    BY <2>1, <2>2 DEF Reads, TypeOK
<1>5. Agrees(p)'
  BY DEF Agrees, Opens, Readable, IsComplete, TypeOK, Config
<1>6. Writes(p)'
  BY DEF Writes
<1>7. Reports(p)'
  BY DEF Reports
<1> QED
  BY <1>1, <1>2, <1>3, <1>4, <1>5, <1>6, <1>7, OthersKeep

\* A refused command is done and has done nothing.
LEMMA RefuseConfigKeeps ==
  ASSUME IInv, NEW p \in Proc, RefuseConfig(p)
  PROVE  IInv' /\ Frame(p)
<1> USE ConstantsAssumption DEF IInv, CommandInv, RefuseConfig, Goto, Ends
<1>1. TypeOK'
  BY DEF TypeOK
<1>2. Frame(p)
  BY DEF Frame
<1>3. Holds(p)'
  BY DEF Holds, TypeOK
<1>4. Reads(p)'
  <2>1. \A c : Stands(c) => Stands(c)'
    BY DEF Stands
  <2> QED
    BY <2>1 DEF Reads
<1>5. Agrees(p)'
  BY DEF Agrees
<1>6. Writes(p)'
  BY DEF Writes
<1>7. Reports(p)'
  BY DEF Reports
<1> QED
  BY <1>1, <1>2, <1>3, <1>4, <1>5, <1>6, <1>7, OthersKeep

\* The lock was free; a command that changes nothing reports what it read.
LEMMA OpenStoreKeeps ==
  ASSUME IInv, NEW p \in Proc, OpenStore(p)
  PROVE  IInv' /\ Frame(p)
<1> USE ConstantsAssumption DEF IInv, CommandInv, OpenStore, Goto, Ends
<1>1. TypeOK'
  BY DEF TypeOK
<1>2. Frame(p)
  BY DEF Frame, TypeOK
<1>3. Holds(p)'
  BY DEF Holds, TypeOK
<1>4. Reads(p)'
  <2>1. \A c : Stands(c) => Stands(c)'
    BY DEF Stands
  <2> QED
    BY <2>1 DEF Reads, TypeOK
<1>5. Agrees(p)'
  BY DEF Agrees, Opens
<1>6. Writes(p)'
  BY DEF Writes, TypeOK
<1>7. Reports(p)'
  <2>1. CASE seen[p] # None
    BY ReportsWhatItRead
      DEF Reports, Reads, Stands, Reported, KeyOf, IdentityOf, TypeOK
  <2>2. CASE seen[p] = None
    BY <2>2 DEF Reports
  <2> QED
    BY <2>1, <2>2
<1> QED
  BY <1>1, <1>2, <1>3, <1>4, <1>5, <1>6, <1>7, OthersKeep

\* A command that cannot open the store is done and has done nothing.
LEMMA OpenFailsKeeps ==
  ASSUME IInv, NEW p \in Proc, OpenFails(p)
  PROVE  IInv' /\ Frame(p)
<1> USE ConstantsAssumption DEF IInv, CommandInv, OpenFails, Goto, Ends
<1>1. TypeOK'
  BY DEF TypeOK
<1>2. Frame(p)
  BY DEF Frame
<1>3. Holds(p)'
  BY DEF Holds, TypeOK
<1>4. Reads(p)'
  <2>1. \A c : Stands(c) => Stands(c)'
    BY DEF Stands
  <2> QED
    BY <2>1 DEF Reads
<1>5. Agrees(p)'
  BY DEF Agrees, TypeOK
<1>6. Writes(p)'
  BY DEF Writes
<1>7. Reports(p)'
  BY DEF Reports
<1> QED
  BY <1>1, <1>2, <1>3, <1>4, <1>5, <1>6, <1>7, OthersKeep

\* The file was absent: there was no membership to lose.
LEMMA CreateConfigKeeps ==
  ASSUME IInv, NEW p \in Proc, CreateConfig(p)
  PROVE  IInv' /\ Frame(p)
<1> USE ConstantsAssumption DEF IInv, CommandInv, CreateConfig, Goto, Ends
<1>1. TypeOK'
  BY DEF TypeOK
<1>2. Frame(p)
  BY DEF Frame, TypeOK, Holds
<1>3. Holds(p)'
  BY DEF Holds, TypeOK
<1>4. Reads(p)'
  <2>1. \A c : Stands(c) => Stands(c)'
    BY DEF Stands
  <2> QED
    BY <2>1 DEF Reads
<1>5. Agrees(p)'
  BY DEF Agrees, Opens
<1>6. Writes(p)'
  BY DEF Writes
<1>7. Reports(p)'
  BY DEF Reports
<1> QED
  BY <1>1, <1>2, <1>3, <1>4, <1>5, <1>6, <1>7, OthersKeep

\* The file of the setup that was first is left alone.
LEMMA CreateFailsKeeps ==
  ASSUME IInv, NEW p \in Proc, CreateFails(p)
  PROVE  IInv' /\ Frame(p)
<1> USE ConstantsAssumption DEF IInv, CommandInv, CreateFails, Goto, Ends
<1>1. TypeOK'
  BY DEF TypeOK
<1>2. Frame(p)
  BY DEF Frame
<1>3. Holds(p)'
  BY DEF Holds, TypeOK
<1>4. Reads(p)'
  <2>1. \A c : Stands(c) => Stands(c)'
    BY DEF Stands
  <2> QED
    BY <2>1 DEF Reads
<1>5. Agrees(p)'
  BY DEF Agrees, TypeOK
<1>6. Writes(p)'
  BY DEF Writes
<1>7. Reports(p)'
  BY DEF Reports
<1> QED
  BY <1>1, <1>2, <1>3, <1>4, <1>5, <1>6, <1>7, OthersKeep

\* The torn file was this command's, which has the lock, and gets what it reports.
LEMMA FillConfigKeeps ==
  ASSUME IInv, NEW p \in Proc, FillConfig(p)
  PROVE  IInv' /\ Frame(p)
<1> USE ConstantsAssumption DEF IInv, CommandInv, FillConfig, Goto, Ends
<1>1. TypeOK'
  BY DEF TypeOK, Config, Agrees, KeyOf, IdentityOf, Opens
<1>2. Frame(p)
  BY DEF Frame, TypeOK, Holds, Writes
<1>3. Holds(p)'
  BY DEF Holds, TypeOK
<1>4. Reads(p)'
  <2>1. \A c : Stands(c) => Stands(c)'
    BY <1>2 DEF Frame, Stands
  <2> QED
    BY <2>1 DEF Reads
<1>5. Agrees(p)'
  BY DEF Agrees, TypeOK
<1>6. Writes(p)'
  BY DEF Writes, TypeOK
<1>7. Reports(p)'
  BY DEF Reports, Reported, MembershipIn, KeyOf, IdentityOf, TypeOK, Agrees,
     Opens, Config, Command
<1> QED
  BY <1>1, <1>2, <1>3, <1>4, <1>5, <1>6, <1>7, OthersKeep

\* The file stays torn; the command reports nothing.
LEMMA FillFailsKeeps ==
  ASSUME IInv, NEW p \in Proc, FillFails(p)
  PROVE  IInv' /\ Frame(p)
<1> USE ConstantsAssumption DEF IInv, CommandInv, FillFails, Goto, Ends
<1>1. TypeOK'
  BY DEF TypeOK
<1>2. Frame(p)
  BY DEF Frame
<1>3. Holds(p)'
  BY DEF Holds, TypeOK
<1>4. Reads(p)'
  <2>1. \A c : Stands(c) => Stands(c)'
    BY DEF Stands
  <2> QED
    BY <2>1 DEF Reads
<1>5. Agrees(p)'
  BY DEF Agrees, TypeOK
<1>6. Writes(p)'
  BY DEF Writes
<1>7. Reports(p)'
  BY DEF Reports
<1> QED
  BY <1>1, <1>2, <1>3, <1>4, <1>5, <1>6, <1>7, OthersKeep

\* The file that is read again may have another allowlist, but the same membership.
LEMMA ReadToSaveKeeps ==
  ASSUME IInv, NEW p \in Proc, ReadToSave(p)
  PROVE  IInv' /\ Frame(p)
<1> USE ConstantsAssumption DEF IInv, CommandInv, ReadToSave, Goto, Ends
<1>1. TypeOK'
  BY DEF TypeOK, IsComplete
<1>2. Frame(p)
  BY DEF Frame
<1>3. Holds(p)'
  BY DEF Holds, TypeOK
<1>4. Reads(p)'
  <2>1. \A c : Stands(c) => Stands(c)'
    BY DEF Stands
  <2>2. Stands(config)
    BY DEF TypeOK, Stands, IsComplete
  <2> QED
    BY <2>1, <2>2 DEF Reads
<1>5. Agrees(p)'
  BY DEF Agrees, Opens
<1>6. Writes(p)'
  BY DEF Writes, TypeOK, IsComplete
<1>7. Reports(p)'
  BY DEF Reports
<1> QED
  BY <1>1, <1>2, <1>3, <1>4, <1>5, <1>6, <1>7, OthersKeep

\* The new file has the membership of the old one, and the command reports it.
LEMMA RenameConfigKeeps ==
  ASSUME IInv, NEW p \in Proc, RenameConfig(p)
  PROVE  IInv' /\ Frame(p)
<1> USE ConstantsAssumption DEF IInv, CommandInv, RenameConfig, Goto, Ends
<1>1. TypeOK'
  BY DEF TypeOK, Config, Writes, TrustedBy
<1>2. Frame(p)
  <2>1. saving[p] \in Config /\ config \in Config /\ lock = p
    BY DEF Reads, Stands, Writes, Holds
  <2>2. MembershipIn(config) = MembershipIn(saving[p])
    BY DEF Reads, Stands, Writes
  <2>3. TrustedBy(p) \in SUBSET Peer
    BY DEF TrustedBy, Reads, Stands, Writes, Config
  <2>4. config' \in Config
    BY <2>1, <2>3 DEF Config
  <2>5. MembershipIn(config') = MembershipIn(saving[p])
    BY DEF MembershipIn
  <2> QED
    BY <2>1, <2>2, <2>4, <2>5 DEF Frame
<1>3. Holds(p)'
  BY DEF Holds, TypeOK
<1>4. Reads(p)'
  <2>1. \A c : Stands(c) => Stands(c)'
    BY <1>2 DEF Frame, Stands
  <2> QED
    BY <2>1 DEF Reads
<1>5. Agrees(p)'
  BY DEF Agrees, TypeOK
<1>6. Writes(p)'
  BY DEF Writes
<1>7. Reports(p)'
  <2>1. /\ MembershipIn(config') = MembershipIn(config)
        /\ config' \in Config
    BY <1>2 DEF Frame, Reads, Stands, Writes
  <2>2. MembershipIn(config) = Reported(p)
    BY ReportsWhatItRead DEF Writes, Reads, Stands
  <2>3. Reported(p)' = Reported(p)
    BY DEF Reported, KeyOf, IdentityOf
  <2> QED
    BY <2>1, <2>2, <2>3 DEF Reports, TypeOK
<1> QED
  BY <1>1, <1>2, <1>3, <1>4, <1>5, <1>6, <1>7, OthersKeep

\* The old file stays; the command reports nothing.
LEMMA SaveFailsKeeps ==
  ASSUME IInv, NEW p \in Proc, SaveFails(p)
  PROVE  IInv' /\ Frame(p)
<1> USE ConstantsAssumption DEF IInv, CommandInv, SaveFails, Goto, Ends
<1>1. TypeOK'
  BY DEF TypeOK
<1>2. Frame(p)
  BY DEF Frame
<1>3. Holds(p)'
  BY DEF Holds, TypeOK
<1>4. Reads(p)'
  <2>1. \A c : Stands(c) => Stands(c)'
    BY DEF Stands
  <2> QED
    BY <2>1 DEF Reads
<1>5. Agrees(p)'
  BY DEF Agrees, TypeOK
<1>6. Writes(p)'
  BY DEF Writes
<1>7. Reports(p)'
  BY DEF Reports
<1> QED
  BY <1>1, <1>2, <1>3, <1>4, <1>5, <1>6, <1>7, OthersKeep

\* The lock is given up by a command that is done with the file.
LEMMA CloseKeeps ==
  ASSUME IInv, NEW p \in Proc, Close(p)
  PROVE  IInv' /\ Frame(p)
<1> USE ConstantsAssumption DEF IInv, CommandInv, Close, Goto, Ends
<1>1. TypeOK'
  BY DEF TypeOK
<1>2. Frame(p)
  BY DEF Frame, TypeOK, Holds
<1>3. Holds(p)'
  BY DEF Holds, TypeOK
<1>4. Reads(p)'
  <2>1. \A c : Stands(c) => Stands(c)'
    BY DEF Stands
  <2> QED
    BY <2>1 DEF Reads
<1>5. Agrees(p)'
  BY DEF Agrees
<1>6. Writes(p)'
  BY DEF Writes
<1>7. Reports(p)'
  BY DEF Reports, Reported, KeyOf, IdentityOf
<1> QED
  BY <1>1, <1>2, <1>3, <1>4, <1>5, <1>6, <1>7, OthersKeep

\* A killed command leaves the file as it is, and its lock to others.
LEMMA CrashKeeps ==
  ASSUME IInv, NEW p \in Proc, Crash(p)
  PROVE  IInv' /\ Frame(p)
<1> USE ConstantsAssumption DEF IInv, CommandInv, Crash, Goto, Ends
<1>1. TypeOK'
  BY DEF TypeOK
<1>2. Frame(p)
  BY DEF Frame
<1>3. Holds(p)'
  BY DEF Holds, TypeOK
<1>4. Reads(p)'
  <2>1. \A c : Stands(c) => Stands(c)'
    BY DEF Stands
  <2> QED
    BY <2>1 DEF Reads
<1>5. Agrees(p)'
  BY DEF Agrees, TypeOK
<1>6. Writes(p)'
  BY DEF Writes
<1>7. Reports(p)'
  BY DEF Reports, Reported, KeyOf, IdentityOf
<1> QED
  BY <1>1, <1>2, <1>3, <1>4, <1>5, <1>6, <1>7, OthersKeep

\* A command that starts has read nothing.
LEMMA StartKeeps ==
  ASSUME IInv, NEW p \in Proc, NEW c \in Command, Start(p, c)
  PROVE  IInv' /\ Frame(p)
<1> USE DEF IInv, CommandInv, Start, Goto
<1>1. TypeOK'
  BY DEF TypeOK
<1>2. Frame(p)
  BY DEF Frame, TypeOK
<1>3. CommandInv(p)'
  BY DEF TypeOK, Holds, Reads, Stands, Agrees, Writes, Reports
<1> QED
  BY <1>1, <1>2, <1>3, OthersKeep

-------------------------------------------------------------------------------
(* The invariant and what follows from it.                                 *)

\* Every step keeps the invariant, and every step of a command is within its frame.
LEMMA StepKeeps ==
  ASSUME IInv, [Next]_vars
  PROVE  IInv' /\ (UNCHANGED vars \/ \E p \in Proc : Frame(p))
<1>1. ASSUME NEW p \in Proc, Step(p) PROVE IInv' /\ Frame(p)
  BY <1>1, ReadConfigKeeps, RefuseConfigKeeps, OpenStoreKeeps, OpenFailsKeeps,
     CreateConfigKeeps, CreateFailsKeeps, FillConfigKeeps, FillFailsKeeps,
     ReadToSaveKeeps, RenameConfigKeeps, SaveFailsKeeps, CloseKeeps
    DEF Step
<1>2. ASSUME NEW p \in Proc, Crash(p) PROVE IInv' /\ Frame(p)
  BY <1>2, CrashKeeps
<1>3. ASSUME NEW p \in Proc, NEW c \in Command, Start(p, c)
      PROVE  IInv' /\ Frame(p)
  BY <1>3, StartKeeps
<1>4. CASE UNCHANGED vars
  <2>1. TypeOK'
    BY <1>4 DEF vars, IInv, TypeOK
  <2>2. ASSUME NEW p \in Proc PROVE CommandInv(p)'
    BY <1>4
      DEF vars, IInv, CommandInv, Holds, Reads, Stands, Agrees, Opens, Writes,
        Reports, Reported, KeyOf, IdentityOf
  <2> QED
    BY <1>4, <2>1, <2>2 DEF IInv
<1> QED
  BY <1>1, <1>2, <1>3, <1>4 DEF Next

\* Every reachable state satisfies the inductive invariant.
THEOREM Invariance == Spec => []IInv
<1>1. IInv /\ [Next]_vars => IInv'
  BY StepKeeps
<1> QED
  BY <1>1, Initially, PTL DEF Spec

\* Every variable has its type, whatever the commands and their order.
THEOREM TypeCorrect == Spec => []TypeOK
<1>1. IInv => TypeOK
  BY DEF IInv
<1> QED
  BY <1>1, Invariance, PTL

\* What init and join printed is what the directory holds from then on.
THEOREM ReportsStand == Spec => []ReportedStands
<1>1. IInv => ReportedStands
  BY ConstantsAssumption
    DEF IInv, CommandInv, Reports, ReportedStands, IsComplete
<1> QED
  BY <1>1, Invariance, PTL

\* No step of any command, and no kill, changes a registry key and an identity
\* that were written once.
THEOREM IdentitiesStand == Spec => IdentityStable
<1>1. IInv /\ [Next]_vars =>
        [IsComplete(config) =>
           IsComplete(config') /\ MembershipIn(config') = MembershipIn(config)]_vars
  <2> SUFFICES ASSUME IInv, [Next]_vars, IsComplete(config)
               PROVE  /\ IsComplete(config')
                      /\ MembershipIn(config') = MembershipIn(config)
    OBVIOUS
  <2>1. config \in Config
    BY DEF IInv, TypeOK, IsComplete
  <2>2. CASE UNCHANGED vars
    BY <2>2 DEF vars
  <2>3. ASSUME NEW p \in Proc, Frame(p)
        PROVE  /\ IsComplete(config')
               /\ MembershipIn(config') = MembershipIn(config)
    BY <2>1, <2>3, ConstantsAssumption DEF Frame, IsComplete
  <2> QED
    BY <2>2, <2>3, StepKeeps
<1> QED
  BY <1>1, Invariance, PTL DEF Spec, IdentityStable

-------------------------------------------------------------------------------
(* Commands that do not overlap.                                           *)

Runs(p) == pc[p] \notin {"idle", "done"}

\* At most one command runs, and what it read is what the file still says.
Alone == \A p, q \in Proc : Runs(p) /\ Runs(q) => p = q

Fresh(p) ==
  /\ pc[p] \in {"open", "create", "save", "rename"} => seen[p] = config
  /\ pc[p] = "rename" => saving[p] = config

SerialInv == IInv /\ Alone /\ \A p \in Proc : Fresh(p)

\* The invariant of serial commands holds before any is started.
LEMMA SerialInitially == Init => SerialInv
<1>1. Init => Alone /\ \A p \in Proc : Fresh(p)
  BY DEF Init, Alone, Runs, Fresh
<1> QED
  BY <1>1, Initially DEF SerialInv

\* What a command read stays true while it runs: nobody else writes the file.
LEMMA SerialKeeps ==
  ASSUME Serial, SerialInv, [Next]_vars PROVE SerialInv'
<1>1. IInv'
  BY StepKeeps DEF SerialInv
<1>2. ASSUME UNCHANGED vars PROVE Alone' /\ \A q \in Proc : Fresh(q)'
  BY <1>2 DEF vars, SerialInv, Alone, Runs, Fresh
<1> USE DEF SerialInv, IInv, TypeOK
<1>3. ASSUME NEW p \in Proc, Step(p) \/ Crash(p) \/ \E c \in Command : Start(p, c)
      PROVE  Alone' /\ \A q \in Proc : Fresh(q)'
  <2>1. \A q \in Proc \ {p} : pc'[q] = pc[q] /\ ~Runs(q)
    <3>1. \A q \in Proc \ {p} : pc'[q] = pc[q]
      BY <1>3
        DEF Step, ReadConfig, RefuseConfig, OpenStore, OpenFails, CreateConfig,
          CreateFails, FillConfig, FillFails, ReadToSave, RenameConfig, SaveFails,
          Close, Crash, Start, Goto, Ends
    <3>2. CASE Step(p) \/ Crash(p)
      <4>1. Runs(p)
        BY <3>2
          DEF Runs, Step, ReadConfig, RefuseConfig, OpenStore, OpenFails, CreateConfig,
            CreateFails, FillConfig, FillFails, ReadToSave, RenameConfig, SaveFails,
            Close, Crash
      <4> QED
        BY <3>1, <4>1 DEF Alone
    <3>3. ASSUME NEW c \in Command, Start(p, c) PROVE \A q \in Proc : ~Runs(q)
      BY <3>3 DEF Start, Runs
    <3> QED
      BY <1>3, <3>1, <3>2, <3>3
  <2>2. Alone'
    BY <2>1 DEF Alone, Runs
  <2>3. \A q \in Proc \ {p} : Fresh(q)'
    BY <2>1 DEF Fresh, Runs
  <2>4. Fresh(p)'
    BY <1>3
      DEF Fresh, Step, ReadConfig, RefuseConfig, OpenStore, OpenFails, CreateConfig,
        CreateFails, FillConfig, FillFails, ReadToSave, RenameConfig, SaveFails,
        Close, Crash, Start, Goto, Ends
  <2> QED
    BY <2>2, <2>3, <2>4
<1>4. Alone' /\ \A q \in Proc : Fresh(q)'
  BY <1>2, <1>3 DEF Next
<1> QED
  BY <1>1, <1>4 DEF SerialInv

\* Every reachable state of serial commands satisfies it.
LEMMA SerialInvariance == Serial => (Spec => []SerialInv)
<1> SUFFICES ASSUME Serial PROVE Spec => []SerialInv
  OBVIOUS
<1>1. SerialInv /\ [Next]_vars => SerialInv'
  BY SerialKeeps
<1> QED
  BY <1>1, SerialInitially, PTL DEF Spec

\* The steps that write the file, seen from what it promises.
LEMMA WritesRefine ==
  ASSUME SerialInv, NEW p \in Proc, FillConfig(p) \/ RenameConfig(p)
  PROVE  Promise!Next /\ config' \in Config
<1> USE DEF SerialInv, IInv, CommandInv
<1>1. CASE FillConfig(p)
  <2>1. KeyOf(p) \in Key /\ IdentityOf(p) \in Proc /\ config = Torn
    BY <1>1, ConstantsAssumption
      DEF FillConfig, Writes, Agrees, Reads, KeyOf, IdentityOf, Opens, Command
  <2>2. config' = [key |-> KeyOf(p), identity |-> IdentityOf(p), trusted |-> {}]
    BY <1>1 DEF FillConfig
  <2>3. config' \in Config /\ IsComplete(config') /\ ~IsComplete(config)
    BY <2>1, <2>2, ConstantsAssumption DEF Config, IsComplete
  <2>4. Promise!SetUp(KeyOf(p), IdentityOf(p))
    BY <2>2, <2>3 DEF Promise!SetUp, MembershipIn
  <2> QED
    BY <2>1, <2>3, <2>4 DEF Promise!Next
<1>2. CASE RenameConfig(p)
  <2>1. /\ saving[p] = config /\ seen[p] = config
        /\ config \in Config /\ IsComplete(config) /\ cmd[p].arg \in Peer
    BY <1>2, ConstantsAssumption
      DEF RenameConfig, Fresh, Writes, Reads, Stands, IsComplete
  <2>2. config' = [config EXCEPT !.trusted = TrustedBy(p)]
    BY <1>2, <2>1 DEF RenameConfig
  <2>3. TrustedBy(p) \in {config.trusted \cup {cmd[p].arg}, config.trusted \ {cmd[p].arg}}
    BY <2>1 DEF TrustedBy
  <2>4. /\ config' \in Config /\ config'.trusted = TrustedBy(p)
        /\ MembershipIn(config') = MembershipIn(config)
    BY <2>1, <2>2, <2>3 DEF Config, MembershipIn
  <2>5. IsComplete(config')
    BY <2>4, ConstantsAssumption DEF IsComplete
  <2>6. MembershipIn(config) # None
    <3>1. config.key \in Key /\ config.identity \in Proc
      BY <2>1 DEF Config
    <3> QED
      BY <3>1, ConstantsAssumption DEF MembershipIn
  <2>7. Promise!Trust(cmd[p].arg) \/ Promise!Untrust(cmd[p].arg)
    BY <2>1, <2>3, <2>4, <2>5, <2>6 DEF Promise!Trust, Promise!Untrust
  <2> QED
    BY <2>1, <2>4, <2>7 DEF Promise!Next
<1> QED
  BY <1>1, <1>2

\* Commands that run one at a time keep the promise of Membership: one setup, and
\* then one peer more or less for each save.
THEOREM SerialCommandsImplementMembership == Serial => (Spec => ImplementsMembership)
<1> SUFFICES ASSUME Serial PROVE Spec => ImplementsMembership
  OBVIOUS
<1> DEFINE member == IF IsComplete(config) THEN MembershipIn(config) ELSE None
           trusted == IF IsComplete(config) THEN config.trusted ELSE {}
<1>1. Init => Promise!Init
  BY DEF Init, Promise!Init, IsComplete
<1>2. SerialInv /\ [Next]_vars => [Promise!Next]_<<member, trusted>>
  <2> SUFFICES ASSUME SerialInv, [Next]_vars
               PROVE  Promise!Next \/ UNCHANGED <<member, trusted>>
    OBVIOUS
  <2>1. CASE UNCHANGED config
    BY <2>1 DEF IsComplete, MembershipIn
  <2>2. ASSUME NEW p \in Proc, CreateConfig(p) PROVE UNCHANGED <<member, trusted>>
    BY <2>2 DEF CreateConfig, IsComplete
  <2>3. ASSUME NEW p \in Proc, FillConfig(p) \/ RenameConfig(p) PROVE Promise!Next
    BY <2>3, WritesRefine
  <2> QED
    BY <2>1, <2>2, <2>3
      DEF Next, Step, vars, ReadConfig, RefuseConfig, OpenStore, OpenFails,
        CreateFails, FillFails, ReadToSave, SaveFails, Close, Crash, Start, Goto, Ends
<1> QED
  BY <1>1, <1>2, SerialInvariance, PTL DEF Spec, ImplementsMembership, Promise!Spec

\* An acknowledged change of another peer is undone only by commands that overlap:
\* serial ones change nothing but the peer that they were asked about.
THEOREM LostTrustNeedsOverlap == Serial => (Spec => SaveChangesOnlyItsPeer)
<1> SUFFICES ASSUME Serial PROVE Spec => SaveChangesOnlyItsPeer
  OBVIOUS
<1>1. SerialInv /\ [Next]_vars =>
        [\A p \in Proc :
           pc[p] = "rename" /\ pc'[p] = "close" /\ config' # config =>
             config'.trusted \ {cmd[p].arg} = config.trusted \ {cmd[p].arg}]_vars
  <2> SUFFICES ASSUME SerialInv, [Next]_vars, NEW p \in Proc,
                      pc[p] = "rename", pc'[p] = "close", config' # config
               PROVE  config'.trusted \ {cmd[p].arg} = config.trusted \ {cmd[p].arg}
    OBVIOUS
  <2>1. RenameConfig(p)
    BY DEF SerialInv, IInv, TypeOK, Next, Step, vars, ReadConfig, RefuseConfig,
         OpenStore, OpenFails, CreateConfig, CreateFails, FillConfig, FillFails,
         ReadToSave, RenameConfig, SaveFails, Close, Crash, Start, Goto, Ends
  <2>2. saving[p] = config /\ seen[p] = config /\ config \in Config
    BY ConstantsAssumption
      DEF SerialInv, Fresh, IInv, CommandInv, Writes, Reads, Stands
  <2>3. config'.trusted = TrustedBy(p)
    BY <2>1, <2>2 DEF RenameConfig, Config
  <2> QED
    BY <2>2, <2>3 DEF TrustedBy
<1> QED
  BY <1>1, SerialInvariance, PTL DEF Spec, SaveChangesOnlyItsPeer
===============================================================================
