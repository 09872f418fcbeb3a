---------------------------- MODULE StateDirectory ----------------------------
(***************************************************************************)
(* The commands of one device against one state directory: init, join,     *)
(* trust, untrust, and those that only open it.  Each command is a process *)
(* that reads registry.json, then opens the Corestore (whose lock excludes *)
(* the other commands), then writes registry.json if it has to.            *)
(*                                                                         *)
(* The file is read BEFORE the lock is taken.  It is created in place,     *)
(* first empty and then filled, and replaced by renaming a complete file   *)
(* over it.  A command may be killed between any two steps.                *)
(***************************************************************************)
CONSTANTS
  Proc,     \* commands; each makes an identity of its own
  Key,      \* registry keys
  BadKey,   \* arguments of join that are not keys
  Own,      \* the key of the core this directory's Corestore can sign
  Peer,     \* identities of other devices
  BadPeer,  \* arguments of trust and untrust that are not identities
  Serial,   \* whether a command is started only when no other is running
  Torn,     \* a registry.json that does not parse
  None

Config == [key : Key, identity : Proc, trusted : SUBSET Peer]

ASSUME ConstantsAssumption ==
  /\ Own \in Key
  /\ Key \cap BadKey = {}
  /\ Peer \cap BadPeer = {}
  /\ None \notin Proc \cup [key : Key, identity : Proc]
  /\ {None, Torn} \cap Config = {}
  /\ None # Torn
  /\ Serial \in BOOLEAN

VARIABLES
  config,  \* registry.json: None, Torn, or what it says
  lock,    \* the process that has the Corestore open, or None
  pc,      \* where each process is
  cmd,     \* what each process was asked to do
  seen,    \* registry.json as each process read it first
  saving,  \* registry.json as each process read it to save its allowlist
  outcome  \* how each command ended: "ok" is a membership printed

vars == <<config, lock, pc, cmd, seen, saving, outcome>>

Command ==
  [kind : {"init", "open"}, arg : {None}]
    \cup [kind : {"join"}, arg : Key \cup BadKey]
    \cup [kind : {"trust", "untrust"}, arg : Peer \cup BadPeer]

IsComplete(c) == c \notin {None, Torn}

\* drive.key: the core's own key unless one was given or found.
KeyOf(p) ==
  IF cmd[p].kind = "init" THEN Own
  ELSE IF cmd[p].kind = "join" THEN cmd[p].arg
  ELSE seen[p].key

\* The identity in the file that was read, or the fresh one of this process.
IdentityOf(p) == IF seen[p] = None THEN p ELSE seen[p].identity

\* The registry's own allowlist, after the change that was asked for.
TrustedBy(p) ==
  IF cmd[p].kind = "trust" THEN seen[p].trusted \cup {cmd[p].arg}
                           ELSE seen[p].trusted \ {cmd[p].arg}

\* A successful command prints, as far as its store is concerned, the registry
\* key and the identity that it uses.
Reported(p) == [key |-> KeyOf(p), identity |-> IdentityOf(p)]

Goto(p, next) == pc' = [pc EXCEPT ![p] = next] /\ UNCHANGED outcome

Ends(p, next, how) ==
  /\ pc' = [pc EXCEPT ![p] = next]
  /\ outcome' = [outcome EXCEPT ![p] = how]

-------------------------------------------------------------------------------
Init ==
  /\ config = None
  /\ lock = None
  /\ pc = [p \in Proc |-> "idle"]
  /\ cmd = [p \in Proc |-> None]
  /\ seen = [p \in Proc |-> None]
  /\ saving = [p \in Proc |-> None]
  /\ outcome = [p \in Proc |-> "none"]

Start(p, c) ==
  /\ pc[p] = "idle"
  /\ Serial => \A q \in Proc : pc[q] \in {"idle", "done"}
  /\ cmd' = [cmd EXCEPT ![p] = c]
  /\ Goto(p, "read")
  /\ UNCHANGED <<config, lock, seen, saving>>

Opens(p) == cmd[p].kind \notin {"init", "join"}

\* Mutant: join does not compare its key with the one in the file.
ReadableAnyKey(p) ==
  \/ config = None /\ cmd[p].kind = "init"
  \/ config # Torn /\ cmd[p].kind = "join" /\ cmd[p].arg \in Key
  \/ IsComplete(config) /\ Opens(p)

\* What a command accepts of registry.json: init nothing, join nothing or the
\* registry it was given, the others a complete file.
Readable(p) ==
  \/ config = None /\ cmd[p].kind = "init"
  \/ config = None /\ cmd[p].kind = "join" /\ cmd[p].arg \in Key
  \/ IsComplete(config) /\ cmd[p].kind = "join" /\ config.key = cmd[p].arg
  \/ IsComplete(config) /\ Opens(p)

ReadConfig(p) ==
  /\ pc[p] = "read"
  /\ Readable(p)
  /\ seen' = [seen EXCEPT ![p] = config]
  /\ Goto(p, "open")
  /\ UNCHANGED <<config, lock, cmd, saving>>

RefuseConfig(p) ==
  /\ pc[p] = "read"
  /\ ~Readable(p)
  /\ Ends(p, "done", "failed")
  /\ UNCHANGED <<config, lock, cmd, seen, saving>>

\* createRegistry: the Corestore's lock is taken, or the command fails.
OpenStore(p) ==
  /\ pc[p] = "open"
  /\ lock = None
  /\ lock' = p
  /\ IF seen[p] = None THEN Goto(p, "create")
     ELSE IF cmd[p].kind \in {"trust", "untrust"} THEN Goto(p, "save")
     ELSE Ends(p, "close", "ok")
  /\ UNCHANGED <<config, cmd, seen, saving>>

\* Another command has the store, or it cannot be opened.
OpenFails(p) ==
  /\ pc[p] = "open"
  /\ Ends(p, "done", "failed")
  /\ UNCHANGED <<config, lock, cmd, seen, saving>>

-------------------------------------------------------------------------------
(* writeNewConfig, by init and by a join that found no file.               *)

\* Mutant: the file is opened with flag "w".
CreateOverwriting(p) ==
  /\ pc[p] = "create"
  /\ config' = Torn
  /\ Goto(p, "fill")
  /\ UNCHANGED <<lock, cmd, seen, saving>>

\* open(path, 'wx'): the file is there, and empty.
CreateConfig(p) ==
  /\ pc[p] = "create"
  /\ config = None
  /\ config' = Torn
  /\ Goto(p, "fill")
  /\ UNCHANGED <<lock, cmd, seen, saving>>

\* EEXIST, or no file can be made.
CreateFails(p) ==
  /\ pc[p] = "create"
  /\ Ends(p, "close", "failed")
  /\ UNCHANGED <<config, lock, cmd, seen, saving>>

FillConfig(p) ==
  /\ pc[p] = "fill"
  /\ config' = [key |-> KeyOf(p), identity |-> IdentityOf(p), trusted |-> {}]
  /\ Ends(p, "close", "ok")
  /\ UNCHANGED <<lock, cmd, seen, saving>>

\* Writing fails; what was written stays.
FillFails(p) ==
  /\ pc[p] = "fill"
  /\ Ends(p, "close", "failed")
  /\ UNCHANGED <<config, lock, cmd, seen, saving>>

-------------------------------------------------------------------------------
(* trust and untrust: _saveTrust reads the file again, puts the registry's *)
(* own allowlist in it and renames the new file over the old one.          *)

ReadToSave(p) ==
  /\ pc[p] = "save"
  /\ cmd[p].arg \in Peer
  /\ IsComplete(config)
  /\ saving' = [saving EXCEPT ![p] = config]
  /\ Goto(p, "rename")
  /\ UNCHANGED <<config, lock, cmd, seen>>

\* Mutant: the file is written in place, so that a kill may leave it torn.
RenameInPlace(p) ==
  /\ pc[p] = "rename"
  /\ \/ /\ config' = Torn
        /\ Goto(p, "rename")
     \/ /\ config' = [saving[p] EXCEPT !.trusted = TrustedBy(p)]
        /\ Ends(p, "close", "ok")
  /\ UNCHANGED <<lock, cmd, seen, saving>>

RenameConfig(p) ==
  /\ pc[p] = "rename"
  /\ config' = [saving[p] EXCEPT !.trusted = TrustedBy(p)]
  /\ Ends(p, "close", "ok")
  /\ UNCHANGED <<lock, cmd, seen, saving>>

\* Not an identity, or the temporary file cannot be written or renamed.
SaveFails(p) ==
  /\ pc[p] \in {"save", "rename"}
  /\ Ends(p, "close", "failed")
  /\ UNCHANGED <<config, lock, cmd, seen, saving>>

-------------------------------------------------------------------------------
Close(p) ==
  /\ pc[p] = "close"
  /\ lock' = None
  /\ Goto(p, "done")
  /\ UNCHANGED <<config, cmd, seen, saving>>

\* The process is killed; the system releases its lock.
Crash(p) ==
  /\ pc[p] \notin {"idle", "done"}
  /\ lock' = IF lock = p THEN None ELSE lock
  /\ Ends(p, "done", IF outcome[p] = "none" THEN "crashed" ELSE outcome[p])
  /\ UNCHANGED <<config, cmd, seen, saving>>

Step(p) ==
  \/ ReadConfig(p) \/ RefuseConfig(p) \/ OpenStore(p) \/ OpenFails(p)
  \/ CreateConfig(p) \/ CreateFails(p) \/ FillConfig(p) \/ FillFails(p)
  \/ ReadToSave(p) \/ RenameConfig(p) \/ SaveFails(p) \/ Close(p)

Next ==
  \E p \in Proc : Step(p) \/ Crash(p) \/ \E c \in Command : Start(p, c)

Spec == Init /\ [][Next]_vars

-------------------------------------------------------------------------------
(* Properties.                                                             *)

\* Every variable has its type.
TypeOK ==
  /\ config \in Config \cup {None, Torn}
  /\ lock \in Proc \cup {None}
  /\ pc \in [Proc -> {"idle", "read", "open", "create", "fill", "save", "rename",
                      "close", "done"}]
  /\ cmd \in [Proc -> Command \cup {None}]
  /\ seen \in [Proc -> Config \cup {None}]
  /\ saving \in [Proc -> Config \cup {None}]
  /\ outcome \in [Proc -> {"none", "ok", "failed", "crashed"}]

MembershipIn(c) == [key |-> c.key, identity |-> c.identity]

\* Once the directory is set up it stays so, with the same registry key and the
\* same private identity, whatever setup and trust commands race or are killed.
IdentityStable ==
  [][IsComplete(config) =>
       IsComplete(config') /\ MembershipIn(config') = MembershipIn(config)]_vars

\* The registry key and identity a command printed are those of the directory:
\* two racing setups never both report success with different identities.
ReportedStands ==
  \A p \in Proc : outcome[p] = "ok" =>
    IsComplete(config) /\ MembershipIn(config) = Reported(p)

\* A save changes the allowlist only by the peer it was asked about, so that no
\* acknowledged trust or untrust of another peer is undone (docs/artifact-cli.md:
\* "A state directory is exclusively used by its running process").
SaveChangesOnlyItsPeer ==
  [][\A p \in Proc :
       pc[p] = "rename" /\ pc'[p] = "close" /\ config' # config =>
         config'.trusted \ {cmd[p].arg} = config.trusted \ {cmd[p].arg}]_vars

-------------------------------------------------------------------------------
(* When commands do not overlap, StateDirectory implements Membership.     *)

Promise == INSTANCE Membership WITH
  Identity <- Proc,
  member <- IF IsComplete(config) THEN MembershipIn(config) ELSE None,
  trusted <- IF IsComplete(config) THEN config.trusted ELSE {}

\* The directory is set up at most once, in one step, and every save is one
\* addition to or removal from its allowlist, although any command may be killed.
ImplementsMembership == Promise!Spec
===============================================================================
