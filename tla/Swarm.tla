-------------------------------- MODULE Swarm ---------------------------------
(***************************************************************************)
(* One Registry object and its callers: connect, sync, trust, untrust and  *)
(* close are asynchronous calls that overlap in any way, while Hyperswarm  *)
(* opens and loses connections and finishes, or fails, its first discovery.*)
(*                                                                         *)
(* A call runs to its next await without interruption; each step below is  *)
(* such a stretch of code, or an event of the swarm with its handler.      *)
(* What a save writes to registry.json is the subject of StateDirectory:   *)
(* here it is an await, after which a call goes on or fails.               *)
(***************************************************************************)
CONSTANTS
  Peer,   \* identities of other devices
  Call    \* the calls of trust, untrust and sync

VARIABLES
  trusted,        \* _trusted
  swarm,          \* "none", "up", "closing" (no longer _swarm) or "gone"
  finding,        \* whether the update is held open (_doneFindingPeer is not null)
  discovery,      \* the first flush: "none", "running", "done" or "failed"
  authenticated,  \* _authenticatedPeer
  conn,           \* the connection with each peer: "none", "opening" or "open"
  banned,         \* the peers whose PeerInfo is banned
  kind,           \* what each call is
  peer,           \* the peer it is about; sync is about none
  at              \* where each call is, or how it ended: "ok" or "failed"

waiting == <<finding, discovery, authenticated>>
links == <<conn, banned>>
calls == <<kind, peer, at>>

vars == <<trusted, swarm, waiting, links, calls>>

Goto(c, next) == at' = [at EXCEPT ![c] = next] /\ UNCHANGED <<kind, peer>>

-------------------------------------------------------------------------------
Init ==
  /\ trusted \in SUBSET Peer
  /\ swarm = "none"
  /\ finding = FALSE
  /\ discovery = "none"
  /\ authenticated = FALSE
  /\ conn = [x \in Peer |-> "none"]
  /\ banned = {}
  /\ kind \in [Call -> {"trust", "untrust", "sync"}]
  /\ peer \in [Call -> Peer]
  /\ at = [c \in Call |-> "idle"]

\* close clears _swarm before its first await.
Closed == swarm \in {"closing", "gone"}

\* A peer is added to or removed from memory first; then the list is saved.
CallTrust(c) ==
  /\ at[c] = "idle"
  /\ kind[c] = "trust"
  /\ trusted' = trusted \cup {peer[c]}
  /\ Goto(c, "saving")
  /\ UNCHANGED <<swarm, waiting, links>>

CallUntrust(c) ==
  /\ at[c] = "idle"
  /\ kind[c] = "untrust"
  /\ trusted' = trusted \ {peer[c]}
  /\ Goto(c, "saving")
  /\ UNCHANGED <<swarm, waiting, links>>

\* _saveTrust rejects: the rest of trust or untrust is not done.
SaveFails(c) ==
  /\ at[c] = "saving"
  /\ Goto(c, "failed")
  /\ UNCHANGED <<trusted, swarm, waiting, links>>

\* Mutant: a ban that the firewall left is not lifted.
FinishTrustBanned(c) ==
  /\ at[c] = "saving"
  /\ kind[c] = "trust"
  /\ Goto(c, "ok")
  /\ UNCHANGED <<trusted, swarm, waiting, links>>

\* The rest of trust: lift the ban.  (It also asks the swarm to dial, which in the
\* model it may do at any time.)
FinishTrust(c) ==
  /\ at[c] = "saving"
  /\ kind[c] = "trust"
  /\ banned' = IF swarm = "up" THEN banned \ {peer[c]} ELSE banned
  /\ Goto(c, "ok")
  /\ UNCHANGED <<trusted, swarm, waiting, conn>>

\* The rest of untrust: destroy the open connections with the peer.
FinishUntrust(c) ==
  /\ at[c] = "saving"
  /\ kind[c] = "untrust"
  /\ conn' = IF swarm = "up" /\ conn[peer[c]] = "open"
             THEN [conn EXCEPT ![peer[c]] = "none"]
             ELSE conn
  /\ Goto(c, "ok")
  /\ UNCHANGED <<trusted, swarm, waiting, banned>>

-------------------------------------------------------------------------------
(* connect and the events of the swarm.                                    *)

Connect ==
  /\ swarm = "none"
  /\ swarm' = "up"
  /\ finding' = TRUE
  /\ discovery' = "running"
  /\ UNCHANGED <<trusted, authenticated, links, calls>>

\* Mutant: the end of discovery alone releases the update.
DiscoveryEndsAlone ==
  /\ discovery = "running"
  /\ discovery' = "done"
  /\ finding' = FALSE
  /\ UNCHANGED <<trusted, swarm, authenticated, links, calls>>

\* flush resolves; _releaseFindingPeer needs an authenticated peer too.
DiscoveryEnds ==
  /\ discovery = "running"
  /\ discovery' = "done"
  /\ finding' = (finding /\ ~authenticated)
  /\ UNCHANGED <<trusted, swarm, authenticated, links, calls>>

DiscoveryFails ==
  /\ discovery = "running"
  /\ discovery' = "failed"
  /\ UNCHANGED <<trusted, swarm, finding, authenticated, links, calls>>

\* The firewall lets the swarm dial a peer, or the peer in.
PassFirewall(x) ==
  /\ swarm = "up"
  /\ conn[x] = "none"
  /\ x \in trusted \ banned
  /\ conn' = [conn EXCEPT ![x] = "opening"]
  /\ UNCHANGED <<trusted, swarm, waiting, banned, calls>>

\* A peer that the firewall refuses when the swarm is about to dial it is banned.
Ban(x) ==
  /\ swarm = "up"
  /\ conn[x] = "none"
  /\ x \notin trusted
  /\ banned' = banned \cup {x}
  /\ UNCHANGED <<trusted, swarm, waiting, conn, calls>>

\* Mutant: the handler relies on the firewall.
OpenUnchecked(x) ==
  /\ conn[x] = "opening"
  /\ conn' = [conn EXCEPT ![x] = "open"]
  /\ authenticated' = TRUE
  /\ finding' = (finding /\ discovery # "done")
  /\ UNCHANGED <<trusted, swarm, discovery, banned, calls>>

\* Mutant: only the end of discovery releases the update.
OpenUnreleased(x) ==
  /\ conn[x] = "opening"
  /\ x \in trusted
  /\ conn' = [conn EXCEPT ![x] = "open"]
  /\ authenticated' = TRUE
  /\ UNCHANGED <<trusted, swarm, finding, discovery, banned, calls>>

\* The "connection" handler replicates with a peer that is (still) trusted, and
\* releases the update if discovery is done.
Open(x) ==
  /\ conn[x] = "opening"
  /\ x \in trusted
  /\ conn' = [conn EXCEPT ![x] = "open"]
  /\ authenticated' = TRUE
  /\ finding' = (finding /\ discovery # "done")
  /\ UNCHANGED <<trusted, swarm, discovery, banned, calls>>

\* It destroys the others; and any connection may fail or be lost.
Lose(x) ==
  /\ conn[x] # "none"
  /\ conn' = [conn EXCEPT ![x] = "none"]
  /\ UNCHANGED <<trusted, swarm, waiting, banned, calls>>

-------------------------------------------------------------------------------
(* sync and close.                                                         *)

\* Without a swarm the update does not wait.
CallSync(c) ==
  /\ at[c] = "idle"
  /\ kind[c] = "sync"
  /\ Goto(c, IF Closed THEN "failed" ELSE IF swarm = "up" THEN "update" ELSE "ok")
  /\ UNCHANGED <<trusted, swarm, waiting, links>>

\* The update ends when nothing holds it open any more.
EndUpdate(c) ==
  /\ at[c] = "update"
  /\ ~finding
  /\ Goto(c, "ok")
  /\ UNCHANGED <<trusted, swarm, waiting, links>>

\* A connected peer has news: the update need not wait for others.
Learn(c) ==
  /\ at[c] = "update"
  /\ \E x \in Peer : conn[x] = "open"
  /\ Goto(c, "ok")
  /\ UNCHANGED <<trusted, swarm, waiting, links>>

\* The drive was closed under the update.
UpdateRejects(c) ==
  /\ at[c] = "update"
  /\ swarm = "gone"
  /\ Goto(c, "failed")
  /\ UNCHANGED <<trusted, swarm, waiting, links>>

\* close up to its first await; without a swarm it goes on to the drive.
Close ==
  /\ ~Closed
  /\ swarm' = IF swarm = "up" THEN "closing" ELSE "gone"
  /\ finding' = FALSE
  /\ UNCHANGED <<trusted, discovery, authenticated, links, calls>>

\* The swarm is destroyed with its connections; then the drive is closed.
EndClose ==
  /\ swarm = "closing"
  /\ swarm' = "gone"
  /\ conn' = [x \in Peer |-> "none"]
  /\ UNCHANGED <<trusted, waiting, banned, calls>>

Step(c) ==
  SaveFails(c) \/ FinishTrust(c) \/ FinishUntrust(c) \/ EndUpdate(c) \/ UpdateRejects(c)

Next ==
  \/ \E c \in Call : CallTrust(c) \/ CallUntrust(c) \/ CallSync(c) \/ Learn(c) \/ Step(c)
  \/ \E x \in Peer : PassFirewall(x) \/ Ban(x) \/ Open(x) \/ Lose(x)
  \/ Connect \/ DiscoveryEnds \/ DiscoveryFails \/ Close \/ EndClose

Spec == Init /\ [][Next]_vars

\* A call that is not waiting for the network goes on, and close ends.  Nothing is
\* assumed of peers and discovery, or of when the caller closes the registry.
FairSpec == Spec /\ WF_vars(EndClose) /\ \A c \in Call : WF_vars(Step(c))

-------------------------------------------------------------------------------
(* Properties.                                                             *)

\* Every variable has its type.
TypeOK ==
  /\ trusted \in SUBSET Peer /\ banned \in SUBSET Peer
  /\ swarm \in {"none", "up", "closing", "gone"}
  /\ finding \in BOOLEAN /\ authenticated \in BOOLEAN
  /\ discovery \in {"none", "running", "done", "failed"}
  /\ conn \in [Peer -> {"none", "opening", "open"}]
  /\ kind \in [Call -> {"trust", "untrust", "sync"}]
  /\ peer \in [Call -> Peer]
  /\ at \in [Call -> {"idle", "saving", "update", "ok", "failed"}]

\* A trust or untrust of x that has not been carried through.
Unfinished(k, x) ==
  \E c \in Call :
    kind[c] = k /\ peer[c] = x /\ at[c] \in {"saving", "failed"}

\* Nothing is replicated with a peer that is not trusted, except until the untrust
\* that removed it has returned, or failed: not even over a connection that was
\* on its way when the peer was removed.
UntrustedDisconnected ==
  \A x \in Peer :
    swarm = "up" /\ conn[x] = "open" /\ x \notin trusted => Unfinished("untrust", x)

\* A trusted peer can connect: a ban of before it was trusted does not outlive the
\* trust call (registry.ts: "Make an explicit trust effective immediately").
TrustedNotBanned ==
  \A x \in Peer :
    swarm = "up" /\ x \in trusted /\ x \in banned => Unfinished("trust", x)

\* A sync of a registry with a swarm returns only after an authenticated peer was
\* there, or when the registry is being closed (registry.ts: "a fresh reader can
\* call sync before DHT discovery completes and incorrectly treat an empty local
\* cache as a registry miss").
SyncNeedsPeer ==
  [][\A c \in Call :
       at[c] = "update" /\ at'[c] = "ok" => authenticated \/ Closed]_vars

\* A sync is not left pending once discovery is done and a peer was there, or once
\* the registry is closed.
SyncReturns ==
  \A c \in Call :
    at[c] = "update" /\ (Closed \/ (discovery = "done" /\ authenticated))
      ~> at[c] # "update"
===============================================================================
