----------------------------- MODULE SwarmProofs ------------------------------
(***************************************************************************)
(* Proofs about Swarm, for every set of peers and calls.                   *)
(*                                                                         *)
(* What trust and untrust establish is inductive once the object has a     *)
(* swarm; Waiting says how the three flags of connect hang together, on    *)
(* which it rests that no sync returns before a peer was there, and        *)
(* Released that none is held after.                                       *)
(***************************************************************************)
EXTENDS Swarm, TLAPS

\* Before connect there is nothing to be connected, banned or waited for.
Unconnected ==
  swarm = "none" =>
    /\ \A x \in Peer : conn[x] = "none"
    /\ banned = {}
    /\ \A c \in Call : at[c] # "update"

\* Only a peer that was there releases the update of a registry that is open.
Waiting ==
  /\ swarm = "up" /\ ~finding => authenticated
  /\ \A x \in Peer : conn[x] = "open" => authenticated

IInv ==
  TypeOK /\ Unconnected /\ Waiting /\ UntrustedDisconnected /\ TrustedNotBanned

-------------------------------------------------------------------------------
\* The invariant holds before any call.
LEMMA Initially == Init => IInv
  BY DEF Init, IInv, TypeOK, Unconnected, Waiting, UntrustedDisconnected,
     TrustedNotBanned

\* Every step keeps the types.
LEMMA TypesKept == TypeOK /\ [Next]_vars => TypeOK'
<1> SUFFICES ASSUME TypeOK, [Next]_vars PROVE TypeOK'
  OBVIOUS
<1> USE DEF TypeOK, Goto, waiting, links, calls
<1>1. ASSUME NEW c \in Call, CallTrust(c) \/ CallUntrust(c) \/ CallSync(c) \/ Learn(c)
      PROVE  TypeOK'
  BY <1>1 DEF CallTrust, CallUntrust, CallSync, Learn
<1>2. ASSUME NEW c \in Call, Step(c) PROVE TypeOK'
  BY <1>2 DEF Step, SaveFails, FinishTrust, FinishUntrust, EndUpdate, UpdateRejects
<1>3. ASSUME NEW x \in Peer, PassFirewall(x) \/ Ban(x) \/ Open(x) \/ Lose(x)
      PROVE  TypeOK'
  BY <1>3 DEF PassFirewall, Ban, Open, Lose
<1>4. CASE Connect \/ DiscoveryEnds \/ DiscoveryFails \/ Close \/ EndClose
  BY <1>4 DEF Connect, DiscoveryEnds, DiscoveryFails, Close, EndClose
<1>5. CASE UNCHANGED vars
  BY <1>5 DEF vars
<1> QED
  BY <1>1, <1>2, <1>3, <1>4, <1>5 DEF Next

\* Only connect makes a swarm, only Hyperswarm's events connect or ban, and an update
\* begins only with a swarm.
LEMMA UnconnectedKept ==
  TypeOK /\ Unconnected /\ [Next]_vars => Unconnected'
<1> SUFFICES ASSUME TypeOK, Unconnected, [Next]_vars PROVE Unconnected'
  OBVIOUS
<1> USE DEF Unconnected, TypeOK, Goto, waiting, links, calls
<1>1. ASSUME NEW c \in Call, CallTrust(c) \/ CallUntrust(c) \/ CallSync(c) \/ Learn(c)
      PROVE  Unconnected'
  BY <1>1 DEF CallTrust, CallUntrust, CallSync, Learn
<1>2. ASSUME NEW c \in Call, Step(c) PROVE Unconnected'
  BY <1>2 DEF Step, SaveFails, FinishTrust, FinishUntrust, EndUpdate, UpdateRejects
<1>3. ASSUME NEW x \in Peer, PassFirewall(x) \/ Ban(x) \/ Open(x) \/ Lose(x)
      PROVE  Unconnected'
  BY <1>3 DEF PassFirewall, Ban, Open, Lose
<1>4. CASE Connect \/ DiscoveryEnds \/ DiscoveryFails \/ Close \/ EndClose
  BY <1>4 DEF Connect, DiscoveryEnds, DiscoveryFails, Close, EndClose
<1>5. CASE UNCHANGED vars
  BY <1>5 DEF vars
<1> QED
  BY <1>1, <1>2, <1>3, <1>4, <1>5 DEF Next

\* The update is released, in an open registry, by DiscoveryEnds and Open alone.
LEMMA WaitingKept ==
  TypeOK /\ Waiting /\ [Next]_vars => Waiting'
<1> SUFFICES ASSUME TypeOK, Waiting, [Next]_vars PROVE Waiting'
  OBVIOUS
<1> USE DEF Waiting, TypeOK, Goto, waiting, links, calls
<1>1. ASSUME NEW c \in Call, CallTrust(c) \/ CallUntrust(c) \/ CallSync(c) \/ Learn(c)
      PROVE  Waiting'
  BY <1>1 DEF CallTrust, CallUntrust, CallSync, Learn
<1>2. ASSUME NEW c \in Call, Step(c) PROVE Waiting'
  BY <1>2 DEF Step, SaveFails, FinishTrust, FinishUntrust, EndUpdate, UpdateRejects
<1>3. ASSUME NEW x \in Peer, PassFirewall(x) \/ Ban(x) \/ Lose(x) PROVE Waiting'
  BY <1>3 DEF PassFirewall, Ban, Lose
<1>4. ASSUME NEW x \in Peer, Open(x) PROVE Waiting'
  BY <1>4 DEF Open
<1>5. CASE DiscoveryEnds
  BY <1>5 DEF DiscoveryEnds
<1>6. CASE Connect \/ DiscoveryFails \/ Close \/ EndClose
  BY <1>6 DEF Connect, DiscoveryFails, Close, EndClose
<1>7. CASE UNCHANGED vars
  BY <1>7 DEF vars
<1> QED
  BY <1>1, <1>2, <1>3, <1>4, <1>5, <1>6, <1>7 DEF Next

\* A peer is connected only while it is trusted, and the untrust that removes it is
\* unfinished until it has destroyed the connection.
LEMMA DisconnectedKept ==
  TypeOK /\ Unconnected /\ UntrustedDisconnected /\ [Next]_vars
    => UntrustedDisconnected'
<1> SUFFICES ASSUME TypeOK, Unconnected, UntrustedDisconnected, [Next]_vars,
                    NEW y \in Peer, (swarm = "up" /\ conn[y] = "open" /\ y \notin trusted)'
             PROVE  Unfinished("untrust", y)'
  BY DEF UntrustedDisconnected
<1> USE DEF UntrustedDisconnected, Unfinished, TypeOK, Goto, waiting, links, calls
<1>1. ASSUME NEW c \in Call, CallUntrust(c) PROVE Unfinished("untrust", y)'
  BY <1>1 DEF CallUntrust
<1>2. ASSUME NEW c \in Call, FinishUntrust(c) PROVE Unfinished("untrust", y)'
  BY <1>2 DEF FinishUntrust
<1>3. ASSUME NEW c \in Call,
             CallTrust(c) \/ CallSync(c) \/ Learn(c) \/ SaveFails(c) \/ FinishTrust(c)
               \/ EndUpdate(c) \/ UpdateRejects(c)
      PROVE  Unfinished("untrust", y)'
  BY <1>3 DEF CallTrust, CallSync, Learn, SaveFails, FinishTrust, EndUpdate, UpdateRejects
<1>4. ASSUME NEW x \in Peer, Open(x) PROVE Unfinished("untrust", y)'
  BY <1>4 DEF Open
<1>5. ASSUME NEW x \in Peer, PassFirewall(x) \/ Ban(x) \/ Lose(x)
      PROVE  Unfinished("untrust", y)'
  BY <1>5 DEF PassFirewall, Ban, Lose
<1>6. CASE Connect
  BY <1>6 DEF Connect, Unconnected
<1>7. CASE DiscoveryEnds \/ DiscoveryFails \/ Close \/ EndClose
  BY <1>7 DEF DiscoveryEnds, DiscoveryFails, Close, EndClose
<1>8. CASE UNCHANGED vars
  BY <1>8 DEF vars
<1> QED
  BY <1>1, <1>2, <1>3, <1>4, <1>5, <1>6, <1>7, <1>8 DEF Next, Step

\* A ban is of a peer that is not trusted, and the trust that adds a banned peer is
\* unfinished until it has lifted the ban.
LEMMA NotBannedKept ==
  TypeOK /\ Unconnected /\ TrustedNotBanned /\ [Next]_vars => TrustedNotBanned'
<1> SUFFICES ASSUME TypeOK, Unconnected, TrustedNotBanned, [Next]_vars,
                    NEW y \in Peer, (swarm = "up" /\ y \in trusted /\ y \in banned)'
             PROVE  Unfinished("trust", y)'
  BY DEF TrustedNotBanned
<1> USE DEF TrustedNotBanned, Unfinished, TypeOK, Goto, waiting, links, calls
<1>1. ASSUME NEW c \in Call, CallTrust(c) PROVE Unfinished("trust", y)'
  BY <1>1 DEF CallTrust
<1>2. ASSUME NEW c \in Call, FinishTrust(c) PROVE Unfinished("trust", y)'
  BY <1>2 DEF FinishTrust
<1>3. ASSUME NEW c \in Call,
             CallUntrust(c) \/ CallSync(c) \/ Learn(c) \/ SaveFails(c)
               \/ FinishUntrust(c) \/ EndUpdate(c) \/ UpdateRejects(c)
      PROVE  Unfinished("trust", y)'
  BY <1>3
    DEF CallUntrust, CallSync, Learn, SaveFails, FinishUntrust, EndUpdate, UpdateRejects
<1>4. ASSUME NEW x \in Peer, Ban(x) PROVE Unfinished("trust", y)'
  BY <1>4 DEF Ban
<1>5. ASSUME NEW x \in Peer, PassFirewall(x) \/ Open(x) \/ Lose(x)
      PROVE  Unfinished("trust", y)'
  BY <1>5 DEF PassFirewall, Open, Lose
<1>6. CASE Connect
  BY <1>6 DEF Connect, Unconnected
<1>7. CASE DiscoveryEnds \/ DiscoveryFails \/ Close \/ EndClose
  BY <1>7 DEF DiscoveryEnds, DiscoveryFails, Close, EndClose
<1>8. CASE UNCHANGED vars
  BY <1>8 DEF vars
<1> QED
  BY <1>1, <1>2, <1>3, <1>4, <1>5, <1>6, <1>7, <1>8 DEF Next, Step

-------------------------------------------------------------------------------
\* Every reachable state satisfies the inductive invariant.
THEOREM Invariance == Spec => []IInv
<1>1. IInv /\ [Next]_vars => IInv'
  BY TypesKept, UnconnectedKept, WaitingKept, DisconnectedKept, NotBannedKept DEF IInv
<1> QED
  BY <1>1, Initially, PTL DEF Spec

\* Every variable has its type, for any number of peers and calls.
THEOREM TypeCorrect == Spec => []TypeOK
<1>1. IInv => TypeOK
  BY DEF IInv
<1> QED
  BY <1>1, Invariance, PTL

\* However trust, untrust, connections and failures interleave, a peer that is not
\* trusted is connected only while the untrust that removed it is unfinished.
THEOREM UntrustedPeersDisconnected == Spec => []UntrustedDisconnected
<1>1. IInv => UntrustedDisconnected
  BY DEF IInv
<1> QED
  BY <1>1, Invariance, PTL

\* However they interleave, no ban outlives the trust call of its peer.
THEOREM TrustedPeersNotBanned == Spec => []TrustedNotBanned
<1>1. IInv => TrustedNotBanned
  BY DEF IInv
<1> QED
  BY <1>1, Invariance, PTL

\* A sync that waits returns only after an authenticated peer was there, or when the
\* registry is being closed.
THEOREM SyncsNeedPeer == Spec => SyncNeedsPeer
<1>1. IInv /\ [Next]_vars =>
        [\A c \in Call :
           at[c] = "update" /\ at'[c] = "ok" => authenticated \/ Closed]_vars
  <2> SUFFICES ASSUME IInv, [Next]_vars, NEW c \in Call,
                      at[c] = "update", at'[c] = "ok"
               PROVE  authenticated \/ Closed
    OBVIOUS
  <2> USE DEF IInv, TypeOK, Waiting, Unconnected, Closed, Goto
  <2>1. swarm = "up" \/ Closed
    OBVIOUS
  <2>2. ASSUME NEW d \in Call, EndUpdate(d) PROVE authenticated \/ Closed
    BY <2>1, <2>2 DEF EndUpdate
  <2>3. ASSUME NEW d \in Call, Learn(d) PROVE authenticated \/ Closed
    BY <2>3 DEF Learn
  <2>4. ASSUME NEW d \in Call,
               CallTrust(d) \/ CallUntrust(d) \/ CallSync(d) \/ SaveFails(d)
                 \/ FinishTrust(d) \/ FinishUntrust(d) \/ UpdateRejects(d)
        PROVE  FALSE
    BY <2>4
      DEF CallTrust, CallUntrust, CallSync, SaveFails, FinishTrust, FinishUntrust,
        UpdateRejects
  <2>5. CASE UNCHANGED at
    BY <2>5
  <2> QED
    BY <2>2, <2>3, <2>4, <2>5
      DEF Next, Step, PassFirewall, Ban, Open, Lose, Connect, DiscoveryEnds,
        DiscoveryFails, Close, EndClose, calls, vars
<1> QED
  BY <1>1, Invariance, PTL DEF Spec, SyncNeedsPeer

-------------------------------------------------------------------------------
(* Nothing holds a sync that could return.                                 *)

\* The update is not held open once the registry is closed, or discovery is done and
\* a peer was there, in whichever order these came.
Released == Closed \/ (discovery = "done" /\ authenticated) => ~finding

\* Discovery begins with connect.
Undiscovered == swarm = "none" => discovery = "none"

\* Each of DiscoveryEnds, Open and Close releases the update if it is the last one
\* that is needed.
LEMMA ReleasedKept ==
  TypeOK /\ Undiscovered /\ Released /\ [Next]_vars => Undiscovered' /\ Released'
<1> SUFFICES ASSUME TypeOK, Undiscovered, Released, [Next]_vars
             PROVE  Undiscovered' /\ Released'
  OBVIOUS
<1> USE DEF Undiscovered, Released, Closed, TypeOK, Goto, waiting, links, calls
<1>1. ASSUME NEW c \in Call, CallTrust(c) \/ CallUntrust(c) \/ CallSync(c) \/ Learn(c)
      PROVE  Undiscovered' /\ Released'
  BY <1>1 DEF CallTrust, CallUntrust, CallSync, Learn
<1>2. ASSUME NEW c \in Call, Step(c) PROVE Undiscovered' /\ Released'
  BY <1>2 DEF Step, SaveFails, FinishTrust, FinishUntrust, EndUpdate, UpdateRejects
<1>3. ASSUME NEW x \in Peer, PassFirewall(x) \/ Ban(x) \/ Lose(x)
      PROVE  Undiscovered' /\ Released'
  BY <1>3 DEF PassFirewall, Ban, Lose
<1>4. ASSUME NEW x \in Peer, Open(x) PROVE Undiscovered' /\ Released'
  BY <1>4, Zenon DEF Open
<1>5. CASE DiscoveryEnds
  BY <1>5 DEF DiscoveryEnds
<1>6. CASE Connect \/ DiscoveryFails \/ Close \/ EndClose
  BY <1>6 DEF Connect, DiscoveryFails, Close, EndClose
<1>7. CASE UNCHANGED vars
  BY <1>7 DEF vars
<1> QED
  BY <1>1, <1>2, <1>3, <1>4, <1>5, <1>6, <1>7 DEF Next

\* However connect, discovery, connections and close interleave, a sync that may
\* return is not held.
THEOREM SyncsReleased == Spec => []Released
<1>1. Init => Undiscovered /\ Released
  BY DEF Init, Undiscovered, Released, Closed
<1> QED
  BY <1>1, ReleasedKept, TypeCorrect, PTL DEF Spec
===============================================================================
