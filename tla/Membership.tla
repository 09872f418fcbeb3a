----------------------------- MODULE Membership -------------------------------
(***************************************************************************)
(* What a state directory promises: it is set up once, with one registry   *)
(* key and one device identity, which it keeps; its allowlist changes by   *)
(* one peer at a time.                                                     *)
(***************************************************************************)
CONSTANTS
  Key,       \* registry keys
  Identity,  \* device identities
  Peer,      \* identities of other devices
  None       \* "not set up"

VARIABLES
  member,    \* the registry and identity of this directory, or None
  trusted    \* the peers on its allowlist

Init == member = None /\ trusted = {}

SetUp(k, id) ==
  /\ member = None
  /\ member' = [key |-> k, identity |-> id]
  /\ UNCHANGED trusted

Trust(x) ==
  /\ member # None
  /\ trusted' = trusted \cup {x}
  /\ UNCHANGED member

Untrust(x) ==
  /\ member # None
  /\ trusted' = trusted \ {x}
  /\ UNCHANGED member

Next ==
  \/ \E k \in Key, id \in Identity : SetUp(k, id)
  \/ \E x \in Peer : Trust(x) \/ Untrust(x)

Spec == Init /\ [][Next]_<<member, trusted>>
===============================================================================
