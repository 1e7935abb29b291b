------------------------------ MODULE PeerTable ------------------------------
(***************************************************************************)
(* What flowd's peer registry promises, without the data structures that *)
(* implement it: a table of at most MaxPeers known exporters with their   *)
(* statistics, from which, when an insertion would exceed the bound, the  *)
(* least recently used peer is removed.  "Used" means inserted (a peer    *)
(* starts at the LRU head) or touched by a valid packet.  There is no     *)
(* tree, no list and no position: recency is a logical time stamp per     *)
(* peer.  PeerRegistry implements it with a splay tree and a tail queue;  *)
(* MCPeerRegistry checks, and PeerRegistryProofs proves, the refinement.  *)
(***************************************************************************)
EXTENDS Naturals

CONSTANTS
    Addr,        \* exporter addresses
    MaxPeers,    \* the bound on the table
    Times,       \* clock readings stored in firstseen / lastvalid
    Versions,    \* versions a touch records
    FlowCounts   \* flow counts a touch adds

VARIABLES
    known,   \* the peers in the table
    stats,   \* per-peer statistics (zero for an address not in the table)
    used,    \* per-address logical time of the last insertion or touch
    now,     \* the logical time
    num,     \* the number of peers in the table
    forced   \* the number of forced removals

tableVars == <<known, stats, used, now, num, forced>>

Stats == [npackets : Nat, nflows : Nat, ninvalid : Nat,
          firstseen : Nat, lastvalid : Nat, last_version : Nat]

NoStats == [npackets |-> 0, nflows |-> 0, ninvalid |-> 0,
            firstseen |-> 0, lastvalid |-> 0, last_version |-> 0]

Init ==
    /\ known = {} /\ stats = [a \in Addr |-> NoStats]
    /\ used = [a \in Addr |-> 0] /\ now = 0
    /\ num = 0 /\ forced = 0

(* The least recently used peer of the table.                              *)
IsLru(v) == v \in known /\ \A b \in known : used[v] <= used[b]

(* insert(addr): a peer not in the table enters it with firstseen = t; if *)
(* the table is full, the least recently used peer leaves it first.       *)
Insert(a, t) ==
    /\ a \notin known
    /\ now' = now + 1
    /\ used' = [used EXCEPT ![a] = now + 1]
    /\ \/ /\ num + 1 <= MaxPeers
          /\ known' = known \cup {a}
          /\ stats' = [stats EXCEPT ![a] = [NoStats EXCEPT !.firstseen = t]]
          /\ num' = num + 1 /\ UNCHANGED forced
       \/ /\ num + 1 > MaxPeers
          /\ \E v \in known :
                /\ IsLru(v)
                /\ known' = (known \ {v}) \cup {a}
                /\ stats' = [stats EXCEPT ![v] = NoStats,
                                          ![a] = [NoStats EXCEPT !.firstseen = t]]
          /\ forced' = forced + 1 /\ UNCHANGED num

(* touch(peer, nflows, version) at clock reading t.                        *)
Touch(a, n, v, t) ==
    /\ a \in known
    /\ now' = now + 1
    /\ used' = [used EXCEPT ![a] = now + 1]
    /\ UNCHANGED <<known, num, forced>>
    /\ stats' = [stats EXCEPT ![a].lastvalid = t, ![a].nflows = @ + n,
                              ![a].npackets = @ + 1, ![a].last_version = v]

(* A malformed datagram from a known peer: its ninvalid count only.       *)
Reject(a) ==
    /\ a \in known
    /\ stats' = [stats EXCEPT ![a].ninvalid = @ + 1]
    /\ UNCHANGED <<known, used, now, num, forced>>

Next ==
    \/ \E a \in Addr, t \in Times : Insert(a, t)
    \/ \E a \in Addr, n \in FlowCounts, v \in Versions, t \in Times : Touch(a, n, v, t)
    \/ \E a \in Addr : Reject(a)

Spec == Init /\ [][Next]_tableVars
=============================================================================
