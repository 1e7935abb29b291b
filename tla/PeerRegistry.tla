---------------------------- MODULE PeerRegistry ----------------------------
(***************************************************************************)
(* The per-exporter ("peer") bookkeeping of flowd (src/flowd.c, struct    *)
(* peers and the functions delete_peer, new_peer, update_peer and         *)
(* find_peer).  The registry keeps every peer twice: in a splay tree      *)
(* keyed by address (peer_tree) and in a tail queue ordered by recency    *)
(* (peer_list, head = most recently used).  Both are modelled, the tree   *)
(* as the set of addresses it holds and the queue as a sequence, so that  *)
(* an operation that updates one index and forgets the other is visible.  *)
(*                                                                         *)
(* The operations are written as functions from a registry value to a     *)
(* registry value, so that the receive path (process_input in Flowd.tla) *)
(* can compose them exactly as the C code calls them.                     *)
(***************************************************************************)
EXTENDS Naturals, Sequences, FiniteSets, Functions

CONSTANTS
    Addr,       \* exporter addresses (struct xaddr), model values
    MaxPeers,   \* peers.max_peers, set once in main() to DEFAULT_MAX_PEERS
    Times       \* values gettimeofday() may return (wall clock, not monotonic)

ASSUME MaxPeersAssumption == MaxPeers \in Nat \ {0}
ASSUME TimesAssumption == Times \subseteq Nat /\ Times # {}

VARIABLE peers

(* struct peer_state without its two link fields; calloc zeroes it.        *)
PeerState == [npackets : Nat, nflows : Nat, ninvalid : Nat,
              firstseen : Nat, lastvalid : Nat, last_version : Nat]

ZeroPeer == [npackets |-> 0, nflows |-> 0, ninvalid |-> 0,
             firstseen |-> 0, lastvalid |-> 0, last_version |-> 0]

(* struct peers: the tree's key set, the LRU list, the per-peer state and  *)
(* the two counters.  The state of an address not in the tree is that of  *)
(* freed memory and is kept at ZeroPeer.                                   *)
Registry == [tree : SUBSET Addr, lru : Seq(Addr), state : [Addr -> PeerState],
             num_peers : Nat, num_forced : Nat]

(* main(): bzero(&peers), SPLAY_INIT, TAILQ_INIT.                          *)
EmptyRegistry == [tree |-> {}, lru |-> <<>>, state |-> [a \in Addr |-> ZeroPeer],
                  num_peers |-> 0, num_forced |-> 0]

(* The position of a listed peer in the LRU list.                          *)
PosInList(P, a) == CHOOSE i \in 1..Len(P.lru) : P.lru[i] = a

(* find_peer: SPLAY_FIND on the tree; no change to the LRU order.          *)
FindPeer(P, a) == a \in P.tree

(* TAILQ_REMOVE(&peers->peer_list, peer, lp): the list without the peer.  *)
TailqRemove(P, a) ==
    SubSeq(P.lru, 1, PosInList(P, a) - 1) \o SubSeq(P.lru, PosInList(P, a) + 1, Len(P.lru))

(* Fault model of delete_peer: the SPLAY_REMOVE forgotten.                *)
DeletePeerNoSplayRemove(P, a) ==
    [P EXCEPT !.lru = TailqRemove(P, a), !.state[a] = ZeroPeer, !.num_peers = @ - 1]

(* delete_peer: TAILQ_REMOVE, SPLAY_REMOVE, free, num_peers--.             *)
DeletePeer(P, a) ==
    [P EXCEPT !.lru = TailqRemove(P, a),
              !.tree = @ \ {a},
              !.state[a] = ZeroPeer,
              !.num_peers = @ - 1]

(* new_peer, first half: num_peers++ and, when that overflows max_peers,   *)
(* num_forced++ and delete_peer of TAILQ_LAST (the least recently used).   *)
MakeRoom(P) ==
    LET Q == [P EXCEPT !.num_peers = @ + 1]
    IN  IF Q.num_peers > MaxPeers
        THEN DeletePeer([Q EXCEPT !.num_forced = @ + 1], Q.lru[Len(Q.lru)])
        ELSE Q

(* new_peer: make room, then a zeroed peer inserted at the head of the LRU *)
(* list and into the tree, with firstseen from gettimeofday (time t).      *)
NewPeer(P, a, t) ==
    LET R == MakeRoom(P)
    IN  [R EXCEPT !.lru = <<a>> \o @,
                  !.tree = @ \cup {a},
                  !.state[a] = [ZeroPeer EXCEPT !.firstseen = t]]

(* Fault model of update_peer: the peer is not moved to the LRU head.     *)
UpdatePeerNoMove(P, a, nflows, version, t) ==
    [P EXCEPT !.state[a].lastvalid = t, !.state[a].nflows = @ + nflows,
              !.state[a].npackets = @ + 1, !.state[a].last_version = version]

(* update_peer: move the peer to the head of the LRU list unless it is     *)
(* already there, then lastvalid, nflows, npackets and last_version.       *)
UpdatePeer(P, a, nflows, version, t) ==
    LET Q == IF P.lru[1] # a
             THEN [P EXCEPT !.lru = <<a>> \o TailqRemove(P, a)]
             ELSE P
    IN  [Q EXCEPT !.state[a].lastvalid = t,
                  !.state[a].nflows = @ + nflows,
                  !.state[a].npackets = @ + 1,
                  !.state[a].last_version = version]

(* peer->ninvalid++ on a rejected datagram (process_input and the three    *)
(* decoders); the LRU order is left alone.                                 *)
CountInvalid(P, a) == [P EXCEPT !.state[a].ninvalid = @ + 1]

-----------------------------------------------------------------------------
RegistryTypeOK == peers \in Registry

(* The two indexes describe the same set of peers, the list holds each     *)
(* peer once, num_peers counts them and never exceeds max_peers, and a     *)
(* freed address holds no state: the invariants struct peers needs so      *)
(* that new_peer's TAILQ_LAST and delete_peer's removals stay valid after  *)
(* any sequence of new_peer / update_peer calls, evictions included.       *)
ConsistentRegistry(P) ==
    /\ Range(P.lru) = P.tree
    /\ IsInjective(P.lru)
    /\ P.num_peers = Len(P.lru)
    /\ P.num_peers <= MaxPeers
    /\ \A a \in Addr \ P.tree : P.state[a] = ZeroPeer

(* The registry of the running daemon keeps those invariants.              *)
RegistryConsistent == ConsistentRegistry(peers)
=============================================================================
