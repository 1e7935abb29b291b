-------------------------- MODULE MCPeerRegistry --------------------------
(***************************************************************************)
(* The peer registry on its own, driven by the calls process_input makes  *)
(* (src/flowd.c:648-679): new_peer for an address find_peer did not find, *)
(* then a count of an invalid datagram, or update_peer for a valid one.   *)
(* The callers' preconditions are the guards; the bounds only make the    *)
(* state space finite.                                                     *)
(***************************************************************************)
EXTENDS PeerRegistry

CONSTANTS
    Versions,           \* NetFlow versions update_peer is called with
    MaxFlowsPerPacket,  \* largest nflows of a valid packet in the model
    MaxForced,          \* bound on evictions
    MaxCount            \* bound on each per-peer counter

ASSUME BoundsAssumption ==
    /\ Versions \subseteq Nat
    /\ MaxFlowsPerPacket \in Nat \ {0}
    /\ MaxForced \in Nat
    /\ MaxCount \in Nat

(* History, not program state: a logical clock counting registry calls,  *)
(* the clock value of each peer's last new_peer or update_peer, and the   *)
(* peer of the last update_peer call.                                     *)
VARIABLES clock, lastUse, lastUpdated

CONSTANT NoPeer  \* a model value that is no address

ASSUME NoPeerAssumption == NoPeer \notin Addr

ghostVars == <<clock, lastUse, lastUpdated>>

Init ==
    /\ peers = EmptyRegistry
    /\ clock = 0 /\ lastUse = [a \in Addr |-> 0] /\ lastUpdated = NoPeer

(* The history of a call that uses (creates or updates) peer a.            *)
Used(a) == clock' = clock + 1 /\ lastUse' = [lastUse EXCEPT ![a] = clock + 1]

(* if ((peer = find_peer(peers, &flow_source)) == NULL) peer = new_peer(...) *)
NewPeerStep(a, t) ==
    /\ ~FindPeer(peers, a)
    /\ peers.num_forced < MaxForced
    /\ peers' = NewPeer(peers, a, t)
    /\ Used(a) /\ UNCHANGED lastUpdated

(* update_peer(peers, peer, nflows, version) after a valid packet.         *)
UpdatePeerStep(a, n, v, t) ==
    /\ FindPeer(peers, a)
    /\ peers.state[a].npackets < MaxCount
    /\ peers' = UpdatePeer(peers, a, n, v, t)
    /\ Used(a) /\ lastUpdated' = a

(* peer->ninvalid++ after a short or malformed packet.                     *)
InvalidStep(a) ==
    /\ FindPeer(peers, a)
    /\ peers.state[a].ninvalid < MaxCount
    /\ peers' = CountInvalid(peers, a)
    /\ UNCHANGED ghostVars

Next ==
    \/ \E a \in Addr, t \in Times : NewPeerStep(a, t)
    \/ \E a \in Addr, n \in 1..MaxFlowsPerPacket, v \in Versions, t \in Times :
          UpdatePeerStep(a, n, v, t)
    \/ \E a \in Addr : InvalidStep(a)

Spec == Init /\ [][Next]_<<peers, ghostVars>>

-----------------------------------------------------------------------------
(* The LRU list is ordered by recency of use: a peer nearer the head was  *)
(* created or updated more recently than every peer behind it, so that    *)
(* TAILQ_LAST, which new_peer evicts, is the least recently used peer.    *)
LruOrderedByRecency ==
    \A i, j \in 1..Len(peers.lru) : i < j => lastUse[peers.lru[i]] > lastUse[peers.lru[j]]

(* Spec section 3: the head of the LRU list is the most recently updated   *)
(* peer (the one update_peer last touched), whenever that peer is still   *)
(* registered.                                                             *)
LruHeadIsLastUpdated ==
    lastUpdated \in peers.tree => peers.lru[1] = lastUpdated

(* Spec section 3: once a peer has had a valid packet, firstseen is no     *)
(* later than lastvalid.                                                   *)
FirstSeenBeforeLastValid ==
    \A a \in peers.tree :
        peers.state[a].npackets > 0 => peers.state[a].firstseen <= peers.state[a].lastvalid
-----------------------------------------------------------------------------
(* The refinement mapping onto the abstract peer table: the tree's key    *)
(* set is the table, the per-peer state its statistics, the history      *)
(* clock and lastUse its recency stamps, num_peers / num_forced its      *)
(* counters.                                                               *)
Table == INSTANCE PeerTable
    WITH known <- peers.tree, stats <- peers.state, used <- lastUse,
         now <- clock, num <- peers.num_peers, forced <- peers.num_forced,
         FlowCounts <- 1..MaxFlowsPerPacket

(* The splay tree and the tail queue, driven by process_input's calls,    *)
(* implement the abstract LRU table: every new_peer is an insertion that, *)
(* when the table is full, removes the least recently inserted-or-touched *)
(* peer, every update_peer a touch and every ninvalid++ a rejection.       *)
ImplementsPeerTable == Table!Spec
=============================================================================
