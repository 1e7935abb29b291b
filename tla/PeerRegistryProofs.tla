------------------------- MODULE PeerRegistryProofs -------------------------
(***************************************************************************)
(* Proofs about the peer registry: the registry type and the consistency  *)
(* of its two indexes hold in every state of the registry driven by       *)
(* process_input's calls, for every set of addresses and every max_peers. *)
(***************************************************************************)
EXTENDS MCPeerRegistry, PeerRegistryLemmas, TLAPS

-----------------------------------------------------------------------------
(***************************************************************************)
(* The registry invariants hold in every reachable state.                 *)
(***************************************************************************)

(* The inductive invariant: the type and the consistency of the indexes   *)
(* together; neither is inductive alone, since new_peer's eviction of      *)
(* TAILQ_LAST needs num_peers = Len(lru) and the type needs the eviction.  *)
IInv == RegistryTypeOK /\ RegistryConsistent

(* The empty registry main() starts with is consistent.                   *)
LEMMA InitIInv == Init => IInv
<1> SUFFICES ASSUME Init PROVE IInv
  OBVIOUS
<1>1. EmptyRegistry \in Registry
  BY DEF EmptyRegistry, Registry, ZeroPeer, PeerState
<1>2. ConsistentRegistry(EmptyRegistry)
  <2>1. Range(<<>>) = {} /\ IsInjective(<<>>)
    BY DEF Range, IsInjective
  <2>2. /\ EmptyRegistry.lru = <<>> /\ EmptyRegistry.tree = {}
        /\ EmptyRegistry.num_peers = 0 /\ 0 <= MaxPeers
        /\ \A x \in Addr : EmptyRegistry.state[x] = ZeroPeer
    BY MaxPeersAssumption DEF EmptyRegistry
  <2> QED BY <2>1, <2>2 DEF ConsistentRegistry
<1> QED BY <1>1, <1>2 DEF Init, IInv, RegistryTypeOK, RegistryConsistent

(* Every registry call process_input makes preserves the invariant.       *)
LEMMA NextIInv == IInv /\ [Next]_<<peers, ghostVars>> => IInv'
<1> SUFFICES ASSUME IInv, [Next]_<<peers, ghostVars>> PROVE IInv'
  OBVIOUS
<1>1. peers \in Registry /\ ConsistentRegistry(peers)
  BY DEF IInv, RegistryTypeOK, RegistryConsistent
<1>2. ASSUME peers' \in Registry, ConsistentRegistry(peers') PROVE IInv'
  BY <1>2 DEF IInv, RegistryTypeOK, RegistryConsistent
<1>3. ASSUME NEW a \in Addr, NEW t \in Times, NewPeerStep(a, t) PROVE IInv'
  <2>1. a \notin peers.tree /\ peers' = NewPeer(peers, a, t) /\ t \in Nat
    BY <1>3, TimesAssumption DEF NewPeerStep, FindPeer
  <2> QED BY <1>1, <1>2, <2>1, NewPeerLemma
<1>4. ASSUME NEW a \in Addr, NEW n \in 1..MaxFlowsPerPacket, NEW v \in Versions,
             NEW t \in Times, UpdatePeerStep(a, n, v, t)
      PROVE  IInv'
  <2>1. /\ a \in peers.tree /\ peers' = UpdatePeer(peers, a, n, v, t)
        /\ n \in Nat /\ v \in Nat /\ t \in Nat
    BY <1>4, TimesAssumption, BoundsAssumption DEF UpdatePeerStep, FindPeer
  <2> QED BY <1>1, <1>2, <2>1, UpdatePeerLemma
<1>5. ASSUME NEW a \in Addr, InvalidStep(a) PROVE IInv'
  <2>1. a \in peers.tree /\ peers' = CountInvalid(peers, a)
    BY <1>5 DEF InvalidStep, FindPeer
  <2> QED BY <1>1, <1>2, <2>1, CountInvalidLemma
<1>6. CASE UNCHANGED <<peers, ghostVars>>
  BY <1>1, <1>2, <1>6
<1> QED BY <1>3, <1>4, <1>5, <1>6 DEF Next

(* After any sequence of new_peer, update_peer and invalid-packet counts,  *)
(* the splay tree and the LRU list hold the same peers, the list holds     *)
(* each once, num_peers counts them and never exceeds max_peers, so the    *)
(* TAILQ_LAST that new_peer evicts always exists when it is needed.        *)
THEOREM RegistryConsistency == Spec => []RegistryConsistent
<1>1. Spec => []IInv
  BY InitIInv, NextIInv, PTL DEF Spec
<1> QED BY <1>1, PTL DEF IInv

(* The registry always has the type of struct peers.                      *)
THEOREM RegistryTypeCorrect == Spec => []RegistryTypeOK
<1>1. Spec => []IInv
  BY InitIInv, NextIInv, PTL DEF Spec
<1> QED BY <1>1, PTL DEF IInv
-----------------------------------------------------------------------------
(***************************************************************************)
(* The LRU list is ordered by recency of use.  The order alone is not     *)
(* inductive: it needs the registry invariant (the list holds each peer   *)
(* once, so moving a peer to the head takes it out of the rest) and the   *)
(* stamps bounded by the clock (so the peer just used has the largest).   *)
(***************************************************************************)
OInv ==
    /\ IInv
    /\ clock \in Nat
    /\ lastUse \in [Addr -> 0..clock]
    /\ Decreasing(peers.lru, lastUse)

LEMMA InitOInv == Init => OInv
<1> SUFFICES ASSUME Init PROVE OInv
  OBVIOUS
<1>1. IInv
  BY InitIInv
<1>2. peers.lru = <<>>
  BY DEF Init, EmptyRegistry
<1> QED BY <1>1, <1>2 DEF Init, OInv, Decreasing

(* The history of a step that uses peer a.                                 *)
LEMMA UsedLemma ==
    ASSUME clock \in Nat, lastUse \in [Addr -> 0..clock], NEW a \in Addr, Used(a)
    PROVE  /\ clock' \in Nat
           /\ lastUse' \in [Addr -> 0..clock']
           /\ lastUse'[a] = clock + 1
           /\ \A b \in Addr \ {a} : lastUse'[b] = lastUse[b]
BY DEF Used

(* The peer just used, put at the head of a list of other peers in order, *)
(* gives a list in order.                                                  *)
LEMMA HeadOrderLemma ==
    ASSUME clock \in Nat, lastUse \in [Addr -> 0..clock], NEW a \in Addr, Used(a),
           NEW L \in Seq(Addr), a \notin Range(L), Decreasing(L, lastUse)
    PROVE  Decreasing(<<a>> \o L, lastUse')
<1>1. /\ lastUse'[a] = clock + 1
      /\ \A b \in Addr \ {a} : lastUse'[b] = lastUse[b]
  BY UsedLemma
<1>2. \A k \in 1..Len(L) : L[k] \in Addr \ {a} /\ lastUse'[L[k]] = lastUse[L[k]]
  BY <1>1 DEF Range
<1>3. Decreasing(L, lastUse')
  BY <1>2, OrderFrameLemma
<1>4. \A k \in 1..Len(L) : lastUse'[a] > lastUse'[L[k]]
  BY <1>1, <1>2
<1> QED BY <1>3, <1>4, ConsOrderLemma

LEMMA NextOInv == OInv /\ [Next]_<<peers, ghostVars>> => OInv'
<1> SUFFICES ASSUME OInv, [Next]_<<peers, ghostVars>> PROVE OInv'
  OBVIOUS
<1>0. IInv'
  BY NextIInv DEF OInv
<1>1. /\ peers \in Registry /\ ConsistentRegistry(peers)
      /\ peers.lru \in Seq(Addr) /\ IsInjective(peers.lru) /\ Range(peers.lru) = peers.tree
      /\ clock \in Nat /\ lastUse \in [Addr -> 0..clock]
      /\ Decreasing(peers.lru, lastUse) /\ peers.num_peers \in Nat
  BY DEF OInv, IInv, RegistryTypeOK, RegistryConsistent, ConsistentRegistry, Registry
<1>2. ASSUME NEW a \in Addr, NEW t \in Times, NewPeerStep(a, t) PROVE OInv'
  <2>1. a \notin peers.tree /\ peers' = NewPeer(peers, a, t) /\ t \in Nat /\ Used(a)
    BY <1>2, TimesAssumption DEF NewPeerStep, FindPeer
  <2>2. clock' \in Nat /\ lastUse' \in [Addr -> 0..clock']
    BY <1>1, <2>1, UsedLemma
  <2>3. Decreasing(peers'.lru, lastUse')
    <3>1. CASE peers.num_peers + 1 <= MaxPeers
      <4>1. peers'.lru = <<a>> \o peers.lru
        BY <1>1, <2>1, <3>1, NewPeerRoomLemma
      <4> QED BY <1>1, <2>1, <4>1, HeadOrderLemma
    <3>2. CASE peers.num_peers + 1 > MaxPeers
      <4> DEFINE e == LastPeer(peers)
      <4>1. e \in peers.tree /\ peers'.lru = <<a>> \o TailqRemove(peers, e)
        BY <1>1, <2>1, <3>2, NewPeerEvictLemma
      <4>2. /\ TailqRemove(peers, e) \in Seq(Addr)
            /\ Range(TailqRemove(peers, e)) = Range(peers.lru) \ {e}
            /\ Decreasing(TailqRemove(peers, e), lastUse)
        BY <1>1, <4>1, TailqRemoveLemma, TailqRemoveOrderLemma
      <4> HIDE DEF e
      <4> QED BY <1>1, <2>1, <4>1, <4>2, HeadOrderLemma
    <3> QED BY <1>1, <3>1, <3>2, MaxPeersAssumption
  <2> QED BY <1>0, <2>2, <2>3 DEF OInv
<1>3. ASSUME NEW a \in Addr, NEW n \in 1..MaxFlowsPerPacket, NEW v \in Versions,
             NEW t \in Times, UpdatePeerStep(a, n, v, t)
      PROVE  OInv'
  <2>1. a \in peers.tree /\ peers' = UpdatePeer(peers, a, n, v, t) /\ Used(a)
    BY <1>3 DEF UpdatePeerStep, FindPeer
  <2>2. /\ clock' \in Nat /\ lastUse' \in [Addr -> 0..clock']
        /\ lastUse'[a] = clock + 1
        /\ \A b \in Addr \ {a} : lastUse'[b] = lastUse[b]
    BY <1>1, <2>1, UsedLemma
  <2>3. peers'.lru = MovedToHead(peers, a).lru
    <3>1. UpdatePeer(peers, a, n, v, t).lru = MovedToHead(peers, a).lru
      BY <1>1, UpdatePeerFieldsLemma
    <3> QED BY <2>1, <3>1
  <2>4. Decreasing(peers'.lru, lastUse')
    <3>1. CASE peers.lru[1] # a
      <4>1. peers'.lru = <<a>> \o TailqRemove(peers, a)
        BY <2>3, <3>1 DEF MovedToHead
      <4>2. /\ TailqRemove(peers, a) \in Seq(Addr)
            /\ Range(TailqRemove(peers, a)) = Range(peers.lru) \ {a}
            /\ Decreasing(TailqRemove(peers, a), lastUse)
        BY <1>1, <2>1, TailqRemoveLemma, TailqRemoveOrderLemma
      <4> QED BY <1>1, <2>1, <4>1, <4>2, HeadOrderLemma
    <3>2. CASE peers.lru[1] = a
      <4>1. peers'.lru = peers.lru
        BY <2>3, <3>2 DEF MovedToHead
      <4> SUFFICES ASSUME NEW i \in 1..Len(peers.lru), NEW j \in 1..Len(peers.lru), i < j
                   PROVE  lastUse'[peers.lru[i]] > lastUse'[peers.lru[j]]
        BY <4>1 DEF Decreasing
      <4>2. peers.lru[j] \in Addr \ {a} /\ peers.lru[j] \in peers.tree
        BY <1>1, <3>2 DEF IsInjective, Range
      <4>3. CASE i = 1
        <5>1. lastUse'[peers.lru[i]] = clock + 1
          BY <2>2, <3>2, <4>3
        <5>2. lastUse'[peers.lru[j]] = lastUse[peers.lru[j]]
          BY <2>2, <4>2
        <5>3. lastUse[peers.lru[j]] \in 0..clock
          BY <1>1, <4>2
        <5> QED BY <1>1, <5>1, <5>2, <5>3
      <4>4. CASE i > 1
        <5>1. peers.lru[i] \in Addr \ {a}
          BY <1>1, <3>2, <4>4 DEF IsInjective
        <5>2. lastUse'[peers.lru[i]] = lastUse[peers.lru[i]]
          BY <2>2, <5>1
        <5>3. lastUse'[peers.lru[j]] = lastUse[peers.lru[j]]
          BY <2>2, <4>2
        <5>4. lastUse[peers.lru[i]] > lastUse[peers.lru[j]]
          BY <1>1 DEF Decreasing
        <5> QED BY <5>2, <5>3, <5>4
      <4> QED BY <4>3, <4>4
    <3> QED BY <3>1, <3>2
  <2> QED BY <1>0, <2>2, <2>4 DEF OInv
<1>4. ASSUME NEW a \in Addr, InvalidStep(a) PROVE OInv'
  <2>1. peers' = CountInvalid(peers, a) /\ UNCHANGED ghostVars
    BY <1>4 DEF InvalidStep
  <2>2. peers'.lru = peers.lru
    BY <1>1, <2>1, CountInvalidFieldsLemma
  <2> QED BY <1>0, <1>1, <2>1, <2>2 DEF OInv, ghostVars
<1>5. CASE UNCHANGED <<peers, ghostVars>>
  BY <1>0, <1>1, <1>5 DEF OInv, ghostVars
<1> QED BY <1>2, <1>3, <1>4, <1>5 DEF Next

(* The LRU list is ordered by recency of use after any sequence of calls: *)
(* TAILQ_LAST, which new_peer evicts, is always the peer created or       *)
(* updated longest ago.                                                    *)
THEOREM LruOrder == Spec => []LruOrderedByRecency
<1>1. Spec => []OInv
  BY InitOInv, NextOInv, PTL DEF Spec
<1>2. OInv => LruOrderedByRecency
  BY DEF OInv, Decreasing, LruOrderedByRecency
<1> QED BY <1>1, <1>2, PTL
-----------------------------------------------------------------------------
(***************************************************************************)
(* The registry implements the abstract LRU table (PeerTable) under the   *)
(* refinement mapping of MCPeerRegistry.  The one step that needs the     *)
(* order is the forced deletion: TAILQ_LAST is the least recently used    *)
(* peer because the list is ordered by recency.                           *)
(***************************************************************************)

(* The tail of a list ordered by stamps has the smallest stamp of the list. *)
LEMMA LastIsLruLemma ==
    ASSUME NEW s \in Seq(Addr), Len(s) > 0, NEW f \in [Addr -> Nat], Decreasing(s, f),
           NEW b \in Range(s)
    PROVE  f[s[Len(s)]] <= f[b]
<1>1. PICK k \in 1..Len(s) : s[k] = b
  BY DEF Range
<1>2. CASE k = Len(s)
  BY <1>1, <1>2
<1>3. CASE k < Len(s)
  <2>1. f[s[k]] > f[s[Len(s)]]
    BY <1>3 DEF Decreasing
  <2>2. f[s[k]] \in Nat /\ f[s[Len(s)]] \in Nat
    BY ElementOfSeq
  <2> QED BY <1>1, <2>1, <2>2
<1> QED BY <1>2, <1>3

LEMMA NoStatsLemma == Table!NoStats = ZeroPeer
BY DEF Table!NoStats, ZeroPeer

LEMMA InitRefines == Init => Table!Init
<1> SUFFICES ASSUME Init PROVE Table!Init
  OBVIOUS
<1>1. /\ peers.tree = {} /\ peers.state = [a \in Addr |-> ZeroPeer]
      /\ peers.num_peers = 0 /\ peers.num_forced = 0
      /\ clock = 0 /\ lastUse = [a \in Addr |-> 0]
  BY DEF Init, EmptyRegistry
<1> QED BY <1>1, NoStatsLemma DEF Table!Init

LEMMA NewPeerRefines ==
    ASSUME OInv, NEW a \in Addr, NEW t \in Times, NewPeerStep(a, t)
    PROVE  Table!Insert(a, t)
<1>1. /\ peers \in Registry /\ ConsistentRegistry(peers)
      /\ peers.lru \in Seq(Addr) /\ Range(peers.lru) = peers.tree
      /\ peers.num_peers \in Nat /\ peers.num_peers = Len(peers.lru)
      /\ lastUse \in [Addr -> Nat] /\ Decreasing(peers.lru, lastUse)
  BY DEF OInv, IInv, RegistryTypeOK, RegistryConsistent, ConsistentRegistry, Registry
<1>2. /\ a \notin peers.tree /\ peers' = NewPeer(peers, a, t) /\ t \in Nat
      /\ clock' = clock + 1 /\ lastUse' = [lastUse EXCEPT ![a] = clock + 1]
  BY TimesAssumption DEF NewPeerStep, FindPeer, Used
<1>3. CASE peers.num_peers + 1 <= MaxPeers
  <2>1. /\ peers'.tree = peers.tree \cup {a}
        /\ peers'.state = AddedState(peers.state, a, t)
        /\ peers'.num_peers = peers.num_peers + 1
        /\ peers'.num_forced = peers.num_forced
    BY <1>1, <1>2, <1>3, NewPeerRoomLemma
  <2>2. peers'.state = [peers.state EXCEPT ![a] = FreshPeer(t)]
    BY <2>1 DEF AddedState
  <2> QED BY <1>2, <1>3, <2>1, <2>2 DEF Table!Insert, Table!NoStats, FreshPeer, ZeroPeer
<1>4. CASE peers.num_peers + 1 > MaxPeers
  <2> DEFINE e == LastPeer(peers)
  <2>1. /\ e \in peers.tree /\ Len(peers.lru) > 0
        /\ peers'.tree = (peers.tree \ {e}) \cup {a}
        /\ peers'.state = EvictedState(peers.state, e, a, t)
        /\ peers'.num_peers = peers.num_peers
        /\ peers'.num_forced = peers.num_forced + 1
    <3>1. /\ e \in peers.tree /\ Len(peers.lru) \in 1..Len(peers.lru)
          /\ NewPeer(peers, a, t).tree = (peers.tree \ {e}) \cup {a}
          /\ NewPeer(peers, a, t).state = EvictedState(peers.state, e, a, t)
          /\ NewPeer(peers, a, t).num_peers = peers.num_peers
          /\ NewPeer(peers, a, t).num_forced = peers.num_forced + 1
      BY <1>1, <1>2, <1>4, NewPeerEvictLemma
    <3> QED BY <3>1, <1>2
  <2>2. \A b \in peers.tree : lastUse[e] <= lastUse[b]
    BY <1>1, <2>1, LastIsLruLemma DEF LastPeer
  <2>3. peers'.state = [peers.state EXCEPT ![e] = ZeroPeer, ![a] = FreshPeer(t)]
    BY <2>1 DEF EvictedState
  <2> HIDE DEF e
  <2> QED BY <1>2, <1>4, <2>1, <2>2, <2>3
          DEF Table!Insert, Table!IsLru, Table!NoStats, FreshPeer, ZeroPeer
<1> QED BY <1>1, <1>3, <1>4, MaxPeersAssumption

LEMMA UpdatePeerRefines ==
    ASSUME OInv, NEW a \in Addr, NEW n \in 1..MaxFlowsPerPacket, NEW v \in Versions,
           NEW t \in Times, UpdatePeerStep(a, n, v, t)
    PROVE  Table!Touch(a, n, v, t)
<1>1. peers \in Registry
  BY DEF OInv, IInv, RegistryTypeOK
<1>2. /\ a \in peers.tree /\ peers' = UpdatePeer(peers, a, n, v, t)
      /\ clock' = clock + 1 /\ lastUse' = [lastUse EXCEPT ![a] = clock + 1]
  BY DEF UpdatePeerStep, FindPeer, Used
<1>3. /\ peers'.tree = peers.tree
      /\ peers'.num_peers = peers.num_peers
      /\ peers'.num_forced = peers.num_forced
      /\ peers'.state = TouchedState(peers.state, a, n, v, t)
  BY <1>1, <1>2, UpdatePeerFieldsLemma
<1> QED BY <1>2, <1>3 DEF Table!Touch, TouchedState

LEMMA InvalidRefines ==
    ASSUME OInv, NEW a \in Addr, InvalidStep(a)
    PROVE  Table!Reject(a)
<1>1. peers \in Registry
  BY DEF OInv, IInv, RegistryTypeOK
<1>2. a \in peers.tree /\ peers' = CountInvalid(peers, a) /\ UNCHANGED ghostVars
  BY DEF InvalidStep, FindPeer
<1>3. /\ peers'.tree = peers.tree
      /\ peers'.num_peers = peers.num_peers
      /\ peers'.num_forced = peers.num_forced
      /\ peers'.state = InvalidState(peers.state, a)
  BY <1>1, <1>2, CountInvalidFieldsLemma
<1> QED BY <1>2, <1>3 DEF Table!Reject, InvalidState, ghostVars

LEMMA NextRefines ==
    OInv /\ [Next]_<<peers, ghostVars>> => [Table!Next]_Table!tableVars
<1> SUFFICES ASSUME OInv, [Next]_<<peers, ghostVars>>
             PROVE  [Table!Next]_Table!tableVars
  OBVIOUS
<1>1. ASSUME NEW a \in Addr, NEW t \in Times, NewPeerStep(a, t)
      PROVE  [Table!Next]_Table!tableVars
  BY <1>1, NewPeerRefines DEF Table!Next
<1>2. ASSUME NEW a \in Addr, NEW n \in 1..MaxFlowsPerPacket, NEW v \in Versions,
             NEW t \in Times, UpdatePeerStep(a, n, v, t)
      PROVE  [Table!Next]_Table!tableVars
  BY <1>2, UpdatePeerRefines DEF Table!Next
<1>3. ASSUME NEW a \in Addr, InvalidStep(a)
      PROVE  [Table!Next]_Table!tableVars
  BY <1>3, InvalidRefines DEF Table!Next
<1>4. CASE UNCHANGED <<peers, ghostVars>>
  BY <1>4 DEF Table!tableVars, ghostVars
<1> QED BY <1>1, <1>2, <1>3, <1>4 DEF Next

(* The splay tree and the tail queue, driven by process_input's calls,    *)
(* implement the abstract LRU peer table, for every set of addresses and  *)
(* every max_peers: in particular each forced deletion removes the least  *)
(* recently inserted-or-touched peer.                                      *)
THEOREM RegistryRefinesTable == Spec => ImplementsPeerTable
<1>1. Spec => []OInv
  BY InitOInv, NextOInv, PTL DEF Spec
<1>2. Init => Table!Init
  BY InitRefines
<1>3. OInv /\ [Next]_<<peers, ghostVars>> => [Table!Next]_Table!tableVars
  BY NextRefines
<1> QED BY <1>1, <1>2, <1>3, PTL DEF Spec, Table!Spec, ImplementsPeerTable
=============================================================================
