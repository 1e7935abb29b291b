------------------------- MODULE PeerRegistryLemmas -------------------------
(***************************************************************************)
(* Lemmas about the peer registry's operators (PeerRegistry.tla): the LRU *)
(* list operations, and each registry operation keeping the type and the  *)
(* consistency of the two indexes.  They are stated for any registry      *)
(* value, so that every specification composing the operations (the       *)
(* registry alone, the whole worker) can cite them.                        *)
(***************************************************************************)
EXTENDS PeerRegistry, SequenceTheorems, TLAPS

(***************************************************************************)
(* Lemmas on the list operations of the LRU queue.                        *)
(***************************************************************************)

(* TAILQ_REMOVE of the element at position i of a list without repeats:  *)
(* one element shorter, that element gone, still without repeats.         *)
RemoveAt(s, i) == SubSeq(s, 1, i - 1) \o SubSeq(s, i + 1, Len(s))

LEMMA RemoveAtLemma ==
    ASSUME NEW S, NEW s \in Seq(S), IsInjective(s), NEW i \in 1..Len(s)
    PROVE  /\ RemoveAt(s, i) \in Seq(S)
           /\ Len(RemoveAt(s, i)) = Len(s) - 1
           /\ Range(RemoveAt(s, i)) = Range(s) \ {s[i]}
           /\ IsInjective(RemoveAt(s, i))
           /\ \A k \in 1..Len(s) - 1 : RemoveAt(s, i)[k] = IF k < i THEN s[k] ELSE s[k + 1]
<1> DEFINE u == SubSeq(s, 1, i - 1)
           v == SubSeq(s, i + 1, Len(s))
           r == u \o v
<1>0. RemoveAt(s, i) = r
  BY DEF RemoveAt
<1>1. /\ u \in Seq(S) /\ Len(u) = i - 1 /\ \A k \in 1..i - 1 : u[k] = s[k]
  BY SubSeqProperties
<1>2. /\ v \in Seq(S) /\ Len(v) = Len(s) - i /\ \A k \in 1..Len(s) - i : v[k] = s[i + k]
  <2>1. \A k \in i + 1..Len(s) : s[k] \in S
    BY ElementOfSeq
  <2> QED BY <2>1, SubSeqProperties
<1>3. /\ r \in Seq(S)
      /\ Len(r) = Len(s) - 1
      /\ \A k \in 1..Len(s) - 1 : r[k] = IF k < i THEN s[k] ELSE s[k + 1]
  <2>1. /\ u \o v \in Seq(S) /\ Len(u \o v) = Len(u) + Len(v)
        /\ \A k \in 1..Len(u) + Len(v) :
              (u \o v)[k] = IF k <= Len(u) THEN u[k] ELSE v[k - Len(u)]
    BY <1>1, <1>2, ConcatProperties
  <2> HIDE DEF u, v
  <2> QED BY <2>1, <1>1, <1>2
<1> HIDE DEF r, u, v
<1>4. DOMAIN r = 1..Len(s) - 1 /\ DOMAIN s = 1..Len(s)
  BY <1>3
<1>5. Range(r) = Range(s) \ {s[i]}
  <2>1. Range(r) \subseteq Range(s) \ {s[i]}
    <3> SUFFICES ASSUME NEW k \in 1..Len(s) - 1 PROVE r[k] \in Range(s) \ {s[i]}
      BY <1>4 DEF Range
    <3>1. /\ r[k] = s[IF k < i THEN k ELSE k + 1]
          /\ (IF k < i THEN k ELSE k + 1) \in DOMAIN s
          /\ (IF k < i THEN k ELSE k + 1) # i
      BY <1>3, <1>4
    <3> QED BY <3>1, <1>4 DEF Range, IsInjective
  <2>2. Range(s) \ {s[i]} \subseteq Range(r)
    <3> SUFFICES ASSUME NEW k \in 1..Len(s), k # i PROVE s[k] \in Range(r)
      BY <1>4 DEF Range
    <3>1. CASE k < i
      BY <3>1, <1>3, <1>4 DEF Range
    <3>2. CASE k > i
      <4>1. k - 1 \in 1..Len(s) - 1 /\ r[k - 1] = s[k]
        BY <3>2, <1>3
      <4> QED BY <4>1, <1>4 DEF Range
    <3> QED BY <3>1, <3>2
  <2> QED BY <2>1, <2>2
<1>6. IsInjective(r)
  <2> SUFFICES ASSUME NEW a \in 1..Len(s) - 1, NEW b \in 1..Len(s) - 1, r[a] = r[b]
               PROVE  a = b
    BY <1>4 DEF IsInjective
  <2> DEFINE ia == IF a < i THEN a ELSE a + 1
             ib == IF b < i THEN b ELSE b + 1
  <2>1. s[ia] = s[ib] /\ ia \in DOMAIN s /\ ib \in DOMAIN s
    BY <1>3, <1>4
  <2>2. ia = ib
    BY <2>1 DEF IsInjective
  <2> QED BY <2>2
<1> QED BY <1>0, <1>3, <1>5, <1>6

(* TAILQ_INSERT_HEAD of an element not in the list.                      *)
LEMMA ConsLemma ==
    ASSUME NEW S, NEW s \in Seq(S), IsInjective(s), NEW a \in S, a \notin Range(s)
    PROVE  /\ <<a>> \o s \in Seq(S)
           /\ Len(<<a>> \o s) = Len(s) + 1
           /\ Range(<<a>> \o s) = Range(s) \cup {a}
           /\ IsInjective(<<a>> \o s)
           /\ (<<a>> \o s)[1] = a
<1>1. /\ <<a>> \o s \in Seq(S)
      /\ Len(<<a>> \o s) = Len(s) + 1
      /\ (<<a>> \o s)[1] = a
      /\ \A k \in 2..Len(s) + 1 : (<<a>> \o s)[k] = s[k - 1]
  <2>1. <<a>> \in Seq(S) /\ Len(<<a>>) = 1
    OBVIOUS
  <2> QED BY <2>1, ConcatProperties
<1>2. DOMAIN (<<a>> \o s) = 1..Len(s) + 1 /\ DOMAIN s = 1..Len(s)
  BY <1>1
<1>3. Range(<<a>> \o s) = Range(s) \cup {a}
  <2>1. Range(<<a>> \o s) \subseteq Range(s) \cup {a}
    BY <1>1, <1>2 DEF Range
  <2>2. Range(s) \subseteq Range(<<a>> \o s)
    <3> SUFFICES ASSUME NEW k \in 1..Len(s) PROVE s[k] \in Range(<<a>> \o s)
      BY <1>2 DEF Range
    <3>1. k + 1 \in DOMAIN (<<a>> \o s) /\ (<<a>> \o s)[k + 1] = s[k]
      BY <1>1, <1>2
    <3> QED BY <3>1 DEF Range
  <2>3. a \in Range(<<a>> \o s)
    BY <1>1, <1>2 DEF Range
  <2> QED BY <2>1, <2>2, <2>3
<1>4. IsInjective(<<a>> \o s)
  BY <1>1, <1>2 DEF IsInjective, Range
<1> QED BY <1>1, <1>3, <1>4

(* The position find-by-scan returns for a listed element.               *)
LEMMA PosLemma ==
    ASSUME NEW P, P.lru \in Seq(Addr), NEW a \in Range(P.lru)
    PROVE  /\ PosInList(P, a) \in 1..Len(P.lru)
           /\ P.lru[PosInList(P, a)] = a
BY DEF PosInList, Range

(* TAILQ_REMOVE of a listed peer, on the registry's own list.             *)
LEMMA TailqRemoveLemma ==
    ASSUME NEW P, P.lru \in Seq(Addr), IsInjective(P.lru), NEW a \in Range(P.lru)
    PROVE  /\ TailqRemove(P, a) \in Seq(Addr)
           /\ Len(TailqRemove(P, a)) = Len(P.lru) - 1
           /\ Range(TailqRemove(P, a)) = Range(P.lru) \ {a}
           /\ IsInjective(TailqRemove(P, a))
           /\ \A k \in 1..Len(P.lru) - 1 :
                 TailqRemove(P, a)[k] = IF k < PosInList(P, a) THEN P.lru[k] ELSE P.lru[k + 1]
<1>1. PosInList(P, a) \in 1..Len(P.lru) /\ P.lru[PosInList(P, a)] = a
  BY PosLemma
<1>2. TailqRemove(P, a) = RemoveAt(P.lru, PosInList(P, a))
  BY DEF TailqRemove, RemoveAt
<1> DEFINE i == PosInList(P, a)
<1>3. /\ RemoveAt(P.lru, i) \in Seq(Addr)
      /\ Len(RemoveAt(P.lru, i)) = Len(P.lru) - 1
      /\ Range(RemoveAt(P.lru, i)) = Range(P.lru) \ {P.lru[i]}
      /\ IsInjective(RemoveAt(P.lru, i))
      /\ \A k \in 1..Len(P.lru) - 1 :
            RemoveAt(P.lru, i)[k] = IF k < i THEN P.lru[k] ELSE P.lru[k + 1]
  BY <1>1, RemoveAtLemma
<1> HIDE DEF i
<1> QED BY <1>1, <1>2, <1>3 DEF i

-----------------------------------------------------------------------------
(***************************************************************************)
(* Each registry operation preserves the type and the consistency of the  *)
(* two indexes.                                                            *)
(***************************************************************************)

(* num_peers++ and num_forced++ keep a registry a registry.               *)
LEMMA CounterLemma ==
    ASSUME NEW R \in Registry
    PROVE  /\ [R EXCEPT !.num_peers = @ + 1] \in Registry
           /\ [R EXCEPT !.num_forced = @ + 1] \in Registry
BY DEF Registry

(* new_peer's first half: after num_peers++ and a possible eviction of     *)
(* TAILQ_LAST, both indexes still agree and num_peers counts the list      *)
(* plus the peer about to be inserted.                                     *)
LEMMA MakeRoomLemma ==
    ASSUME NEW P \in Registry, ConsistentRegistry(P)
    PROVE  /\ MakeRoom(P) \in Registry
           /\ Range(MakeRoom(P).lru) = MakeRoom(P).tree
           /\ MakeRoom(P).tree \subseteq P.tree
           /\ IsInjective(MakeRoom(P).lru)
           /\ MakeRoom(P).num_peers = Len(MakeRoom(P).lru) + 1
           /\ MakeRoom(P).num_peers <= MaxPeers
           /\ \A x \in Addr \ MakeRoom(P).tree : MakeRoom(P).state[x] = ZeroPeer
<1>0. [P EXCEPT !.num_peers = @ + 1] \in Registry
  BY CounterLemma
<1>5. ASSUME NEW R \in Registry PROVE [R EXCEPT !.num_forced = @ + 1] \in Registry
  BY CounterLemma
<1> DEFINE Q == [P EXCEPT !.num_peers = @ + 1]
<1>4. Q \in Registry
  BY <1>0
<1>1. /\ Q.lru = P.lru /\ Q.tree = P.tree /\ Q.state = P.state
      /\ Q.num_peers = P.num_peers + 1 /\ Q.num_forced = P.num_forced
      /\ P.lru \in Seq(Addr) /\ P.num_peers \in Nat /\ P.num_forced \in Nat
      /\ P.tree \in SUBSET Addr /\ P.state \in [Addr -> PeerState]
  BY DEF Registry
<1>2. CASE Q.num_peers > MaxPeers
  <2> DEFINE Q2 == [Q EXCEPT !.num_forced = @ + 1]
             e == Q.lru[Len(Q.lru)]
  <2>1. Len(P.lru) = MaxPeers /\ Len(P.lru) \in 1..Len(P.lru)
    BY <1>1, <1>2, MaxPeersAssumption DEF ConsistentRegistry
  <2>2. /\ Q2.lru = P.lru /\ Q2.tree = P.tree /\ Q2.state = P.state
        /\ Q2.num_peers = P.num_peers + 1 /\ Q2.num_forced = P.num_forced + 1
    BY <1>1
  <2>3. /\ Q2.lru \in Seq(Addr) /\ IsInjective(Q2.lru)
        /\ e \in Range(Q2.lru) /\ e \in Addr
    BY <1>1, <2>1, <2>2, ElementOfSeq DEF Range, ConsistentRegistry
  <2>4. /\ TailqRemove(Q2, e) \in Seq(Addr)
        /\ Len(TailqRemove(Q2, e)) = Len(Q2.lru) - 1
        /\ Range(TailqRemove(Q2, e)) = Range(Q2.lru) \ {e}
        /\ IsInjective(TailqRemove(Q2, e))
    BY <2>3, TailqRemoveLemma
  <2>5. MakeRoom(P) = DeletePeer(Q2, e)
    BY <1>2 DEF MakeRoom
  <2>6. /\ MakeRoom(P).lru = TailqRemove(Q2, e) /\ MakeRoom(P).tree = P.tree \ {e}
        /\ MakeRoom(P).state = [P.state EXCEPT ![e] = ZeroPeer]
        /\ MakeRoom(P).num_peers = P.num_peers
        /\ MakeRoom(P).num_forced = P.num_forced + 1
    BY <2>2, <2>5, <1>1 DEF DeletePeer
  <2>7. MakeRoom(P) \in Registry
    <3>1. Q2 \in Registry
      BY <1>4, <1>5
    <3>2. ZeroPeer \in PeerState /\ Q2.num_peers - 1 \in Nat
      BY <2>2, <1>1 DEF ZeroPeer, PeerState
    <3>3. [Q2.state EXCEPT ![e] = ZeroPeer] \in [Addr -> PeerState]
      BY <3>1, <3>2 DEF Registry
    <3>4. DeletePeer(Q2, e) \in Registry
      BY <3>1, <3>2, <3>3, <2>4 DEF DeletePeer, Registry
    <3> QED BY <3>4, <2>5
  <2> HIDE DEF Q2, e
  <2> QED BY <1>1, <2>1, <2>2, <2>3, <2>4, <2>6, <2>7 DEF ConsistentRegistry
<1>3. CASE ~(Q.num_peers > MaxPeers)
  <2>1. MakeRoom(P) = Q
    BY <1>3 DEF MakeRoom
  <2>2. /\ Range(Q.lru) = Q.tree /\ IsInjective(Q.lru)
        /\ Q.num_peers = Len(Q.lru) + 1 /\ Q.num_peers <= MaxPeers
        /\ \A x \in Addr \ Q.tree : Q.state[x] = ZeroPeer
    <3>1. Q.lru = P.lru /\ Q.tree = P.tree /\ Q.state = P.state
          /\ Q.num_peers = P.num_peers + 1
      BY <1>1
    <3>2. Q.num_peers <= MaxPeers
      BY <1>1, <1>3, MaxPeersAssumption
    <3> HIDE DEF Q
    <3> QED BY <3>1, <3>2 DEF ConsistentRegistry
  <2> HIDE DEF Q
  <2> QED BY <1>1, <1>4, <2>1, <2>2
<1> QED BY <1>2, <1>3

(* A change to the state of one registered peer keeps the registry         *)
(* consistent: update_peer's counters and the ninvalid++ of the callers.   *)
LEMMA StateLemma ==
    ASSUME NEW Q \in Registry, ConsistentRegistry(Q), NEW a \in Q.tree,
           NEW ps \in PeerState
    PROVE  /\ [Q EXCEPT !.state[a] = ps] \in Registry
           /\ ConsistentRegistry([Q EXCEPT !.state[a] = ps])
<1>1. [Q EXCEPT !.state[a] = ps] \in Registry
  BY DEF Registry
<1>2. /\ [Q EXCEPT !.state[a] = ps].lru = Q.lru
      /\ [Q EXCEPT !.state[a] = ps].tree = Q.tree
      /\ [Q EXCEPT !.state[a] = ps].num_peers = Q.num_peers
      /\ \A x \in Addr \ Q.tree : [Q EXCEPT !.state[a] = ps].state[x] = Q.state[x]
  BY DEF Registry
<1> QED BY <1>1, <1>2 DEF ConsistentRegistry

(* new_peer of an address find_peer did not find.                         *)
LEMMA NewPeerLemma ==
    ASSUME NEW P \in Registry, ConsistentRegistry(P),
           NEW a \in Addr, a \notin P.tree, NEW t \in Nat
    PROVE  /\ NewPeer(P, a, t) \in Registry
           /\ ConsistentRegistry(NewPeer(P, a, t))
<1> DEFINE R == MakeRoom(P)
           N == NewPeer(P, a, t)
<1>1. /\ R \in Registry
      /\ Range(R.lru) = R.tree
      /\ R.tree \subseteq P.tree
      /\ IsInjective(R.lru)
      /\ R.num_peers = Len(R.lru) + 1
      /\ R.num_peers <= MaxPeers
      /\ \A x \in Addr \ R.tree : R.state[x] = ZeroPeer
  BY MakeRoomLemma
<1> HIDE DEF R
<1>2. R.lru \in Seq(Addr) /\ a \notin Range(R.lru)
  BY <1>1 DEF Registry
<1>3. /\ <<a>> \o R.lru \in Seq(Addr)
      /\ Len(<<a>> \o R.lru) = Len(R.lru) + 1
      /\ Range(<<a>> \o R.lru) = Range(R.lru) \cup {a}
      /\ IsInjective(<<a>> \o R.lru)
  BY <1>1, <1>2, ConsLemma
<1>4. [ZeroPeer EXCEPT !.firstseen = t] \in PeerState
  BY DEF ZeroPeer, PeerState
<1>5. N = [R EXCEPT !.lru = <<a>> \o R.lru, !.tree = R.tree \cup {a},
                    !.state[a] = [ZeroPeer EXCEPT !.firstseen = t]]
  BY DEF NewPeer, R
<1>6. N \in Registry
  <2>1. /\ R.tree \cup {a} \in SUBSET Addr
        /\ [R.state EXCEPT ![a] = [ZeroPeer EXCEPT !.firstseen = t]] \in [Addr -> PeerState]
    BY <1>1, <1>4 DEF Registry
  <2> QED BY <1>1, <1>3, <2>1, <1>5 DEF Registry
<1>7. /\ N.lru = <<a>> \o R.lru /\ N.tree = R.tree \cup {a}
      /\ N.num_peers = R.num_peers
      /\ \A x \in Addr \ N.tree : N.state[x] = R.state[x]
  BY <1>1, <1>5 DEF Registry
<1> HIDE DEF N
<1>8. /\ Range(N.lru) = N.tree
      /\ IsInjective(N.lru)
      /\ N.num_peers = Len(N.lru)
      /\ N.num_peers <= MaxPeers
      /\ \A x \in Addr \ N.tree : N.state[x] = ZeroPeer
  BY <1>1, <1>3, <1>7
<1> QED BY <1>6, <1>8 DEF ConsistentRegistry, N

(* update_peer's second half: the counters of peer a.                    *)
UpdatedState(Q, a, n, v, t) ==
    [Q EXCEPT !.state[a].lastvalid = t, !.state[a].nflows = @ + n,
              !.state[a].npackets = @ + 1, !.state[a].last_version = v]

LEMMA UpdatedStateLemma ==
    ASSUME NEW Q \in Registry, ConsistentRegistry(Q), NEW a \in Q.tree,
           NEW n \in Nat, NEW v \in Nat, NEW t \in Nat
    PROVE  /\ UpdatedState(Q, a, n, v, t) \in Registry
           /\ ConsistentRegistry(UpdatedState(Q, a, n, v, t))
<1>1. Q.state[a] \in PeerState /\ a \in Addr
  BY DEF Registry
<1>2. [Q.state[a] EXCEPT !.lastvalid = t, !.nflows = @ + n,
                         !.npackets = @ + 1, !.last_version = v] \in PeerState
  <2>1. Q.state[a].nflows + n \in Nat /\ Q.state[a].npackets + 1 \in Nat
    BY <1>1 DEF PeerState
  <2> QED BY <1>1, <2>1 DEF PeerState
<1>3. UpdatedState(Q, a, n, v, t)
        = [Q EXCEPT !.state[a] = [Q.state[a] EXCEPT !.lastvalid = t, !.nflows = @ + n,
                                                   !.npackets = @ + 1, !.last_version = v]]
  BY DEF UpdatedState
<1> QED BY <1>2, <1>3, StateLemma

(* update_peer's first half: the peer moved to the head of the LRU list.  *)
MovedToHead(P, a) ==
    IF P.lru[1] # a THEN [P EXCEPT !.lru = <<a>> \o TailqRemove(P, a)] ELSE P

(* update_peer of a registered peer, its move to the LRU head included.   *)
LEMMA UpdatePeerLemma ==
    ASSUME NEW P \in Registry, ConsistentRegistry(P), NEW a \in P.tree,
           NEW n \in Nat, NEW v \in Nat, NEW t \in Nat
    PROVE  /\ UpdatePeer(P, a, n, v, t) \in Registry
           /\ ConsistentRegistry(UpdatePeer(P, a, n, v, t))
<1> DEFINE Q == MovedToHead(P, a)
<1>1. Q \in Registry /\ ConsistentRegistry(Q) /\ Q.tree = P.tree /\ Q.state = P.state
  <2>1. CASE P.lru[1] # a
    <3> DEFINE s == TailqRemove(P, a)
    <3>2. P.lru \in Seq(Addr) /\ IsInjective(P.lru) /\ a \in Range(P.lru) /\ a \in Addr
      BY DEF Registry, ConsistentRegistry
    <3>3. /\ s \in Seq(Addr)
          /\ Len(s) = Len(P.lru) - 1
          /\ Range(s) = Range(P.lru) \ {a}
          /\ IsInjective(s)
      BY <3>2, TailqRemoveLemma
    <3>4. /\ <<a>> \o s \in Seq(Addr)
          /\ Len(<<a>> \o s) = Len(s) + 1
          /\ Range(<<a>> \o s) = Range(s) \cup {a}
          /\ IsInjective(<<a>> \o s)
      BY <3>2, <3>3, ConsLemma
    <3>5. Q = [P EXCEPT !.lru = <<a>> \o s]
      BY <2>1 DEF MovedToHead
    <3> HIDE DEF s, Q
    <3>6. Q \in Registry /\ Q.lru = <<a>> \o s /\ Q.tree = P.tree /\ Q.state = P.state
          /\ Q.num_peers = P.num_peers
      BY <3>4, <3>5 DEF Registry
    <3>7. Len(P.lru) \in Nat
      BY <3>2
    <3>8. Range(Q.lru) = Q.tree
      BY <3>2, <3>3, <3>4, <3>6 DEF ConsistentRegistry
    <3>9. Q.num_peers = Len(Q.lru) /\ Q.num_peers <= MaxPeers
      BY <3>3, <3>4, <3>6, <3>7 DEF ConsistentRegistry
    <3>10. \A x \in Addr \ Q.tree : Q.state[x] = ZeroPeer
      BY <3>6 DEF ConsistentRegistry
    <3> QED BY <3>4, <3>6, <3>8, <3>9, <3>10 DEF ConsistentRegistry
  <2>2. CASE ~(P.lru[1] # a)
    BY <2>2 DEF MovedToHead
  <2> QED BY <2>1, <2>2
<1>2. UpdatePeer(P, a, n, v, t) = UpdatedState(Q, a, n, v, t)
  BY DEF UpdatePeer, MovedToHead, UpdatedState
<1>3. a \in Q.tree
  BY <1>1
<1> HIDE DEF Q
<1> QED BY <1>1, <1>2, <1>3, UpdatedStateLemma

(* ninvalid++ of a registered peer.                                        *)
LEMMA CountInvalidLemma ==
    ASSUME NEW P \in Registry, ConsistentRegistry(P), NEW a \in P.tree
    PROVE  /\ CountInvalid(P, a) \in Registry
           /\ ConsistentRegistry(CountInvalid(P, a))
<1>1. CountInvalid(P, a) = [P EXCEPT !.state[a] = [P.state[a] EXCEPT !.ninvalid = @ + 1]]
  BY DEF CountInvalid
<1>2. P.state[a] \in PeerState
  BY DEF Registry
<1>3. [P.state[a] EXCEPT !.ninvalid = @ + 1] \in PeerState
  BY <1>2 DEF PeerState
<1> QED BY <1>1, <1>3, StateLemma

-----------------------------------------------------------------------------
(***************************************************************************)
(* The LRU list ordered by a recency stamp f: the list operations keep it *)
(* ordered.                                                                *)
(***************************************************************************)

(* Elements nearer the head of s have larger stamps.                      *)
Decreasing(s, f) == \A i, j \in 1..Len(s) : i < j => f[s[i]] > f[s[j]]

(* TAILQ_REMOVE keeps the order of the remaining elements.                *)
LEMMA RemoveAtOrderLemma ==
    ASSUME NEW S, NEW s \in Seq(S), IsInjective(s), NEW i \in 1..Len(s),
           NEW f, Decreasing(s, f)
    PROVE  Decreasing(RemoveAt(s, i), f)
<1>1. /\ Len(RemoveAt(s, i)) = Len(s) - 1
      /\ \A k \in 1..Len(s) - 1 : RemoveAt(s, i)[k] = IF k < i THEN s[k] ELSE s[k + 1]
  BY RemoveAtLemma
<1> SUFFICES ASSUME NEW k \in 1..Len(s) - 1, NEW l \in 1..Len(s) - 1, k < l
             PROVE  f[RemoveAt(s, i)[k]] > f[RemoveAt(s, i)[l]]
  BY <1>1 DEF Decreasing
<1> DEFINE ik == IF k < i THEN k ELSE k + 1
           il == IF l < i THEN l ELSE l + 1
<1>2. /\ RemoveAt(s, i)[k] = s[ik] /\ RemoveAt(s, i)[l] = s[il]
      /\ ik \in 1..Len(s) /\ il \in 1..Len(s) /\ ik < il
  BY <1>1
<1> QED BY <1>2 DEF Decreasing

(* TAILQ_INSERT_HEAD of an element with a larger stamp than every listed  *)
(* one keeps the list ordered.                                             *)
LEMMA ConsOrderLemma ==
    ASSUME NEW S, NEW s \in Seq(S), NEW a \in S, NEW f, Decreasing(s, f),
           \A k \in 1..Len(s) : f[a] > f[s[k]]
    PROVE  Decreasing(<<a>> \o s, f)
<1>1. /\ Len(<<a>> \o s) = Len(s) + 1
      /\ (<<a>> \o s)[1] = a
      /\ \A k \in 2..Len(s) + 1 : (<<a>> \o s)[k] = s[k - 1]
  <2>1. <<a>> \in Seq(S) /\ Len(<<a>>) = 1
    OBVIOUS
  <2> QED BY <2>1, ConcatProperties
<1> SUFFICES ASSUME NEW k \in 1..Len(s) + 1, NEW l \in 1..Len(s) + 1, k < l
             PROVE  f[(<<a>> \o s)[k]] > f[(<<a>> \o s)[l]]
  BY <1>1 DEF Decreasing
<1>2. CASE k = 1
  BY <1>1, <1>2
<1>3. CASE k > 1
  BY <1>1, <1>3 DEF Decreasing
<1> QED BY <1>2, <1>3

(* Stamps that change only off the list leave the order alone.            *)
LEMMA OrderFrameLemma ==
    ASSUME NEW s, NEW f, NEW g, Decreasing(s, f),
           \A k \in 1..Len(s) : g[s[k]] = f[s[k]]
    PROVE  Decreasing(s, g)
BY DEF Decreasing

(* TAILQ_REMOVE of a listed peer keeps the order of the others.           *)
LEMMA TailqRemoveOrderLemma ==
    ASSUME NEW P, P.lru \in Seq(Addr), IsInjective(P.lru), NEW a \in Range(P.lru),
           NEW f, Decreasing(P.lru, f)
    PROVE  Decreasing(TailqRemove(P, a), f)
<1>1. PosInList(P, a) \in 1..Len(P.lru)
  BY PosLemma
<1>2. TailqRemove(P, a) = RemoveAt(P.lru, PosInList(P, a))
  BY DEF TailqRemove, RemoveAt
<1> QED BY <1>1, <1>2, RemoveAtOrderLemma
-----------------------------------------------------------------------------
(***************************************************************************)
(* new_peer field by field: what the tree, the per-peer state and the     *)
(* counters become, with and without the forced deletion.                 *)
(***************************************************************************)

(* TAILQ_LAST(&peers->peer_list, peer_list).                              *)
LastPeer(P) == P.lru[Len(P.lru)]

(* The state calloc and gettimeofday give a new peer.                     *)
FreshPeer(t) == [ZeroPeer EXCEPT !.firstseen = t]

(* The per-peer state after new_peer, without and with a forced deletion. *)
AddedState(S, a, t) == [S EXCEPT ![a] = FreshPeer(t)]

EvictedState(S, e, a, t) == [S EXCEPT ![e] = ZeroPeer, ![a] = FreshPeer(t)]

(* new_peer once room is made: the fields of the registry it returns.    *)
LEMMA NewPeerShapeLemma ==
    ASSUME NEW P, MakeRoom(P) \in Registry, NEW a, NEW t
    PROVE  /\ NewPeer(P, a, t).lru = <<a>> \o MakeRoom(P).lru
           /\ NewPeer(P, a, t).tree = MakeRoom(P).tree \cup {a}
           /\ NewPeer(P, a, t).state = AddedState(MakeRoom(P).state, a, t)
           /\ NewPeer(P, a, t).num_peers = MakeRoom(P).num_peers
           /\ NewPeer(P, a, t).num_forced = MakeRoom(P).num_forced
<1>1. NewPeer(P, a, t).lru = <<a>> \o MakeRoom(P).lru
  BY Zenon DEF NewPeer, Registry, PeerState
<1>2. NewPeer(P, a, t).tree = MakeRoom(P).tree \cup {a}
  BY Zenon DEF NewPeer, Registry, PeerState
<1>3. NewPeer(P, a, t).state = AddedState(MakeRoom(P).state, a, t)
  BY Zenon DEF NewPeer, Registry, PeerState, AddedState, FreshPeer
<1>4. NewPeer(P, a, t).num_peers = MakeRoom(P).num_peers
  BY Zenon DEF NewPeer, Registry, PeerState
<1>5. NewPeer(P, a, t).num_forced = MakeRoom(P).num_forced
  BY Zenon DEF NewPeer, Registry, PeerState
<1> QED BY <1>1, <1>2, <1>3, <1>4, <1>5

LEMMA NewPeerRoomLemma ==
    ASSUME NEW P \in Registry, NEW a \in Addr, NEW t \in Nat,
           P.num_peers + 1 <= MaxPeers
    PROVE  /\ NewPeer(P, a, t).lru = <<a>> \o P.lru
           /\ NewPeer(P, a, t).tree = P.tree \cup {a}
           /\ NewPeer(P, a, t).state = AddedState(P.state, a, t)
           /\ NewPeer(P, a, t).num_peers = P.num_peers + 1
           /\ NewPeer(P, a, t).num_forced = P.num_forced
<1> DEFINE Q == [P EXCEPT !.num_peers = @ + 1]
<1>1. /\ Q.lru = P.lru /\ Q.tree = P.tree /\ Q.state = P.state
      /\ Q.num_peers = P.num_peers + 1 /\ Q.num_forced = P.num_forced
      /\ Q \in Registry
  BY DEF Registry
<1> HIDE DEF Q
<1>2. MakeRoom(P) = Q
  <2>1. ~(Q.num_peers > MaxPeers)
    BY <1>1, MaxPeersAssumption DEF Registry
  <2> QED BY <2>1, Zenon DEF MakeRoom, Q
<1> QED BY <1>1, <1>2, NewPeerShapeLemma

LEMMA NewPeerEvictLemma ==
    ASSUME NEW P \in Registry, ConsistentRegistry(P), NEW a \in Addr, NEW t \in Nat,
           P.num_peers + 1 > MaxPeers
    PROVE  /\ LastPeer(P) \in P.tree
           /\ Len(P.lru) \in 1..Len(P.lru)
           /\ NewPeer(P, a, t).lru = <<a>> \o TailqRemove(P, LastPeer(P))
           /\ NewPeer(P, a, t).tree = (P.tree \ {LastPeer(P)}) \cup {a}
           /\ NewPeer(P, a, t).state = EvictedState(P.state, LastPeer(P), a, t)
           /\ NewPeer(P, a, t).num_peers = P.num_peers
           /\ NewPeer(P, a, t).num_forced = P.num_forced + 1
<1> DEFINE Q == [P EXCEPT !.num_peers = @ + 1]
           Q2 == [Q EXCEPT !.num_forced = @ + 1]
           e == LastPeer(P)
<1>1. /\ P.lru \in Seq(Addr) /\ P.num_peers \in Nat /\ P.num_forced \in Nat
      /\ Q2.lru = P.lru /\ Q2.tree = P.tree /\ Q2.state = P.state
      /\ Q2.num_peers = P.num_peers + 1 /\ Q2.num_forced = P.num_forced + 1
      /\ Q.lru = P.lru /\ Q.num_peers = P.num_peers + 1
  BY DEF Registry
<1> HIDE DEF Q, Q2
<1>2. Len(P.lru) \in 1..Len(P.lru) /\ e \in P.tree
  BY <1>1, MaxPeersAssumption DEF ConsistentRegistry, LastPeer, Range
<1>3. MakeRoom(P) = DeletePeer(Q2, e)
  <2>1. Q.num_peers > MaxPeers /\ Q.lru[Len(Q.lru)] = e
    BY <1>1 DEF LastPeer
  <2> QED BY <2>1, Zenon DEF MakeRoom, Q, Q2
<1>4. TailqRemove(Q2, e) = TailqRemove(P, e)
  BY <1>1 DEF TailqRemove, PosInList
<1> DEFINE D == DeletePeer(Q2, e)
<1>5. /\ D.lru = TailqRemove(P, e) /\ D.tree = P.tree \ {e}
      /\ D.state = [P.state EXCEPT ![e] = ZeroPeer]
      /\ D.num_peers = P.num_peers /\ D.num_forced = P.num_forced + 1
  BY <1>1, <1>4 DEF DeletePeer
<1>6. MakeRoom(P) = D /\ D \in Registry
  BY <1>3, MakeRoomLemma
<1> HIDE DEF D
<1>7. AddedState(D.state, a, t) = EvictedState(P.state, e, a, t)
  BY <1>5 DEF AddedState, EvictedState
<1> QED BY <1>2, <1>5, <1>6, <1>7, NewPeerShapeLemma

(* The per-peer state after update_peer's and the callers' counters.      *)
TouchedState(S, a, n, v, t) ==
    [S EXCEPT ![a].lastvalid = t, ![a].nflows = @ + n,
              ![a].npackets = @ + 1, ![a].last_version = v]

InvalidState(S, a) == [S EXCEPT ![a].ninvalid = @ + 1]

(* update_peer field by field: the list as MovedToHead leaves it, and the *)
(* four counters of the peer.                                              *)
LEMMA UpdatePeerFieldsLemma ==
    ASSUME NEW P \in Registry, NEW a \in Addr, NEW n, NEW v, NEW t
    PROVE  /\ UpdatePeer(P, a, n, v, t).lru = MovedToHead(P, a).lru
           /\ UpdatePeer(P, a, n, v, t).tree = P.tree
           /\ UpdatePeer(P, a, n, v, t).num_peers = P.num_peers
           /\ UpdatePeer(P, a, n, v, t).num_forced = P.num_forced
           /\ UpdatePeer(P, a, n, v, t).state = TouchedState(P.state, a, n, v, t)
<1> DEFINE Q == MovedToHead(P, a)
<1>1. /\ Q.tree = P.tree /\ Q.state = P.state
      /\ Q.num_peers = P.num_peers /\ Q.num_forced = P.num_forced
  BY DEF MovedToHead, Registry
<1>2. UpdatePeer(P, a, n, v, t) = UpdatedState(Q, a, n, v, t)
  BY DEF UpdatePeer, MovedToHead, UpdatedState
<1> HIDE DEF Q
<1>3. /\ UpdatedState(Q, a, n, v, t).lru = Q.lru
      /\ UpdatedState(Q, a, n, v, t).tree = Q.tree
      /\ UpdatedState(Q, a, n, v, t).num_peers = Q.num_peers
      /\ UpdatedState(Q, a, n, v, t).num_forced = Q.num_forced
      /\ UpdatedState(Q, a, n, v, t).state =
            [Q.state EXCEPT ![a].lastvalid = t, ![a].nflows = @ + n,
                            ![a].npackets = @ + 1, ![a].last_version = v]
  BY <1>1 DEF UpdatedState
<1> QED BY <1>1, <1>2, <1>3 DEF Q, TouchedState

(* The ninvalid++ of the callers, field by field.                          *)
LEMMA CountInvalidFieldsLemma ==
    ASSUME NEW P \in Registry, NEW a \in Addr
    PROVE  /\ CountInvalid(P, a).lru = P.lru
           /\ CountInvalid(P, a).tree = P.tree
           /\ CountInvalid(P, a).num_peers = P.num_peers
           /\ CountInvalid(P, a).num_forced = P.num_forced
           /\ CountInvalid(P, a).state = InvalidState(P.state, a)
BY DEF CountInvalid, Registry, InvalidState
=============================================================================
