------------------------- MODULE NetflowDecodeProofs -------------------------
(***************************************************************************)
(* Proofs that the datagram checks of process_input and                   *)
(* process_netflow_v1/_v5/_v7 accept exactly the well-formed packets and  *)
(* that the decode loops of an accepted packet read only inside it, for   *)
(* every version, flow count and size a datagram can carry, not only the  *)
(* ones MCNetflowDecode enumerates.                                        *)
(***************************************************************************)
EXTENDS MCNetflowDecode, TLAPS

(* The largest packet any decoder accepts is shorter than buf[2048], so a *)
(* datagram recvfrom truncated never has an accepted length.              *)
LEMMA PacketFitsBuffer ==
    ASSUME NEW v \in Decoded, NEW n \in 1..MaxFlows(v)
    PROVE  /\ PacketSize(v, n) \in Nat
           /\ PacketSize(v, n) < BufSize
           /\ HeaderSize(v) >= CommonHeaderSize
BY DEF Decoded, PacketSize, HeaderSize, RecordSize, MaxFlows, BufSize, CommonHeaderSize

(* The verdict on what recvfrom returned, in terms of the datagram.       *)
LEMMA VerdictValid ==
    ASSUME NEW v \in Nat, NEW n \in Nat, NEW size \in Nat
    PROVE  Verdict(Received(size), v, n) = "valid"
              <=> /\ v \in Decoded
                  /\ n \in 1..MaxFlows(v)
                  /\ size = PacketSize(v, n)
<1> DEFINE len == Received(size)
<1>1. len \in 0..BufSize /\ (size <= BufSize => len = size)
  BY DEF Received, BufSize
<1>2. CASE v \notin Decoded
  BY <1>2 DEF Verdict
<1>3. CASE v \in Decoded
  <2>1. Verdict(len, v, n) = "valid"
           <=> /\ ~(len < CommonHeaderSize)
               /\ HeaderOK(len, v) /\ CountOK(v, n) /\ LengthOK(len, v, n)
    BY <1>3 DEF Verdict
  <2>2. CountOK(v, n) <=> n \in 1..MaxFlows(v)
    BY <1>3 DEF CountOK, MaxFlows, Decoded
  <2>3. ASSUME n \in 1..MaxFlows(v)
        PROVE  (/\ ~(len < CommonHeaderSize) /\ HeaderOK(len, v)
                /\ LengthOK(len, v, n)) <=> size = PacketSize(v, n)
    <3>1. /\ PacketSize(v, n) \in Nat /\ PacketSize(v, n) < BufSize
          /\ HeaderSize(v) >= CommonHeaderSize
          /\ PacketSize(v, n) >= HeaderSize(v) /\ HeaderSize(v) \in Nat
      BY <1>3, <2>3, PacketFitsBuffer DEF PacketSize, HeaderSize, RecordSize, Decoded
    <3> QED BY <1>1, <3>1 DEF HeaderOK, LengthOK, Received, BufSize, CommonHeaderSize
  <2> QED BY <1>3, <2>1, <2>2, <2>3
<1> QED BY <1>2, <1>3
(* What the decode loop of version v reads when the checks passed.        *)
LEMMA OffsetsInside ==
    ASSUME NEW v \in Decoded, NEW n \in 1..MaxFlows(v)
    PROVE  /\ DOMAIN FlowOffsets(v, n) = 1..n
           /\ \A i \in 1..n :
                 /\ HeaderSize(v) <= FlowOffsets(v, n)[i]
                 /\ FlowOffsets(v, n)[i] + RecordSize(v) <= PacketSize(v, n)
<1>1. FlowOffsets(v, n) = [i \in 1..n |-> PacketSize(v, i - 1)]
  BY DEF Decoded, FlowOffsets, FlowOffsetsV1, FlowOffsetsV5, FlowOffsetsV7
<1>2. HeaderSize(v) \in Nat /\ RecordSize(v) \in Nat /\ n \in Nat
  BY DEF Decoded, HeaderSize, RecordSize, MaxFlows
<1>3. ASSUME NEW i \in 1..n
      PROVE  /\ HeaderSize(v) <= PacketSize(v, i - 1)
             /\ PacketSize(v, i - 1) + RecordSize(v) <= PacketSize(v, n)
  <2>1. (i - 1) * RecordSize(v) \in Nat /\ n * RecordSize(v) \in Nat
    BY <1>2
  <2>2. (i - 1) * RecordSize(v) + RecordSize(v) <= n * RecordSize(v)
    BY <1>2
  <2> QED BY <1>2, <2>1, <2>2 DEF PacketSize
<1> QED BY <1>1, <1>3

(* A datagram is a record of naturals: the inductive invariant, since a   *)
(* state is one datagram that never changes.                              *)
LEMMA TypeInvariant == Spec => []TypeOK
<1>1. Init => TypeOK
  <2> SUFFICES ASSUME Init PROVE TypeOK
    OBVIOUS
  <2>1. dg \in [version : Nat, nflows : Nat, size : Nat]
    <3>1. 0..MaxCountField \subseteq Nat /\ 0..MaxWire \subseteq Nat
      BY DatagramAssumption
    <3> QED BY <3>1, DatagramAssumption, Zenon DEF Init
  <2>2. Len \in 0..BufSize
    BY <2>1 DEF Len, Received, BufSize
  <2> QED BY <2>1, <2>2 DEF TypeOK
<1>2. TypeOK /\ [Next]_dg => TypeOK'
  BY DEF TypeOK, Next, Len, Received, BufSize
<1> QED BY <1>1, <1>2, PTL DEF Spec

(* For every datagram a peer can send, with any version, flow count and   *)
(* size: process_netflow_vx accepts it exactly when it is a well-formed    *)
(* v1, v5 or v7 packet as sent, and never after recvfrom truncated it.     *)
THEOREM AcceptsWellFormed == Spec => []AcceptsExactlyWellFormed
<1>1. TypeOK => AcceptsExactlyWellFormed
  BY VerdictValid DEF TypeOK, AcceptsExactlyWellFormed, Len, Decoded
<1> QED BY <1>1, TypeInvariant, PTL

(* For every datagram: the decode loop of an accepted packet reads its    *)
(* nflows records after the header and inside the bytes recvfrom stored,  *)
(* never past the datagram or buf[2048].                                   *)
THEOREM RecordsInside == Spec => []RecordsWithinDatagram
<1>1. TypeOK => RecordsWithinDatagram
  <2> SUFFICES ASSUME TypeOK,
                      Verdict(Len, dg.version, dg.nflows) = "valid"
               PROVE  LET fl == FlowOffsets(dg.version, dg.nflows)
                      IN  /\ DOMAIN fl = 1..dg.nflows
                          /\ \A i \in DOMAIN fl :
                                /\ HeaderSize(dg.version) <= fl[i]
                                /\ fl[i] + RecordSize(dg.version) <= Len
                                /\ Len <= BufSize
    BY DEF RecordsWithinDatagram
  <2>1. /\ dg.version \in Decoded /\ dg.nflows \in 1..MaxFlows(dg.version)
        /\ dg.size = PacketSize(dg.version, dg.nflows)
    BY VerdictValid DEF TypeOK, Len
  <2>2. PacketSize(dg.version, dg.nflows) \in Nat
        /\ PacketSize(dg.version, dg.nflows) < BufSize
    BY <2>1, PacketFitsBuffer
  <2>3. Len = PacketSize(dg.version, dg.nflows) /\ Len <= BufSize
    <3>1. ~(dg.size > BufSize)
      BY <2>1, <2>2 DEF BufSize
    <3>2. Len = dg.size
      BY <3>1 DEF Len, Received
    <3> QED BY <2>1, <2>2, <3>2 DEF BufSize
  <2> QED BY <2>1, <2>3, OffsetsInside
<1> QED BY <1>1, TypeInvariant, PTL
=============================================================================
