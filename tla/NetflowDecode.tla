--------------------------- MODULE NetflowDecode ---------------------------
(***************************************************************************)
(* The structural checks flowd applies to a received datagram before it   *)
(* extracts any flow: the common-header length check and version switch  *)
(* of process_input, and the three checks each of process_netflow_v1,    *)
(* _v5 and _v7 makes (header length, flow count, exact packet length).    *)
(* The packet geometry (header and record sizes, maximum flow counts)     *)
(* lives in netflow.h, which is not part of src/; it is taken from the    *)
(* canonical Cisco layouts the specification names.                     *)
(***************************************************************************)
EXTENDS Naturals

(* u_int8_t buf[2048] in process_input: recvfrom truncates to this.       *)
BufSize == 2048

(* sizeof(struct NF_HEADER_COMMON): 16-bit version, 16-bit flow count.    *)
CommonHeaderSize == 4

(* The versions with a decoder, and per version sizeof(NFx_HEADER),       *)
(* sizeof(NFx_FLOW) and NFx_MAXFLOWS.                                     *)
Decoded == {1, 5, 7}

HeaderSize(v) == CASE v = 1 -> 16 [] v = 5 -> 24 [] v = 7 -> 24

RecordSize(v) == CASE v = 1 -> 48 [] v = 5 -> 48 [] v = 7 -> 52

MaxFlows(v) == CASE v = 1 -> 24 [] v = 5 -> 30 [] v = 7 -> 28

(* NFx_PACKET_SIZE(n): also the offset of record n, as the decode loops   *)
(* use it.                                                                 *)
PacketSize(v, n) == HeaderSize(v) + n * RecordSize(v)

(* The length recvfrom returns for a datagram of `size` bytes.            *)
Received(size) == IF size > BufSize THEN BufSize ELSE size

(* The three checks of process_netflow_vx, each the negation of an early  *)
(* return that counts the packet invalid.                                  *)
HeaderOK(len, v) == ~(len < HeaderSize(v))

(* Fault model of the count check: NFx_MAXFLOWS off by one.               *)
CountOKOffByOne(v, n) == ~(n = 0 \/ n > MaxFlows(v) + 1)

CountOK(v, n) == ~(n = 0 \/ n > MaxFlows(v))

(* Fault model of the length check: one record too few expected.          *)
LengthOKOneShort(len, v, n) == len = PacketSize(v, n - 1)

LengthOK(len, v, n) == len = PacketSize(v, n)

(* The decode loops, run once the three checks passed: for i < nflows the *)
(* record at pkt + NFx_PACKET_SIZE(i) is copied field by field into a     *)
(* store_flow_complete that goes to process_flow.  The copied fields are  *)
(* data; a decoded flow is the offset its record is read from.            *)
FlowOffsetsV1(n) == [i \in 1..n |-> PacketSize(1, i - 1)]

FlowOffsetsV5(n) == [i \in 1..n |-> PacketSize(5, i - 1)]

(* Fault model of the v7 loop: i <= nflows, one record past the count.     *)
FlowOffsetsV7PastEnd(n) == [i \in 1..n + 1 |-> PacketSize(7, i - 1)]

FlowOffsetsV7(n) == [i \in 1..n |-> PacketSize(7, i - 1)]

(* The version switch of process_input, dispatching to the decoders.      *)
FlowOffsets(v, n) ==
    CASE v = 1 -> FlowOffsetsV1(n)
      [] v = 5 -> FlowOffsetsV5(n)
      [] v = 7 -> FlowOffsetsV7(n)

(* What process_input and the decoder it dispatches to make of a          *)
(* datagram of length len whose common header says version v and n flows *)
(* (both read through ntohs):                                              *)
(*   "short"       len < sizeof(struct NF_HEADER_COMMON): ninvalid++;     *)
(*   "unsupported" the default: branch of the version switch: logged only; *)
(*   "invalid"     one of the decoder's three checks failed: ninvalid++;   *)
(*   "valid"       update_peer, then one process_flow per record.          *)
Verdict(len, v, n) ==
    CASE len < CommonHeaderSize                                -> "short"
      [] v \notin Decoded                                      -> "unsupported"
      [] ~(HeaderOK(len, v) /\ CountOK(v, n) /\ LengthOK(len, v, n)) -> "invalid"
      [] OTHER                                                 -> "valid"
=============================================================================
