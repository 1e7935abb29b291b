-------------------------- MODULE MCNetflowDecode --------------------------
(***************************************************************************)
(* Checks the datagram checks of NetflowDecode over every datagram of up  *)
(* to MaxWire bytes whose header names a version in TestVersions and a    *)
(* flow count up to MaxCountField.  Each state is one datagram; nothing   *)
(* changes.                                                                *)
(***************************************************************************)
EXTENDS NetflowDecode

CONSTANTS TestVersions, MaxCountField, MaxWire

(* The header fields are u_int16_t read through ntohs and the size is a    *)
(* byte count: all are naturals.                                           *)
ASSUME DatagramAssumption ==
    TestVersions \subseteq Nat /\ MaxCountField \in Nat /\ MaxWire \in Nat

VARIABLE dg

Init == dg \in [version : TestVersions, nflows : 0..MaxCountField, size : 0..MaxWire]

Next == UNCHANGED dg

Spec == Init /\ [][Next]_dg

Len == Received(dg.size)

TypeOK == dg \in [version : Nat, nflows : Nat, size : Nat] /\ Len \in 0..BufSize

(* The decode loop of an accepted packet reads every record from inside   *)
(* the bytes recvfrom stored and after the version's header, so it never  *)
(* reads past the datagram or past buf[2048], and it hands process_flow   *)
(* exactly the nflows records that update_peer adds to the peer's nflows. *)
(* The checks of process_netflow_vx and the loop bounds together keep     *)
(* this.                                                                   *)
RecordsWithinDatagram ==
    LET v  == dg.version
        fl == FlowOffsets(v, dg.nflows)
    IN  Verdict(Len, v, dg.nflows) = "valid" =>
            /\ DOMAIN fl = 1..dg.nflows
            /\ \A i \in DOMAIN fl :
                  /\ HeaderSize(v) <= fl[i]
                  /\ fl[i] + RecordSize(v) <= Len
                  /\ Len <= BufSize

(* A datagram is accepted exactly when it is a well-formed v1, v5 or v7   *)
(* packet as sent (spec section 4.2 and its boundary cases: count 0 and   *)
(* max + 1 rejected, max accepted, length off by one rejected), judged on *)
(* the size on the wire: a datagram recvfrom truncated is never accepted. *)
AcceptsExactlyWellFormed ==
    (Verdict(Len, dg.version, dg.nflows) = "valid")
        <=> /\ dg.version \in {1, 5, 7}
            /\ dg.nflows \in 1..MaxFlows(dg.version)
            /\ dg.size = PacketSize(dg.version, dg.nflows)
=============================================================================
