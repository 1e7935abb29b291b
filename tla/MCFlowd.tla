------------------------------- MODULE MCFlowd -------------------------------
(***************************************************************************)
(* Small instances of Flowd for TLC.                                      *)
(***************************************************************************)
EXTENDS Flowd

CONSTANTS a1, a2

(* A valid v5 packet with one flow from a1 (24 + 48 bytes), and from a2   *)
(* a v5 packet one byte short and a packet of the unsupported version 9.  *)
MCDgrams ==
    { [src |-> a1, version |-> 5, nflows |-> 1, size |-> 72],
      [src |-> a2, version |-> 5, nflows |-> 1, size |-> 71],
      [src |-> a2, version |-> 9, nflows |-> 1, size |-> 72] }
=============================================================================
