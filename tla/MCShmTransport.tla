----------------------------- MODULE MCShmTransport -----------------------------
(* Two processes: A with two handles, B with one. *)
EXTENDS ShmTransport

CONSTANTS A, B, a1, a2, b1

OwnerOf == [h \in {a1, a2, b1} |-> IF h = b1 THEN B ELSE A]
=============================================================================
