----------------------------- MODULE MCMemOps -----------------------------
(* TLC instance of MemOps: bytes on both sides of the sign, an int that does *)
(* not fit in a byte.                                                        *)
EXTENDS MemOps

Bytes == {0, 127, 128}
Vals == {128, 256}
=============================================================================
