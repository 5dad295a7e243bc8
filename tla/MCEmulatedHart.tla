--------------------------- MODULE MCEmulatedHart ---------------------------
(* TLC instances of EmulatedHart: x0 and two registers, so that rd, rs1 and *)
(* rs2 coincide in every way, and two words of 2 bits.                      *)
EXTENDS EmulatedHart

Emulated == {"lr", "sc", "swap", "add", "xor", "and", "or"}
MinMax == {"min", "max", "minu", "maxu"}
=============================================================================
