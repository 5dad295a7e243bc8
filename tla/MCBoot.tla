------------------------------- MODULE MCBoot -------------------------------
(* TLC instances of Boot: PSRAM of every size the bootloader knows, in MiB, *)
(* and images that are missing, small, exactly as large as some PSRAM, or   *)
(* too large.  Bytes have one bit, so that a size_t has 4: images of 16 and *)
(* 17 are cut to 0 and 1, and those of 10 and 14 wrap around with trees of  *)
(* 6 and 2.  A tree's size reads otherwise in the other byte order.         *)
EXTENDS Boot

Bit(n, i) == (n \div 2^i) % 2
Fdt(n) == [i \in 1 .. 4 |-> Bit(n, 4 - i)]
Image(n) == [i \in 1 .. 8 |-> Bit(n, i - 1)]
Payloads == [fdtMagic : BOOLEAN, fdtSize : {Fdt(n) : n \in {0, 1, 2, 6}}, imageMagic : BOOLEAN,
             imageSize : {Image(n) : n \in {0, 1, 3, 7, 8, 10, 14, 16, 17}}]
Sizes == {0, 1, 2, 4, 8}
=============================================================================
