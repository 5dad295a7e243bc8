----------------------------- MODULE MCSession -----------------------------
(* TLC instance of Session: flash without a device tree, with only that, with *)
(* a kernel that fits, with one that does not and with one whose size wraps   *)
(* around with the tree's; PSRAM found or not.                                *)
EXTENDS Session

Bit(n, i) == (n \div 2^i) % 2
Holds(tree, kernel, size) ==
  [fdtMagic |-> tree, fdtSize |-> [i \in 1 .. 4 |-> Bit(1, 4 - i)],
   imageMagic |-> kernel, imageSize |-> [i \in 1 .. 8 |-> Bit(size, i - 1)]]
Payloads == {Holds(FALSE, FALSE, 0), Holds(TRUE, FALSE, 0), Holds(TRUE, TRUE, 1),
             Holds(TRUE, TRUE, 2), Holds(TRUE, TRUE, 15)}
=============================================================================
