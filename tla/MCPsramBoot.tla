---------------------------- MODULE MCPsramBoot ----------------------------
(* TLC instance of PsramBoot: a chip of each density the code decodes, and   *)
(* none (the bus floats high); a kernel that fits the larger of them, and    *)
(* one whose size wraps around with the tree's.                              *)
EXTENDS PsramBoot

Fitted == [kgd : {93}, eid : {38, 70, 0, 32, 96}] \cup [kgd : {255}, eid : {255}]
Sizes == {0, 1, 2, 4, 8}
Payloads == {[fdtMagic |-> TRUE, fdtSize |-> <<0, 0, 0, 1>>, imageMagic |-> m,
              imageSize |-> <<0, 1, 0, 0, 0, 0, 0, 0>>] : m \in BOOLEAN}
            \cup {[fdtMagic |-> TRUE, fdtSize |-> <<0, 0, 0, 1>>, imageMagic |-> TRUE,
                   imageSize |-> <<1, 1, 1, 1, 0, 0, 0, 0>>]}
=============================================================================
