----------------------------- MODULE MCProgram -----------------------------
(* TLC instance of Program: every section empty, one word or more, every     *)
(* remainder of RAM modulo 16; for the SDK's build odd sizes too.  C code    *)
(* changes temporaries and argument registers in any mixture.                *)
EXTENDS Program

Layouts == {l \in [text : {0, 1, 3}, ctors : {0, 1}, dtors : {0, 1},
                   data : {0, 1, 2}, pad : 0 .. 3, bss : {0, 2}] :
              (l.text + l.ctors + l.dtors + l.data + l.pad) % 4 = 0}
Texts == {0, 4, 12}
Datas == {0, 4, 8, 12, 16, 9}
Trees == {25}
Clobbers == SUBSET {5, 10, 31}
=============================================================================
