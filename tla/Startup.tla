------------------------------ MODULE Startup ------------------------------
(***************************************************************************)
(* The code from reset to main (rp2350-crt.S) over the memory that the      *)
(* linker script lays out (rp2350.lds).  It runs from flash, copies .data   *)
(* and then .text to RAM, clears .bss and calls the constructors and main.  *)
(*                                                                         *)
(* Addresses count words.  RAM starts with .text, flash is counted from its *)
(* copy of .text, and every section follows the one before it in both: no   *)
(* section needs more than word alignment.                                  *)
(***************************************************************************)
EXTENDS Integers

CONSTANTS
  Layout,    \* sizes of .text, of the two arrays, of .data with its padding, of .bss
  RamWords   \* words of RAM that the sections may use

ASSUME LayoutAssumption ==
  /\ RamWords \in Nat
  /\ Layout \subseteq [text : Nat, ctors : Nat, dtors : Nat,
                       data : Nat, pad : 0 .. 3, bss : Nat]
  /\ \A l \in Layout :
       l.text + l.ctors + l.dtors + l.data + l.pad + l.bss < RamWords

VARIABLES
  layout,
  pc,          \* the routine that runs, or main, halt, lost
  caller,      \* what the routine was called for
  a0, a1, a2,  \* its registers
  ram

vars == <<layout, pc, caller, a0, a1, a2, ram>>

Unknown == -1

\* The sections in RAM: > RAM.
TextStart == 0
TextEnd == layout.text
DataStart == TextEnd + layout.ctors + layout.dtors
DataEnd == DataStart + layout.data
BssStart == DataEnd + layout.pad
BssEnd == BssStart + layout.bss

\* Mutant: .data gets a more aligned place in flash than in RAM.
DataLoadStart_Aligned == ((DataStart + 4) \div 4) * 4

\* LOADADDR of the sections: AT > FLASH.
TextLoadStart == 0
DataLoadStart == DataStart

\* la, la, la, jal ra: the arguments of the next routine.
Jump(routine, for, x, y, z) ==
  /\ pc' = routine /\ caller' = for
  /\ a0' = x /\ a1' = y /\ a2' = z

-----------------------------------------------------------------------------

\* _reloc, from its entry and after each routine it calls.
Reloc ==
  /\ pc = "reloc"
  /\ \/ caller = "reset" /\ Jump("copy", "data", DataStart, DataEnd, DataLoadStart)
     \/ caller = "data"  /\ Jump("copy", "text", TextStart, TextEnd, TextLoadStart)
     \/ caller = "text"  /\ Jump("set", "bss", BssStart, BssEnd, 0)
     \/ caller = "bss"   /\ Jump("run_calls", "ctors", TextEnd, TextEnd + layout.ctors, a2)
  /\ UNCHANGED <<layout, ram>>

Return == pc' = "reloc" /\ UNCHANGED <<layout, caller, a0, a1, a2, ram>>

\* Mutant: the loops test at their end only.
Enter_DoWhile ==
  /\ pc \in {"copy", "set"}
  /\ pc' = IF pc = "copy" THEN "copy_loop" ELSE "set_loop"
  /\ UNCHANGED <<layout, caller, a0, a1, a2, ram>>

\* blt a0, a1: an empty section has nothing to do.
Enter ==
  /\ pc \in {"copy", "set"}
  /\ IF a0 < a1
     THEN /\ pc' = IF pc = "copy" THEN "copy_loop" ELSE "set_loop"
          /\ UNCHANGED <<layout, caller, a0, a1, a2, ram>>
     ELSE Return

\* One round of ._copy_loop.  It goes round once more when a0 has reached a1:
\* the word after the section is copied too.
CopyWord ==
  /\ pc = "copy_loop"
  /\ ram' = [ram EXCEPT ![a0] = a2]
  /\ a0' = a0 + 1
  /\ a2' = a2 + 1
  /\ pc' = IF a1 >= a0' THEN "copy_loop" ELSE "reloc"
  /\ UNCHANGED <<layout, caller, a1>>

\* One round of ._set_loop: it stores from address 0 up, which is not RAM, and
\* a0, which it compares, does not move.  The hart goes on (here for RamWords
\* rounds, to bound a2) or takes a fault.
SetWord ==
  /\ pc = "set_loop"
  /\ \/ a2 < RamWords /\ a2' = a2 + 1 /\ pc' = pc
     \/ a2' = a2 /\ pc' = "lost"
  /\ UNCHANGED <<layout, caller, a0, a1, ram>>

\* _run_calls: with no entries it returns; otherwise it calls through s2, which
\* nothing has set.
RunCalls ==
  /\ pc = "run_calls"
  /\ IF a0 < a1 THEN pc' = "lost"
     ELSE pc' = IF caller = "ctors" THEN "main" ELSE "halt"
  /\ UNCHANGED <<layout, caller, a0, a1, a2, ram>>

\* main returns: destructors, then the halt loop.
MainReturns ==
  /\ pc = "main"
  /\ Jump("run_calls", "dtors", TextEnd + layout.ctors, DataStart, a2)
  /\ UNCHANGED <<layout, ram>>

Init ==
  /\ layout \in Layout
  /\ pc = "reloc" /\ caller = "reset"
  /\ a0 = 0 /\ a1 = 0 /\ a2 = 0
  /\ ram = [n \in 0 .. RamWords - 1 |-> Unknown]

Next == Reloc \/ Enter \/ CopyWord \/ SetWord \/ RunCalls \/ MainReturns

Spec == Init /\ [][Next]_vars

-----------------------------------------------------------------------------
(* Properties                                                              *)

\* main finds .text and .data as they were linked, although both copies write
\* a word too many, .text's over what was already copied of .data.
MainSeesImage ==
  pc = "main" =>
    /\ \A n \in TextStart .. TextEnd - 1 : ram[n] = TextLoadStart + n
    /\ \A n \in DataStart .. DataEnd - 1 : ram[n] = DataLoadStart + (n - DataStart)
=============================================================================
