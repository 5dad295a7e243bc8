---------------------------- MODULE EmulatedHart ----------------------------
(***************************************************************************)
(* The hart in the kernel, whose atomic instructions fault in PSRAM and are *)
(* emulated by do_trap_error (patch 0002): the trap saves the registers in  *)
(* pt_regs, do_atomic works on the saved copies, the return loads them.     *)
(*                                                                         *)
(* pt_regs is an array of words whose element 0 is epc, so that register n  *)
(* is element n, except x0 which has none.                                  *)
(***************************************************************************)
EXTENDS Integers

CONSTANTS
  Bits,    \* width of a register
  Reg,     \* register numbers, 0 among them
  Addr,    \* words of PSRAM
  Funct    \* the operations (irmid) that the executed code uses

Size == 2 ^ Bits
Word == 0 .. Size - 1
Amo == [opcode : {"amo"}, funct : Funct, rd : Reg, rs1 : Reg, rs2 : Reg]
OtherOp == [opcode |-> "other", funct |-> "none", rd |-> 0, rs1 |-> 0, rs2 |-> 0]
Insn == Amo \cup {OtherOp}

ASSUME HartAssumption == /\ Bits \in Nat \ {0}
                         /\ 0 \in Reg
                         /\ Reg \subseteq Nat
                         /\ Addr \subseteq Word

VARIABLES
  reg,    \* the registers
  mem,    \* PSRAM
  pc,     \* the instruction to execute, counted in instructions
  mode,   \* run, trap (in do_trap_error), ret (on its way back) or dead
  insn,   \* the instruction that faulted
  regs    \* struct pt_regs of the trap

vars == <<reg, mem, pc, mode, insn, regs>>

BitsOf(w) == {i \in 0 .. Bits - 1 : (w \div 2 ^ i) % 2 = 1}
WordOf(S) == CHOOSE w \in Word : BitsOf(w) = S

\* regs_get_register_p: a read through the pointer it returns.
Get(r, n) == IF n = 0 THEN 0 ELSE r[n]
\* Mutant: x0, in whose place epc is, is written too.
Put_X0(r, n, v) == [r EXCEPT ![n] = v]
\* if((op >> 7) & 0x1f) *rsd = v
Put(r, n, v) == IF n = 0 THEN r ELSE [r EXCEPT ![n] = v]

\* The switch of do_atomic; min and max fall to its default.
NewWord(funct, old, rs2) ==
  CASE funct \in {"sc", "swap"} -> rs2
    [] funct = "add" -> (old + rs2) % Size
    [] funct = "xor" -> WordOf((BitsOf(old) \ BitsOf(rs2)) \cup (BitsOf(rs2) \ BitsOf(old)))
    [] funct = "and" -> WordOf(BitsOf(old) \cap BitsOf(rs2))
    [] funct = "or"  -> WordOf(BitsOf(old) \cup BitsOf(rs2))
    [] OTHER         -> old

\* A kernel instruction that accesses PSRAM atomically, or otherwise faults.
Fault(i) ==
  /\ mode = "run"
  /\ i.opcode = "amo" => Get(reg, i.rs1) \in Addr
  /\ insn' = i
  /\ regs' = [reg EXCEPT ![0] = pc]
  /\ mode' = "trap"
  /\ UNCHANGED <<reg, mem, pc>>

\* do_exinsn, do_atomic, and epc += 4.  rs1 and rs2 are read before rd is
\* written, which may be one of them.
Emulate ==
  LET dst == Get(regs, insn.rs1)
      rs2 == Get(regs, insn.rs2)
      loaded == Put(regs, insn.rd, mem[dst])
      done == IF insn.funct = "sc" THEN Put(loaded, insn.rd, 0) ELSE loaded
  IN /\ mode = "trap"
     /\ insn.opcode = "amo"
     /\ mem' = [mem EXCEPT ![dst] = NewWord(insn.funct, @, rs2)]
     /\ regs' = [done EXCEPT ![0] = (@ + 1) % Size]
     /\ mode' = "ret"
     /\ UNCHANGED <<reg, pc, insn>>

\* Anything else goes to fixup_exception or die.
Die ==
  /\ mode = "trap"
  /\ insn.opcode # "amo"
  /\ mode' = "dead"
  /\ UNCHANGED <<reg, mem, pc, insn, regs>>

\* ret_from_exception.
ReturnFromException ==
  /\ mode = "ret"
  /\ reg' = [regs EXCEPT ![0] = 0]
  /\ pc' = regs[0]
  /\ mode' = "run"
  /\ UNCHANGED <<mem, insn, regs>>

Init == /\ reg \in [Reg -> Word] /\ reg[0] = 0
        /\ mem \in [Addr -> Word]
        /\ pc = 0
        /\ mode = "run"
        /\ insn = OtherOp
        /\ regs = [r \in Reg |-> 0]

Next == \/ \E i \in Insn : Fault(i)
        \/ Emulate
        \/ Die
        \/ ReturnFromException

Spec == Init /\ [][Next]_vars

-----------------------------------------------------------------------------
(* Properties                                                              *)

\* An instruction that is emulated and skipped has done to the registers and
\* to memory what the instruction set says.
Ideal == INSTANCE IsaHart
           WITH reg <- IF mode = "ret" THEN [regs EXCEPT ![0] = 0] ELSE reg,
                pc <- IF mode = "ret" THEN regs[0] ELSE pc,
                fetched <- mode \in {"trap", "dead"}
EmulatesIsa == Ideal!Spec
=============================================================================
