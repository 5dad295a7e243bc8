------------------------------ MODULE IsaHart ------------------------------
(***************************************************************************)
(* A hart that executes the A extension as the instruction set defines it,  *)
(* whatever memory it works on, except that sc always succeeds: the patch   *)
(* says so.  EmulatedHart is to behave like this one.                       *)
(***************************************************************************)
EXTENDS Integers

CONSTANTS Bits, Reg, Addr, Insn

VARIABLES
  reg, mem, pc,
  insn,   \* the instruction at pc, once it is fetched
  fetched

vars == <<reg, mem, pc, insn, fetched>>

Size == 2 ^ Bits
Word == 0 .. Size - 1
BitsOf(w) == {i \in 0 .. Bits - 1 : (w \div 2 ^ i) % 2 = 1}
WordOf(S) == CHOOSE w \in Word : BitsOf(w) = S
Signed(w) == IF w < Size \div 2 THEN w ELSE w - Size
MinBy(f(_), x, y) == IF f(x) <= f(y) THEN x ELSE y
MaxBy(f(_), x, y) == IF f(x) >= f(y) THEN x ELSE y
Unsigned(w) == w

\* What the instruction leaves in memory, given the old value and rs2.
Written(funct, old, operand) ==
  CASE funct = "lr"   -> old
    [] funct \in {"sc", "swap"} -> operand
    [] funct = "add"  -> (old + operand) % Size
    [] funct = "and"  -> WordOf(BitsOf(old) \cap BitsOf(operand))
    [] funct = "or"   -> WordOf(BitsOf(old) \cup BitsOf(operand))
    [] funct = "xor"  -> WordOf((BitsOf(old) \cup BitsOf(operand))
                                \ (BitsOf(old) \cap BitsOf(operand)))
    [] funct = "min"  -> MinBy(Signed, old, operand)
    [] funct = "max"  -> MaxBy(Signed, old, operand)
    [] funct = "minu" -> MinBy(Unsigned, old, operand)
    [] funct = "maxu" -> MaxBy(Unsigned, old, operand)

Init == /\ reg \in [Reg -> Word] /\ reg[0] = 0
        /\ mem \in [Addr -> Word]
        /\ pc = 0
        /\ ~fetched

Fetch == /\ ~fetched
         /\ insn' \in Insn
         /\ fetched' = TRUE
         /\ UNCHANGED <<reg, mem, pc>>

Execute ==
  LET a == reg[insn.rs1]
      result == IF insn.funct = "sc" THEN 0 ELSE mem[a]
  IN /\ fetched
     /\ insn.opcode = "amo"
     /\ mem' = [mem EXCEPT ![a] = Written(insn.funct, @, reg[insn.rs2])]
     /\ reg' = IF insn.rd = 0 THEN reg ELSE [reg EXCEPT ![insn.rd] = result]
     /\ pc' = (pc + 1) % Size
     /\ fetched' = FALSE
     /\ insn' = insn

Next == Fetch \/ Execute

Spec == Init /\ [][Next]_vars
=============================================================================
