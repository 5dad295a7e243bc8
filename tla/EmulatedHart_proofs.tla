------------------------ MODULE EmulatedHart_proofs ------------------------
(***************************************************************************)
(* Theorems about EmulatedHart, for every width and number of registers and *)
(* every memory: where nothing but what do_atomic knows is executed         *)
(* (Emulated), a trap does to registers and memory what the instruction    *)
(* would have done.                                                        *)
(***************************************************************************)
EXTENDS EmulatedHart, TLAPS

Emulated == Funct \subseteq {"lr", "sc", "swap", "add", "xor", "and", "or"}

\* In pt_regs the registers are as they were, and epc is where x0 would be.
IInv ==
  /\ mode \in {"run", "trap", "ret", "dead"}
  /\ insn \in Insn
  /\ reg = [r \in Reg |-> reg[r]] /\ reg[0] = 0
  /\ mem = [a \in Addr |-> mem[a]]
  /\ regs = [r \in Reg |-> regs[r]]
  /\ mode = "trap" => regs = [reg EXCEPT ![0] = pc]
  /\ mode = "trap" /\ insn.opcode = "amo" => reg[insn.rs1] \in Addr

-----------------------------------------------------------------------------
(* Lemmas                                                                  *)

\* do_atomic reads from pt_regs what the instruction would have read.
LEMMA SavedAreRead ==
  ASSUME IInv, mode = "trap", NEW n \in Reg
  PROVE  Get(regs, n) = reg[n]
  BY HartAssumption DEF Get, IInv

\* Bits are bits on either side.
LEMMA SameBits ==
  ASSUME NEW w PROVE BitsOf(w) = Ideal!BitsOf(w)
  BY DEF BitsOf, Ideal!BitsOf

\* And so are words.
LEMMA SameWord ==
  ASSUME NEW S PROVE WordOf(S) = Ideal!WordOf(S)
  BY SameBits DEF WordOf, Ideal!WordOf, Word, Ideal!Word, Size, Ideal!Size

\* The switch of do_atomic computes what the instruction set defines, as far
\* as it has a case.
LEMMA SwitchIsIsa ==
  ASSUME NEW funct \in {"lr", "sc", "swap", "add", "xor", "and", "or"},
         NEW old, NEW rs2
  PROVE  NewWord(funct, old, rs2) = Ideal!Written(funct, old, rs2)
<1>1. (BitsOf(old) \ BitsOf(rs2)) \cup (BitsOf(rs2) \ BitsOf(old))
        = (BitsOf(old) \cup BitsOf(rs2)) \ (BitsOf(old) \cap BitsOf(rs2))
  OBVIOUS
<1>2. CASE funct = "lr"
  BY <1>2 DEF NewWord, Ideal!Written
<1>3. CASE funct \in {"sc", "swap"}
  BY <1>3 DEF NewWord, Ideal!Written
<1>4. CASE funct = "add"
  BY <1>4 DEF NewWord, Ideal!Written, Size, Ideal!Size
<1>5. CASE funct = "xor"
  BY <1>1, <1>5, SameBits, SameWord DEF NewWord, Ideal!Written
<1>6. CASE funct = "and"
  BY <1>6, SameBits, SameWord DEF NewWord, Ideal!Written
<1>7. CASE funct = "or"
  BY <1>7, SameBits, SameWord DEF NewWord, Ideal!Written
<1> QED
  BY <1>2, <1>3, <1>4, <1>5, <1>6, <1>7

\* Every step keeps the invariant.
LEMMA Preserved == ASSUME IInv, [Next]_vars PROVE IInv'
<1> USE HartAssumption DEF IInv
<1>1. ASSUME NEW i \in Insn, Fault(i) PROVE IInv'
  <2>1. i.opcode = "amo" => Get(reg, i.rs1) = reg[i.rs1]
    BY DEF Get
  <2> QED
    BY <1>1, <2>1 DEF Fault
<1>2. CASE Emulate
  BY <1>2 DEF Emulate, Put
<1>3. CASE Die
  BY <1>3 DEF Die
<1>4. CASE ReturnFromException
  BY <1>4 DEF ReturnFromException
<1>5. CASE UNCHANGED vars
  BY <1>5 DEF vars
<1> QED
  BY <1>1, <1>2, <1>3, <1>4, <1>5 DEF Next

-----------------------------------------------------------------------------
(* Steps of the ideal hart                                                 *)

IdealReg == IF mode = "ret" THEN [regs EXCEPT ![0] = 0] ELSE reg
IdealPc == IF mode = "ret" THEN regs[0] ELSE pc

\* The emulation of one instruction is its execution.
LEMMA EmulateExecutes ==
  ASSUME Emulated, IInv, Emulate
  PROVE  Ideal!Execute
<1> DEFINE dst == Get(regs, insn.rs1)
           rs2 == Get(regs, insn.rs2)
           loaded == Put(regs, insn.rd, mem[dst])
           done == IF insn.funct = "sc" THEN Put(loaded, insn.rd, 0) ELSE loaded
           result == IF insn.funct = "sc" THEN 0 ELSE mem[dst]
<1> USE HartAssumption
<1>1. insn \in Amo
  BY DEF Emulate, IInv, Insn, OtherOp
<1>2. insn.rd \in Reg /\ insn.rs1 \in Reg /\ insn.rs2 \in Reg
  BY <1>1 DEF Amo
<1>3. insn.funct \in {"lr", "sc", "swap", "add", "xor", "and", "or"}
  BY <1>1 DEF Amo, Emulated
<1>4. mode = "trap" /\ mode' = "ret" /\ insn.opcode = "amo" /\ insn' = insn
  BY DEF Emulate
<1>5. dst = reg[insn.rs1] /\ rs2 = reg[insn.rs2] /\ dst \in Addr
  BY <1>2, <1>4, SavedAreRead DEF IInv
<1>6. mem' = [mem EXCEPT ![dst] = Ideal!Written(insn.funct, @, rs2)]
  <2>1. mem' = [mem EXCEPT ![dst] = NewWord(insn.funct, @, rs2)]
    BY DEF Emulate
  <2>2. NewWord(insn.funct, mem[dst], rs2) = Ideal!Written(insn.funct, mem[dst], rs2)
    BY <1>3, SwitchIsIsa
  <2> HIDE DEF dst, rs2
  <2> QED
    BY <2>1, <2>2
<1>7. regs' = [done EXCEPT ![0] = (@ + 1) % Size]
  BY DEF Emulate
<1>8. done = IF insn.rd = 0 THEN regs ELSE [regs EXCEPT ![insn.rd] = result]
  BY <1>2 DEF Put, IInv
<1>9. regs = [reg EXCEPT ![0] = pc] /\ reg = [r \in Reg |-> reg[r]] /\ reg[0] = 0
  BY <1>4 DEF IInv
<1> HIDE DEF dst, rs2, loaded, done, result
<1>10. IdealPc' = (IdealPc + 1) % Ideal!Size
  <2>1. done[0] = pc
    BY <1>2, <1>8, <1>9
  <2>2. regs'[0] = (pc + 1) % Size
    BY <1>2, <1>7, <1>8, <1>9, <2>1
  <2> QED
    BY <1>4, <2>2 DEF IdealPc, Size, Ideal!Size
<1>11. IdealReg' = IF insn.rd = 0 THEN IdealReg ELSE [IdealReg EXCEPT ![insn.rd] = result]
  BY <1>2, <1>4, <1>7, <1>8, <1>9 DEF IdealReg
<1>12. IdealReg = reg
  BY <1>4 DEF IdealReg
<1> QED
  BY <1>4, <1>5, <1>6, <1>10, <1>11, <1>12 DEF Ideal!Execute, IdealReg, IdealPc, result

\* Every step is a step of the ideal hart or leaves it alone.
LEMMA IdealStep == ASSUME Emulated, IInv, [Next]_vars PROVE [Ideal!Next]_(Ideal!vars)
<1>1. ASSUME NEW i \in Insn, Fault(i) PROVE Ideal!Fetch
  BY <1>1 DEF Fault, Ideal!Fetch
<1>2. CASE Emulate
  BY <1>2, EmulateExecutes DEF Ideal!Next
<1>3. CASE Die
  BY <1>3 DEF Die, Ideal!vars
<1>4. CASE ReturnFromException
  BY <1>4 DEF ReturnFromException, Ideal!vars
<1>5. CASE UNCHANGED vars
  BY <1>5 DEF vars, Ideal!vars
<1> QED
  BY <1>1, <1>2, <1>3, <1>4, <1>5 DEF Next, Ideal!Next

-----------------------------------------------------------------------------
(* Theorems                                                                *)

\* Whatever faults and with whatever registers, pt_regs holds what is needed.
THEOREM Inductive == Spec => []IInv
<1>1. Init => IInv
  BY HartAssumption DEF Init, IInv, Insn
<1>2. IInv /\ [Next]_vars => IInv'
  BY Preserved
<1> QED
  BY <1>1, <1>2, PTL DEF Spec

\* Without the operations that do_atomic does not know, min and max, the
\* emulation is the instruction set's execution, for registers of any width
\* and every coincidence of rd, rs1, rs2 and x0.
THEOREM EmulatesIsaWithoutMinMax == Emulated => (Spec => EmulatesIsa)
<1> SUFFICES ASSUME Emulated PROVE Spec => EmulatesIsa
  OBVIOUS
<1>1. Init => Ideal!Init
  BY DEF Init, Ideal!Init, Word, Ideal!Word, Size, Ideal!Size
<1>2. IInv /\ [Next]_vars => [Ideal!Next]_(Ideal!vars)
  BY IdealStep
<1>3. Spec => []IInv
  BY Inductive
<1> QED
  BY <1>1, <1>2, <1>3, PTL DEF Spec, EmulatesIsa, Ideal!Spec
=============================================================================
