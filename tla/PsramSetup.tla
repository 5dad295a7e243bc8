----------------------------- MODULE PsramSetup -----------------------------
(***************************************************************************)
(* setup_psram (qmi.c) against the two machines it talks to: the QMI, which *)
(* shifts queued frames while the driver runs on, and the PSRAM chip, which *)
(* keeps its SPI or QPI mode when the RP2350 restarts without a power cycle.*)
(*                                                                         *)
(* The driver is straight-line code but for one early return, so it is a    *)
(* sequence of register accesses, and each kind of access is an action.     *)
(***************************************************************************)
EXTENDS Integers, Sequences

CONSTANTS
  Chip,        \* ID bytes of the chips that may be fitted: [kgd, eid]
  RxDepth,     \* frames the receive FIFO holds
  MaxRestarts  \* bound: restarts of the RP2350 in a behaviour

VARIABLES
  pc,        \* index into Program
  kgd, eid,  \* the ID bytes that were read
  size,      \* psram_size, in MiB
  en, cs,    \* DIRECT_CSR: EN and ASSERT_CS1N
  tx, rx,    \* the direct-mode FIFOs
  engine,    \* the shifter: idle, in the cooldown of a memory access, or on a frame
  m1,        \* the M1 registers that are programmed for quad transfers
  writable,  \* XIP_CTRL: WRITABLE_M1
  chip,      \* the chip: its id, its mode and whether RESET is armed
  window,    \* what the chip has seen since its CS fell
  restarts

driver == <<pc, kgd, eid, size>>
qmi == <<en, cs, tx, rx, engine, m1, writable>>
vars == <<driver, qmi, chip, window, restarts>>

-----------------------------------------------------------------------------
(* The driver                                                              *)

\* Accesses: to DIRECT_CSR, DIRECT_TX, polls of BUSY and TXEMPTY, reads of
\* DIRECT_RX, the test of kgd, and the registers of the memory window.
Csr(e, c) == [do |-> "csr", en |-> e, cs |-> c]
Tx(width, byte) == [do |-> "tx", frame |-> <<width, byte>>]
Poll(flag) == [do |-> "poll", flag |-> flag]
Rx(var) == [do |-> "rx", var |-> var]
CheckId == [do |-> "check"]
M1(r) == [do |-> "m1", reg |-> r]
Writable == [do |-> "writable"]

\* Mutants: the quad exit is sent in single width, or its answer is not read;
\* only the answers that matter are read; CS is released without the poll.
ExitQuad_Single == <<Csr(TRUE, TRUE), Tx("single", 245), Poll("busy"), Rx("none"),
                     Csr(TRUE, FALSE)>>
ExitQuad_Unread == <<Csr(TRUE, TRUE), Tx("quad", 245), Poll("busy"), Csr(TRUE, FALSE)>>
IdByte_Unread(byte, var) ==
  <<Tx("single", byte), Poll("txempty"), Poll("busy")>>
  \o IF var = "none" THEN <<>> ELSE <<Rx(var)>>
Command_NoPoll(byte) == <<Csr(TRUE, TRUE), Tx("single", byte), Csr(TRUE, FALSE), Rx("none")>>

EnableDirect == <<Csr(TRUE, FALSE), Poll("busy")>>
ExitQuad == <<Csr(TRUE, TRUE), Tx("quad", 245), Poll("busy"), Rx("none"),
              Csr(TRUE, FALSE)>>
IdByte(byte, var) == <<Tx("single", byte), Poll("txempty"), Poll("busy"), Rx(var)>>
ReadId == <<Csr(TRUE, TRUE)>>
          \o IdByte(159, "none")
          \o IdByte(255, "none") \o IdByte(255, "none") \o IdByte(255, "none")
          \o IdByte(255, "none") \o IdByte(255, "kgd") \o IdByte(255, "eid")
Command(byte) == <<Csr(TRUE, TRUE), Tx("single", byte), Poll("busy"),
                   Csr(TRUE, FALSE), Rx("none")>>
DisableDirect == <<Csr(FALSE, FALSE)>>

RESETEN == 102
RESET == 153
QUAD == 53
M1Regs == {"timing", "rfmt", "rcmd", "wfmt", "wcmd"}

Program == EnableDirect \o ExitQuad \o ReadId \o DisableDirect
           \o <<CheckId>>
           \o EnableDirect \o Command(RESETEN) \o Command(RESET) \o Command(QUAD)
           \o DisableDirect
           \o <<M1("timing"), M1("rfmt"), M1("rcmd"), M1("wfmt"), M1("wcmd")>>
           \o <<Writable>>

Returned == Len(Program) + 1
At(action) == pc < Returned /\ Program[pc].do = action
Now == Program[pc]
GoOn == pc' = pc + 1

\* Mutant: the test for 0x26 does not keep the density from being looked at.
MiB_Twice(id) == (IF id = 38 THEN 8 ELSE 1)
                 * (IF id \div 32 = 2 THEN 8
                    ELSE IF id \div 32 = 0 THEN 2
                    ELSE IF id \div 32 = 1 THEN 4
                    ELSE 1)

\* psram_size, from the density in the EID.
MiB(id) == IF id = 38 \/ id \div 32 = 2 THEN 8
           ELSE IF id \div 32 = 0 THEN 2
           ELSE IF id \div 32 = 1 THEN 4
           ELSE 1

-----------------------------------------------------------------------------
(* The chip                                                                *)

NoWindow == [frames |-> 0, command |-> 0]

\* A command needs all its bits in the width the chip listens to.
Understood(frame) ==
  frame[1] = IF chip.mode = "qpi" THEN "quad" ELSE "single"

\* CS rises: the chip carries out the command of the window.
Obey(w) ==
  LET c == w.command
  IN [chip EXCEPT !.mode = CASE c = 245 /\ @ = "qpi" -> "spi"
                             [] c = RESET /\ chip.armed -> "spi"
                             [] c = QUAD /\ @ = "spi" -> "qpi"
                             [] OTHER -> @,
                  !.armed = IF w.frames = 0 THEN @ ELSE c = RESETEN]

\* The byte the chip drives while it receives the frame after n others: the
\* manufacturer (13), KGD and EID after the READ ID command and its address.
Driven(n) == IF window.command # 159 THEN 255
             ELSE CASE n = 4 -> 13
                    [] n = 5 -> chip.id.kgd
                    [] n = 6 -> chip.id.eid
                    [] OTHER -> 255

-----------------------------------------------------------------------------
(* Steps of the driver                                                     *)

Busy == engine # "idle" \/ tx # <<>>

\* A write of DIRECT_CSR.  Enabling direct mode starts the cooldown of the last
\* memory access; releasing CS ends the chip's window.
WriteCsr ==
  /\ At("csr")
  /\ en' = Now.en
  /\ cs' = Now.cs
  /\ engine' = IF Now.en /\ ~en THEN "cooldown" ELSE engine
  /\ IF cs /\ ~Now.cs
     THEN chip' = Obey(window) /\ window' = NoWindow
     ELSE UNCHANGED <<chip, window>>
  /\ GoOn
  /\ UNCHANGED <<kgd, eid, size, tx, rx, m1, writable, restarts>>

WriteTx ==
  /\ At("tx")
  /\ tx' = Append(tx, Now.frame)
  /\ GoOn
  /\ UNCHANGED <<kgd, eid, size, en, cs, rx, engine, m1, writable, chip, window, restarts>>

\* while ((DIRECT_CSR & flag) ...);
PollCsr ==
  /\ At("poll")
  /\ IF Now.flag = "busy" THEN ~Busy ELSE tx = <<>>
  /\ GoOn
  /\ UNCHANGED <<kgd, eid, size, qmi, chip, window, restarts>>

\* A read of DIRECT_RX; of an empty FIFO it gives 0.
ReadRx ==
  LET byte == IF rx = <<>> THEN 0 ELSE Head(rx)
  IN /\ At("rx")
     /\ rx' = IF rx = <<>> THEN rx ELSE Tail(rx)
     /\ kgd' = IF Now.var = "kgd" THEN byte ELSE kgd
     /\ eid' = IF Now.var = "eid" THEN byte ELSE eid
     /\ GoOn
     /\ UNCHANGED <<size, en, cs, tx, engine, m1, writable, chip, window, restarts>>

\* if (kgd != 0x5D) return 0;
TestId ==
  /\ At("check")
  /\ pc' = IF kgd = 93 THEN pc + 1 ELSE Returned
  /\ UNCHANGED <<kgd, eid, size, qmi, chip, window, restarts>>

ProgramM1 ==
  /\ At("m1")
  /\ m1' = m1 \cup {Now.reg}
  /\ GoOn
  /\ UNCHANGED <<kgd, eid, size, en, cs, tx, rx, engine, writable, chip, window, restarts>>

\* The size is decoded, and the window made writable.
MakeWritable ==
  /\ At("writable")
  /\ size' = MiB(eid)
  /\ writable' = TRUE
  /\ GoOn
  /\ UNCHANGED <<kgd, eid, en, cs, tx, rx, engine, m1, chip, window, restarts>>

Driver == WriteCsr \/ WriteTx \/ PollCsr \/ ReadRx \/ TestId \/ ProgramM1 \/ MakeWritable

-----------------------------------------------------------------------------
(* Steps of the QMI, and restarts                                          *)

\* A queued frame starts, unless its answer would not fit in the FIFO.
ShiftStart ==
  /\ en /\ engine = "idle"
  /\ tx # <<>>
  /\ Len(rx) < RxDepth
  /\ engine' = "frame"
  /\ UNCHANGED <<driver, en, cs, tx, rx, m1, writable, chip, window, restarts>>

\* The frame has left, and its answer has come.
ShiftEnd ==
  /\ engine = "frame"
  /\ engine' = "idle"
  /\ tx' = Tail(tx)
  /\ rx' = Append(rx, IF cs THEN Driven(window.frames) ELSE 255)
  /\ window' = IF ~cs THEN window
               ELSE [frames |-> window.frames + 1,
                     command |-> IF window.frames = 0 /\ Understood(Head(tx))
                                 THEN Head(tx)[2] ELSE window.command]
  /\ UNCHANGED <<driver, en, cs, m1, writable, chip, restarts>>

CooldownEnd ==
  /\ engine = "cooldown"
  /\ engine' = "idle"
  /\ UNCHANGED <<driver, en, cs, tx, rx, m1, writable, chip, window, restarts>>

\* The RP2350 restarts, at any point; the chip does not.
Restart ==
  /\ restarts < MaxRestarts
  /\ restarts' = restarts + 1
  /\ pc' = 1
  /\ kgd' = 0 /\ eid' = 0 /\ size' = 0
  /\ en' = FALSE /\ cs' = FALSE /\ tx' = <<>> /\ rx' = <<>> /\ engine' = "idle"
  /\ m1' = {} /\ writable' = FALSE
  /\ chip' = IF cs THEN Obey(window) ELSE chip
  /\ window' = NoWindow

Init ==
  /\ pc = 1
  /\ kgd = 0 /\ eid = 0 /\ size = 0
  /\ en = FALSE /\ cs = FALSE /\ tx = <<>> /\ rx = <<>> /\ engine = "idle"
  /\ m1 = {} /\ writable = FALSE
  /\ chip \in [id : Chip, mode : {"spi"}, armed : {FALSE}]
  /\ window = NoWindow
  /\ restarts = 0

Next == Driver \/ ShiftStart \/ ShiftEnd \/ CooldownEnd \/ Restart

Spec == Init /\ [][Next]_vars

-----------------------------------------------------------------------------
(* Properties                                                              *)

TypeOK ==
  /\ pc \in 1 .. Returned
  /\ kgd \in 0 .. 255 /\ eid \in 0 .. 255
  /\ size \in {0, 1, 2, 4, 8}
  /\ en \in BOOLEAN /\ cs \in BOOLEAN /\ engine \in {"idle", "cooldown", "frame"}
  /\ tx \in Seq({"single", "quad"} \X (0 .. 255)) /\ Len(tx) <= 1
  /\ rx \in Seq(0 .. 255) /\ Len(rx) <= RxDepth
  /\ m1 \in SUBSET M1Regs
  /\ writable \in BOOLEAN
  /\ chip \in [id : Chip, mode : {"spi", "qpi"}, armed : BOOLEAN]
  /\ window \in [frames : Nat, command : 0 .. 255]
  /\ restarts \in 0 .. MaxRestarts

\* Whatever was left of earlier transfers, in the FIFO or in the chip's mode,
\* the test of the ID sees the bytes of the chip that is fitted.
IdIsTheChips ==
  At("check") => rx = <<>> /\ kgd = chip.id.kgd /\ eid = chip.id.eid

\* Outside a restart, CS moves only between frames.
CsMovesBetweenFrames == [][cs' # cs => ~Busy \/ restarts' # restarts]_vars

\* A chip is accepted whatever state a restart left it in, and then it is in
\* the mode the memory window is programmed for.
Outcome ==
  pc = Returned =>
    /\ ~en /\ ~cs /\ ~Busy /\ rx = <<>>
    /\ IF chip.id.kgd = 93
       THEN /\ chip.mode = "qpi"
            /\ m1 = M1Regs
            /\ writable
            /\ size = MiB(chip.id.eid)
       ELSE size = 0 /\ m1 = {} /\ ~writable

\* setup_psram returns, however often the RP2350 restarts: no poll spins for
\* ever, and no answer left in the FIFO stalls the shifter.
SetupReturns == []<>(pc = Returned)
=============================================================================
