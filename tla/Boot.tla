-------------------------------- MODULE Boot --------------------------------
(***************************************************************************)
(* The bootloader's main (main.c, image.c): set the PSRAM up and test it,   *)
(* find the device tree and the kernel behind it in flash, copy the kernel  *)
(* to the start of PSRAM and jump to it; otherwise ask on the console.      *)
(* When main returns, _entry in rp2350-crt.S halts.                         *)
(*                                                                         *)
(* Sizes and addresses count blocks; the headers hold them in bytes, the    *)
(* device tree's in big-endian order.  PSRAM keeps its contents when the    *)
(* RP2350 restarts.                                                        *)
(***************************************************************************)
EXTENDS Integers, Sequences

CONSTANTS
  Payload,     \* what flash may hold behind the bootloader
  PsramSize,   \* what setup_psram may return, 0 when it fails
  Window,      \* where PSRAM may be, from its start: 16 MiB of addresses
  Byte,        \* values of a byte: 256
  MaxKeys,     \* bound: keys waiting in the UART's FIFO
  MaxRestarts  \* bound: restarts in a behaviour

Bytes(n) == [1 .. n -> 0 .. Byte - 1]

ASSUME BootAssumption ==
  /\ Byte \in Nat \ {0, 1}
  /\ Payload \subseteq [fdtMagic : BOOLEAN, fdtSize : Bytes(4),
                        imageMagic : BOOLEAN, imageSize : Bytes(8)]
  /\ Window \in Nat /\ PsramSize \subseteq 0 .. Window
  /\ MaxKeys \in Nat /\ MaxRestarts \in Nat

\* size_t has 32 bits.
SizeLimit == Byte * Byte * Byte * Byte
\* What the hart loads from 4 bytes and from 8, and what 4 bytes mean to others.
LittleEndian32(b) == b[1] + Byte * (b[2] + Byte * (b[3] + Byte * b[4]))
LittleEndian64(b) ==
  LittleEndian32(b) + SizeLimit * LittleEndian32([i \in 1 .. 4 |-> b[i + 4]])
BigEndian32(b) == b[4] + Byte * (b[3] + Byte * (b[2] + Byte * b[1]))

VARIABLES
  pc,
  payload,    \* flash contents
  fitted,     \* what setup_psram finds
  psramSize, deviceTreeSize, kernelSize,   \* main's variables
  copied,     \* blocks that memcpy has copied
  psram,      \* contents of PSRAM
  keys,       \* the UART's receive FIFO
  restarts

locals == <<psramSize, deviceTreeSize, kernelSize, copied>>
world == <<payload, fitted, restarts>>
vars == <<pc, locals, psram, keys, world>>

Key == {"y", "other"}
\* A block is block n of the flash, the test's return instruction or unknown.
Flash(n) == <<"flash", n>>
RetInst == <<"ret", 0>>
Unknown == <<"unknown", 0>>

\* x >> 8.
Shift(x) == x \div Byte
\* Mutant: the tree's size is not swapped.
Bswap32_None(x) == x
Bswap32(x) == BigEndian32(<<x % Byte, Shift(x) % Byte, Shift(Shift(x)) % Byte,
                            Shift(Shift(Shift(x))) % Byte>>)

\* What the headers mean.
FdtSize == BigEndian32(payload.fdtSize)
ImageSize == LittleEndian64(payload.imageSize)

-----------------------------------------------------------------------------

\* psram_setup_and_test: with the size that setup_psram returns, main goes on to
\* write a return instruction to the last word and run it.  The read-back may fail.
AfterSetup(found) ==
  /\ pc = "start"
  /\ psramSize' = found
  /\ pc' = IF found = 0 THEN "exit" ELSE "test"
  /\ UNCHANGED <<deviceTreeSize, kernelSize, copied, psram, keys, world>>

SetupPsram == AfterSetup(fitted)

TestExecutability ==
  /\ pc = "test"
  /\ \/ /\ psram' = [psram EXCEPT ![psramSize - 1] = RetInst]
        /\ pc' = "sizes"
     \/ /\ psram' = [psram EXCEPT ![psramSize - 1] = Unknown]
        /\ pc' = "exit"
  /\ UNCHANGED <<locals, keys, world>>

\* get_devicetree_size: 0 unless the magic number is there.
DeviceTreeSize == IF payload.fdtMagic THEN Bswap32(LittleEndian32(payload.fdtSize)) ELSE 0

\* get_kernel_size at an address, where there may be an image's header.
\* image_size has 64 bits and is cut to the 32 of size_t.
KernelSize(addr) == IF addr = FdtSize /\ payload.imageMagic
                    THEN LittleEndian64(payload.imageSize) % SizeLimit ELSE 0

GetSizes ==
  /\ pc = "sizes"
  /\ deviceTreeSize' = DeviceTreeSize
  /\ kernelSize' = IF DeviceTreeSize # 0 THEN KernelSize(DeviceTreeSize) ELSE 0
  /\ pc' = "check"
  /\ UNCHANGED <<psramSize, copied, psram, keys, world>>

\* Mutant: no check.
TooLarge_Never == FALSE
TooLarge == (deviceTreeSize + kernelSize) % SizeLimit > psramSize

CheckSize ==
  /\ pc = "check"
  /\ pc' = IF TooLarge THEN "exit" ELSE "copy"
  /\ UNCHANGED <<locals, psram, keys, world>>

\* Mutant: the tree is copied with the kernel.
From_Tree == 0
\* Where memcpy copies from, behind data_addr.
From == deviceTreeSize

\* What a write to block n may make of PSRAM: behind its end a chip sees an address
\* that it has, or there is no chip.
Written(n, block) ==
  IF n < psramSize THEN {[psram EXCEPT ![n] = block]}
  ELSE {psram, [psram EXCEPT ![n % psramSize] = block]}

\* One round of memcpy's loop.
CopyBlock ==
  /\ pc = "copy"
  /\ copied < kernelSize /\ copied < Window
  /\ psram' \in Written(copied, Flash(From + copied))
  /\ copied' = copied + 1
  /\ UNCHANGED <<pc, psramSize, deviceTreeSize, kernelSize, keys, world>>

\* Nothing answers behind the window: the store faults, and main has no handler.
Fault ==
  /\ pc = "copy"
  /\ copied < kernelSize /\ copied = Window
  /\ pc' = "fault"
  /\ UNCHANGED <<locals, psram, keys, world>>

Copied ==
  /\ pc = "copy"
  /\ copied = kernelSize
  /\ pc' = IF kernelSize # 0 THEN "jump" ELSE "prompt"
  /\ UNCHANGED <<locals, psram, keys, world>>

JumpToKernel ==
  /\ pc = "jump"
  /\ pc' = "linux"
  /\ UNCHANGED <<locals, psram, keys, world>>

\* Mutant: another key than y asks again.
Answered_Again(key) == IF key = "y" THEN "payload" ELSE "prompt"
Answered(key) == IF key = "y" THEN "payload" ELSE "exit"

\* wait_for_input takes the oldest key, or prints its message again.
Answer ==
  /\ pc = "prompt"
  /\ keys # <<>>
  /\ keys' = Tail(keys)
  /\ pc' = Answered(Head(keys))
  /\ UNCHANGED <<locals, psram, world>>

\* What was loaded into PSRAM may return to main, as the demo does.
PayloadReturns ==
  /\ pc = "payload"
  /\ pc' = "exit"
  /\ UNCHANGED <<locals, psram, keys, world>>

\* "Press any key to reset.": main returns, and _entry halts.
LeaveMain ==
  /\ pc = "exit"
  /\ keys # <<>>
  /\ keys' = Tail(keys)
  /\ pc' = "halt"
  /\ UNCHANGED <<locals, psram, world>>

\* A key arrives, whether or not somebody asks for it.
Type(k) ==
  /\ Len(keys) < MaxKeys
  /\ keys' = Append(keys, k)
  /\ UNCHANGED <<pc, locals, psram, world>>

\* The reset button, or power.
Restart ==
  /\ restarts < MaxRestarts
  /\ restarts' = restarts + 1
  /\ pc' = "start"
  /\ psramSize' = 0 /\ deviceTreeSize' = 0 /\ kernelSize' = 0 /\ copied' = 0
  /\ keys' = <<>>
  /\ UNCHANGED <<psram, payload, fitted>>

Init ==
  /\ pc = "start"
  /\ payload \in Payload
  /\ fitted \in PsramSize
  /\ psramSize = 0 /\ deviceTreeSize = 0 /\ kernelSize = 0 /\ copied = 0
  /\ psram = [n \in 0 .. fitted - 1 |-> Unknown]
  /\ keys = <<>>
  /\ restarts = 0

Main == SetupPsram \/ TestExecutability \/ GetSizes \/ CheckSize \/ CopyBlock
        \/ Fault \/ Copied \/ JumpToKernel

Next == \/ Main
        \/ Answer
        \/ PayloadReturns
        \/ LeaveMain
        \/ \E k \in Key : Type(k)
        \/ Restart

Spec == Init /\ [][Next]_vars

\* main runs, and its polls see the key that somebody types in the end.
Fairness == /\ WF_vars(Main \/ Answer \/ LeaveMain)
            /\ WF_vars(\E k \in Key : Type(k))

FairSpec == Spec /\ Fairness

-----------------------------------------------------------------------------
(* Properties                                                              *)

\* memcpy stays inside the PSRAM that was found, whatever the headers say and however
\* often the board restarts, unless the sum that main compares wraps around.
CopyFits == deviceTreeSize + kernelSize < SizeLimit => copied <= psramSize

\* A size_t holds the size of the image, and of both together.
SizesFit == FdtSize + ImageSize < SizeLimit

\* Linux is entered only with a device tree at the address in a1 and its image at
\* the start of PSRAM, whole, if a size_t can say how large it is, and nothing of the
\* PSRAM test in it; a restart in the middle of an earlier copy does not matter.
LinuxIsWhole ==
  pc = "linux" =>
    /\ payload.fdtMagic /\ payload.imageMagic
    /\ SizesFit => \A n \in 0 .. ImageSize - 1 : psram[n] = Flash(FdtSize + n)

\* main asks what to do only when flash holds no device tree with a kernel behind
\* it: the sizes in the headers, of either byte order, are found and understood, but
\* for an image whose size has no bits below those that size_t cuts off.
PromptMeansNoKernel ==
  pc \in {"prompt", "payload"} =>
    ~(payload.fdtMagic /\ FdtSize # 0 /\ payload.imageMagic /\ ImageSize % SizeLimit # 0)

\* Every boot comes to an end: Linux, the user's program, or the halt; or the fault of
\* a copy that was not to be.
BootEnds == <>[](pc \in {"linux", "payload", "halt"} \/ (pc = "fault" /\ ~SizesFit))
=============================================================================
