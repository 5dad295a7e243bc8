---------------------------- MODULE FlashLayout ----------------------------
(***************************************************************************)
(* Where the build puts the device tree and the kernel in flash, and where  *)
(* the bootloader looks for them.  Nothing tells the bootloader: it rounds  *)
(* the end of its own image up to 16 bytes (main.c), while the build only   *)
(* appends one file to the next.  They agree as long as the image is a      *)
(* multiple of 16 bytes, which the linker script arranges for the addresses *)
(* in RAM, not for those in flash.  The build with the Pico SDK pads the    *)
(* image instead.                                                           *)
(*                                                                         *)
(* Addresses are bytes from the start of flash, or from the start of RAM.   *)
(***************************************************************************)
EXTENDS Integers

CONSTANTS
  TextSize,   \* sets of sizes: of the code and its data, as compiled,
  DataSize,
  TreeSize    \* and of the device tree, which is not empty

VARIABLES
  step,       \* what is done next
  sdk,        \* the Pico SDK builds the bootloader
  binary,     \* size of bootloader.bin
  treeSize,   \* totalsize in the device tree's header, the size of its file
  treeAt,     \* where the flash image has them
  kernelAt,
  dataAddr,   \* where main looks for them
  kernelAddr

files == <<sdk, treeSize>>
image == <<binary, treeAt, kernelAt>>
vars == <<step, files, image, dataAddr, kernelAddr>>

\* size_ceil, for a power of two.
SizeCeil(size, align) == ((size + align - 1) \div align) * align

Instruction == 4
\* _start is a jump; the image header has five words; .reloc is _reloc (nine la
\* of two instructions, three jal, a mv and a call of two), _set and _copy.
StartBytes == Instruction
HeaderBytes == 5 * 4
RelocBytes == (9 * 2 + 3 + 1 + 2 + 6 + 8) * Instruction

\* The end of .data in RAM, where .text starts at a multiple of 16.
DataEndInRam(text, data) == SizeCeil(SizeCeil(text, 4) + SizeCeil(data, 4), 16)
\* Mutant: without ". = ALIGN(16)".
BinarySize_Unaligned(text, data) ==
  StartBytes + HeaderBytes + RelocBytes + SizeCeil(text, 4) + SizeCeil(data, 4)
\* LOADADDR(.data) + SIZEOF(.data): in flash the same sections follow .reloc.
BinarySize(text, data) ==
  StartBytes + HeaderBytes + RelocBytes + DataEndInRam(text, data)

-----------------------------------------------------------------------------

Link ==
  /\ step = "link"
  /\ \E text \in TextSize, data \in DataSize :
       binary' = IF sdk THEN text + data ELSE BinarySize(text, data)
  /\ step' = IF sdk THEN "truncate" ELSE "concatenate"
  /\ UNCHANGED <<files, treeAt, kernelAt, dataAddr, kernelAddr>>

\* truncate --size %16, which only the SDK's target does; the program still
\* knows its own end, __flash_binary_end, which main rounds up.
Truncate ==
  /\ step = "truncate"
  /\ binary' = SizeCeil(binary, 16)
  /\ step' = "concatenate"
  /\ UNCHANGED <<files, treeAt, kernelAt, dataAddr, kernelAddr>>

\* cat bootloader.bin payload.bin, and genimage's partitions without an offset.
Concatenate ==
  /\ step = "concatenate"
  /\ treeAt' = binary
  /\ kernelAt' = binary + treeSize
  /\ step' = "boot"
  /\ UNCHANGED <<files, binary, dataAddr, kernelAddr>>

\* get_payload_start_address; the kernel is at data_addr + device_tree_size.
GetPayloadStartAddress ==
  /\ step = "boot"
  /\ dataAddr' = SizeCeil(binary, 16)
  /\ kernelAddr' = SizeCeil(binary, 16) + treeSize
  /\ step' = "read"
  /\ UNCHANGED <<files, image>>

Init ==
  /\ step = "link"
  /\ sdk \in BOOLEAN
  /\ treeSize \in TreeSize
  /\ binary = 0 /\ treeAt = 0 /\ kernelAt = 0 /\ dataAddr = 0 /\ kernelAddr = 0

Next == Link \/ Truncate \/ Concatenate \/ GetPayloadStartAddress

Spec == Init /\ [][Next]_vars

-----------------------------------------------------------------------------
(* Properties                                                              *)

\* The device tree and the kernel are where main looks for them, whatever the
\* sizes of code, data and files: the code before .text in flash and the
\* alignment of .data in RAM make the image end at a multiple of 16.
PayloadIsFound == step = "read" => dataAddr = treeAt /\ kernelAddr = kernelAt
=============================================================================
