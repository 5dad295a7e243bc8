------------------------------ MODULE Program ------------------------------
(***************************************************************************)
(* The life of the bootloader as a program: it is linked and put into flash *)
(* with its payload (FlashLayout), started (Startup), looks for the payload *)
(* from main, calls the one it finds in PSRAM, here the demo (DemoCall),    *)
(* and returns to the code that started it.                                 *)
(*                                                                         *)
(* The Pico SDK's build has the SDK's own start-up, which is one step here. *)
(***************************************************************************)
EXTENDS Startup

CONSTANTS
  TextSize, DataSize, TreeSize, \* see FlashLayout
  Clobber                       \* see DemoCall

ASSUME ProgramAssumption ==
  /\ TextSize \subseteq Nat /\ DataSize \subseteq Nat /\ TreeSize \subseteq Nat \ {0}
  /\ \A s \in Clobber : s \subseteq 1 .. 31

VARIABLES step, sdk, binary, treeSize, treeAt, kernelAt, dataAddr, kernelAddr,
          at, x, area, below, given, result

Flash == INSTANCE FlashLayout
Demo == INSTANCE DemoCall

flashVars == <<step, sdk, binary, treeSize, treeAt, kernelAt, dataAddr, kernelAddr>>
demoVars == <<at, x, area, below, given, result>>
programVars == <<vars, flashVars, demoVars>>

-----------------------------------------------------------------------------

\* The linker lays out in flash and in RAM the same sections; the two arrays are
\* data, and the padding of .data makes RAM end at a multiple of 16 bytes.
Link ==
  /\ Flash!Link
  /\ ~sdk => binary' = Flash!BinarySize(4 * TextEnd, 4 * (DataEnd - TextEnd))
  /\ UNCHANGED <<vars, demoVars>>

Build ==
  /\ Flash!Truncate \/ Flash!Concatenate
  /\ UNCHANGED <<vars, demoVars>>

Run ==
  /\ step = "boot" /\ ~sdk
  /\ Reloc \/ Enter \/ CopyWord \/ SetWord \/ RunCalls
  /\ UNCHANGED <<flashVars, demoVars>>

\* The SDK's start-up gives main the sections as they were linked.
SdkRun ==
  /\ step = "boot" /\ sdk /\ pc = "reloc"
  /\ pc' = "main" /\ caller' = "ctors"
  /\ ram' = [n \in DOMAIN ram |-> n]
  /\ UNCHANGED <<layout, a0, a1, a2, flashVars, demoVars>>

FindPayload ==
  /\ pc = "main"
  /\ Flash!GetPayloadStartAddress
  /\ UNCHANGED <<vars, demoVars>>

CallPayload ==
  /\ pc = "main" /\ step = "read"
  /\ Demo!Next
  /\ UNCHANGED <<vars, flashVars>>

\* main returns after the payload, or without one.
Leave ==
  /\ step = "read" /\ at \in {1, Demo!Returned}
  /\ MainReturns
  /\ UNCHANGED <<flashVars, demoVars>>

\* The rest of what follows main.
Finish ==
  /\ step = "read"
  /\ RunCalls
  /\ UNCHANGED <<flashVars, demoVars>>

ProgramInit == Init /\ Flash!Init /\ Demo!Init

ProgramNext == Link \/ Build \/ Run \/ SdkRun \/ FindPayload \/ CallPayload
               \/ Leave \/ Finish

\* The build ends and the hart runs.
ProgramSpec == ProgramInit /\ [][ProgramNext]_programVars /\ WF_programVars(ProgramNext)

-----------------------------------------------------------------------------
(* Properties                                                              *)

\* See FlashLayout and DemoCall; the sizes are those of the program that runs.
PayloadIsFound == Flash!PayloadIsFound
CallerKeepsRegisters == Demo!CallerKeepsRegisters

\* A program without constructors, destructors and .bss, as the bootloader is,
\* comes to the halt loop, from the build over main and the payload and back.
ComesToHalt ==
  (caller = "reset" /\ layout.ctors = 0 /\ layout.dtors = 0 /\ layout.bss = 0)
    ~> pc = "halt"
=============================================================================
