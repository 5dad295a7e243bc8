----------------------------- MODULE PsramBoot -----------------------------
(***************************************************************************)
(* main of the bootloader (Boot) with setup_psram (PsramSetup) in place of  *)
(* one step: the driver, the QMI and the chip run until setup_psram has     *)
(* returned, and main goes on with the size that it returns.  A restart     *)
(* comes at any point of either; then the chip keeps its mode, and PSRAM    *)
(* what it holds.                                                          *)
(***************************************************************************)
EXTENDS Boot

CONSTANTS Chip, RxDepth   \* see PsramSetup

ASSUME ChipAssumption ==
  /\ Chip \subseteq [kgd : 0 .. 255, eid : 0 .. 255]
  /\ RxDepth \in Nat \ {0}

VARIABLES at, kgd, eid, size, en, cs, tx, rx, engine, m1, writable, chip, window

Qmi == INSTANCE PsramSetup WITH pc <- at

qmiVars == <<at, kgd, eid, size, en, cs, tx, rx, engine, m1, writable, chip, window>>
boardVars == <<vars, qmiVars>>

\* What is fitted, in MiB: the chips that setup_psram knows by their known good
\* die and their density.
Capacity(id) == CASE id.kgd # 93 -> 0
                  [] id.kgd = 93 /\ id.eid \in {38} \cup 64 .. 95 -> 8
                  [] id.kgd = 93 /\ id.eid \in (32 .. 63) \ {38} -> 4
                  [] id.kgd = 93 /\ id.eid \in 0 .. 31 -> 2
                  [] id.kgd = 93 /\ id.eid > 95 -> 1

-----------------------------------------------------------------------------

Setup == pc = "start" /\ Qmi!Driver /\ UNCHANGED vars

\* The QMI runs beside main.
ShiftStart == Qmi!ShiftStart /\ UNCHANGED vars
ShiftEnd == Qmi!ShiftEnd /\ UNCHANGED vars
CooldownEnd == Qmi!CooldownEnd /\ UNCHANGED vars

Return ==
  /\ at = Qmi!Returned
  /\ AfterSetup(size)
  /\ UNCHANGED qmiVars

\* The rest of main, and the user.
GoOn ==
  /\ \/ TestExecutability \/ GetSizes \/ CheckSize \/ CopyBlock \/ Fault
     \/ Copied \/ JumpToKernel \/ Answer \/ PayloadReturns \/ LeaveMain
     \/ \E k \in Key : Type(k)
  /\ UNCHANGED qmiVars

RestartBoard == Restart /\ Qmi!Restart

BoardInit == Init /\ Qmi!Init /\ fitted = Capacity(chip.id)

BoardNext == \/ Setup \/ ShiftStart \/ ShiftEnd \/ CooldownEnd
             \/ Return \/ GoOn \/ RestartBoard

BoardSpec == BoardInit /\ [][BoardNext]_boardVars

\* The core runs setup_psram, and the QMI shifts.
BoardFairness == /\ WF_boardVars(Setup)
                 /\ WF_boardVars(ShiftStart)
                 /\ WF_boardVars(ShiftEnd)
                 /\ WF_boardVars(CooldownEnd)

FairBoardSpec == BoardSpec /\ BoardFairness

-----------------------------------------------------------------------------
(* Properties                                                              *)

\* See PsramSetup; main may be anywhere.
IdIsTheChips == Qmi!IdIsTheChips
Outcome == Qmi!Outcome
CsMovesBetweenFrames == Qmi!CsMovesBetweenFrames
SetupReturns == Qmi!SetupReturns

\* main with the driver is the main of Boot, to which setup_psram is one step that
\* finds what is fitted: in every mode a restart leaves the chip in, and whatever
\* frames, answers and commands were on their way.
ImplementsBoot == Spec
=============================================================================
