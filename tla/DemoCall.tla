------------------------------ MODULE DemoCall ------------------------------
(***************************************************************************)
(* The demo payload's entry (demo/src/start.S, demo.c).  The bootloader     *)
(* calls it as a C function; it moves to a stack of its own, puts every     *)
(* register in an area there, lets C code run, and takes the registers back *)
(* from the area, so that the C function's result is returned by way of the *)
(* area too.                                                                *)
(*                                                                         *)
(* Register xr holds some value; what the caller has in it is the pair      *)
(* <<"caller", r>>.                                                         *)
(***************************************************************************)
EXTENDS Integers, Sequences

CONSTANTS
  Clobber    \* sets of registers that the C code may leave changed

\* The calling convention: C code returns with sp, gp, tp and s0-s11 as they were.
Preserved == {2, 3, 4, 8, 9} \cup 18 .. 27
Reg == 1 .. 31
ra == 1
sp == 2
a0 == 10

VARIABLES
  at,    \* index into Program
  x,     \* the registers
  area,  \* the words of the area: area[r] is at (r * 4) - 4
  below, \* the word 16 bytes below the caller's stack pointer
  given, \* what entry was given
  result \* what entry returned

vars == <<at, x, area, below, given, result>>

Caller(r) == <<"caller", r>>
Junk == <<"junk", 0>>
Area == <<"area", 0>>     \* the address of the area
Result == <<"result", 0>>

-----------------------------------------------------------------------------
(* The program                                                             *)

Push == [do |-> "push"]
Swap == [do |-> "swap"]
PutSp == [do |-> "putsp"]
TakeRa == [do |-> "takera"]
Put(r) == [do |-> "put", reg |-> r]
Take(r) == [do |-> "take", reg |-> r]
Call == [do |-> "call"]

Puts(rs) == [n \in 1 .. Len(rs) |-> Put(rs[n])]
Takes(rs) == [n \in 1 .. Len(rs) |-> Take(rs[n])]
From3 == [n \in 1 .. 29 |-> n + 2]

\* Mutant: sp is taken back in its turn, not last.
Restore_InOrder == <<Take(1), Take(2)>> \o Takes(From3)

Save == <<Push, Swap, PutSp, TakeRa, Put(1)>> \o Puts(From3)
Restore == <<Take(1)>> \o Takes(From3) \o <<Take(2)>>

Program == Save \o <<Call>> \o Restore
Returned == Len(Program) + 1
At(action) == at < Returned /\ Program[at].do = action
Now == Program[at]
GoOn == at' = at + 1

-----------------------------------------------------------------------------

\* sw ra, -16(sp)
PushRa ==
  /\ At("push")
  /\ below' = x[ra]
  /\ GoOn
  /\ UNCHANGED <<x, area, given, result>>

\* mv ra, sp; la sp, _sstack; addi sp, sp, -REGS_ARR_SZ
SwapStacks ==
  /\ At("swap")
  /\ x' = [x EXCEPT ![ra] = x[sp], ![sp] = Area]
  /\ GoOn
  /\ UNCHANGED <<area, below, given, result>>

\* sw ra, 4(sp)
StoreSp ==
  /\ At("putsp") /\ x[sp] = Area
  /\ area' = [area EXCEPT ![sp] = x[ra]]
  /\ GoOn
  /\ UNCHANGED <<x, below, given, result>>

\* lw ra, -16(ra)
ReloadRa ==
  /\ At("takera")
  /\ x' = [x EXCEPT ![ra] = IF x[ra] = Caller(sp) THEN below ELSE Junk]
  /\ GoOn
  /\ UNCHANGED <<area, below, given, result>>

\* STORE_REGS
StoreReg ==
  /\ At("put") /\ x[sp] = Area
  /\ area' = [area EXCEPT ![Now.reg] = x[Now.reg]]
  /\ GoOn
  /\ UNCHANGED <<x, below, given, result>>

\* mv a0, sp; jal ra, _entry_; and in C: regs[9] = entry(regs[9]).  The bootloader's
\* printf, which entry calls, is C code too.
Entry(clobber) ==
  /\ At("call")
  /\ given' = area[a0]
  /\ result' = Result
  /\ area' = [area EXCEPT ![9 + 1] = Result]
  /\ x' = [r \in Reg |-> IF r \in (clobber \cup {ra, a0}) \ Preserved THEN Junk ELSE x[r]]
  /\ GoOn
  /\ UNCHANGED below

\* LOAD_REGS; a load through another sp gives nothing of the area.
LoadReg ==
  /\ At("take")
  /\ x' = [x EXCEPT ![Now.reg] = IF x[sp] = Area THEN area[Now.reg] ELSE Junk]
  /\ GoOn
  /\ UNCHANGED <<area, below, given, result>>

Init ==
  /\ at = 1
  /\ x = [r \in Reg |-> Caller(r)]
  /\ area = [r \in Reg |-> Junk]
  /\ below = Junk /\ given = Junk /\ result = Junk

Next == PushRa \/ SwapStacks \/ StoreSp \/ ReloadRa \/ StoreReg \/ LoadReg
        \/ \E s \in Clobber : Entry(s)

Spec == Init /\ [][Next]_vars

-----------------------------------------------------------------------------
(* Properties                                                              *)

\* Whatever registers the C code used, the caller gets all of its registers
\* back, its stack pointer and return address too, and in a0 the result: no
\* register is needed before it has been saved, or taken back too early.
CallerKeepsRegisters ==
  at = Returned => /\ given = Caller(a0)
                   /\ \A r \in Reg : x[r] = IF r = a0 THEN Result ELSE Caller(r)
=============================================================================
