--------------------------- MODULE Program_proofs ---------------------------
(***************************************************************************)
(* Theorems about Program, for all sizes, every layout, either build and    *)
(* whatever registers the payload's C code changes: main finds the payload, *)
(* sees its own image, and a payload's caller keeps its registers.          *)
(*                                                                         *)
(* Each part has an invariant of its own, over its own variables.           *)
(***************************************************************************)
EXTENDS Program, Sequences, TLAPS

-----------------------------------------------------------------------------
(* The payload in flash                                                    *)

\* What has to hold between the steps is that the file to which the payload is
\* appended is a multiple of 16 bytes: main rounds to that and to nothing else.

Multiple(n, k) == n \in Nat /\ n % k = 0

\* What the build has so far is sizes and offsets.
FlashShape ==
  /\ step \in {"link", "truncate", "concatenate", "boot", "read"}
  /\ sdk \in BOOLEAN
  /\ binary \in Nat /\ treeSize \in Nat

Aligned == step \in {"concatenate", "boot", "read"} => Multiple(binary, 16)

PayloadPlaced ==
  step \in {"boot", "read"} => treeAt = binary /\ kernelAt = binary + treeSize

FlashInv == FlashShape /\ Aligned /\ PayloadPlaced /\ Flash!PayloadIsFound

\* size_ceil gives a multiple of 16, and the other alignments of the linker
\* script multiples of theirs.
LEMMA CeilIsMultiple ==
  ASSUME NEW n \in Nat
  PROVE  Multiple(Flash!SizeCeil(n, 16), 16) /\ Flash!SizeCeil(n, 4) \in Nat
  BY DEF Flash!SizeCeil, Multiple

\* What is a multiple already stays.
LEMMA CeilOfMultiple ==
  ASSUME NEW n, Multiple(n, 16)
  PROVE  Flash!SizeCeil(n, 16) = n
  BY DEF Flash!SizeCeil, Multiple

\* In flash, the code before .text takes a multiple of 16 bytes, and so does
\* what follows it, whose end in RAM is aligned.
LEMMA BinaryIsMultiple ==
  ASSUME NEW text \in Nat, NEW data \in Nat
  PROVE  Multiple(Flash!BinarySize(text, data), 16)
<1>1. Flash!SizeCeil(text, 4) + Flash!SizeCeil(data, 4) \in Nat
  BY CeilIsMultiple
<1>2. Multiple(Flash!DataEndInRam(text, data), 16)
  BY <1>1, CeilIsMultiple DEF Flash!DataEndInRam
<1>3. Flash!StartBytes + Flash!HeaderBytes + Flash!RelocBytes = 176
  BY DEF Flash!StartBytes, Flash!HeaderBytes, Flash!RelocBytes, Flash!Instruction
<1>4. Flash!BinarySize(text, data) = 176 + Flash!DataEndInRam(text, data)
  BY <1>3 DEF Flash!BinarySize
<1> QED
  BY <1>2, <1>4 DEF Multiple

\* Every step of the build and of main keeps the invariant.
LEMMA FlashPreserved == ASSUME FlashInv, [Flash!Next]_(Flash!vars) PROVE FlashInv'
<1> USE DEF FlashInv, FlashShape, Aligned, PayloadPlaced, Flash!PayloadIsFound
<1>1. CASE Flash!Link
  <2>1. PICK text \in TextSize, data \in DataSize :
          binary' = IF sdk THEN text + data ELSE Flash!BinarySize(text, data)
    BY <1>1 DEF Flash!Link
  <2>2. text \in Nat /\ data \in Nat
    BY ProgramAssumption
  <2>3. binary' \in Nat /\ (~sdk => Multiple(binary', 16))
    BY <2>1, <2>2, BinaryIsMultiple DEF Multiple
  <2> QED
    BY <1>1, <2>3 DEF Flash!Link, Flash!files
<1>2. CASE Flash!Truncate
  <2>1. Multiple(binary', 16)
    BY <1>2, CeilIsMultiple DEF Flash!Truncate
  <2> QED
    BY <1>2, <2>1 DEF Flash!Truncate, Flash!files, Multiple
<1>3. CASE Flash!Concatenate
  BY <1>3 DEF Flash!Concatenate, Flash!files
<1>4. CASE Flash!GetPayloadStartAddress
  BY <1>4, CeilOfMultiple DEF Flash!GetPayloadStartAddress, Flash!files, Flash!image
<1>5. CASE UNCHANGED Flash!vars
  BY <1>5 DEF Flash!vars, Flash!files, Flash!image
<1> QED
  BY <1>1, <1>2, <1>3, <1>4, <1>5 DEF Flash!Next

-----------------------------------------------------------------------------
(* The start-up                                                            *)

\* As .data and .text are as far apart in flash as in RAM, a word is the same
\* wherever it is copied from, and so the word too many of each copy does no harm.

\* The words of a part of RAM are those that were linked there.
Placed(from, to) == \A n \in from .. to - 1 : ram[n] = n
TextThere == Placed(TextStart, TextEnd)
DataThere == Placed(DataStart, DataEnd)
TextSoFar == Placed(TextStart, a0)
DataSoFar == Placed(DataStart, a0)

Shape ==
  /\ layout \in Layout
  /\ a0 \in Int /\ a1 \in Int /\ a2 \in Int
  /\ ram = [n \in 0 .. RamWords - 1 |-> ram[n]]
  /\ \/ pc = "reloc" /\ caller \in {"reset", "data", "text", "bss"}
     \/ pc \in {"copy", "copy_loop"} /\ caller \in {"data", "text"}
     \/ pc \in {"set", "set_loop"} /\ caller = "bss"
     \/ pc = "run_calls" /\ caller \in {"ctors", "dtors"}
     \/ pc = "main" /\ caller = "ctors"
     \/ pc \in {"halt", "lost"}

\* A copy has got as far as a0, and a0 no further than the word too many.
Copying ==
  /\ pc = "copy" => a2 = a0
  /\ pc = "copy_loop" => a2 = a0 /\ a0 <= a1
  /\ pc = "copy" /\ caller = "data" => a0 = DataStart
  /\ pc = "copy" /\ caller = "text" => a0 = TextStart
  /\ pc \in {"copy", "copy_loop"} /\ caller = "data" =>
       DataStart <= a0 /\ a1 = DataEnd /\ DataSoFar
  /\ pc \in {"copy", "copy_loop"} /\ caller = "text" =>
       TextStart <= a0 /\ a1 = TextEnd /\ TextSoFar

\* What was copied stays.
Copied ==
  /\ \/ pc = "reloc" /\ caller \in {"data", "text", "bss"}
     \/ pc \in {"copy", "copy_loop"} /\ caller = "text"
     \/ pc \in {"set", "set_loop", "run_calls", "main"}
     => DataThere
  /\ \/ pc = "reloc" /\ caller \in {"text", "bss"}
     \/ pc \in {"set", "set_loop", "run_calls", "main"}
     => TextThere

StartupInv == Shape /\ Copying /\ Copied

\* The sections lie in RAM, one behind the other.
LEMMA SectionsInRam ==
  ASSUME layout \in Layout
  PROVE  /\ TextStart \in Int /\ TextEnd \in Int /\ DataStart \in Int /\ DataEnd \in Int
         /\ TextStart <= TextEnd /\ TextEnd <= DataStart /\ DataStart <= DataEnd
         /\ DataEnd < RamWords /\ RamWords \in Nat
         /\ BssStart \in Int /\ BssEnd \in Int /\ TextEnd + layout.ctors \in Int
<1>1. layout.text \in Nat /\ layout.ctors \in Nat /\ layout.dtors \in Nat
      /\ layout.data \in Nat /\ layout.pad \in Nat /\ layout.bss \in Nat
      /\ layout.text + layout.ctors + layout.dtors + layout.data + layout.pad + layout.bss
           < RamWords
  BY LayoutAssumption
<1> QED
  BY <1>1, LayoutAssumption DEF TextStart, TextEnd, DataStart, DataEnd, BssStart, BssEnd

\* A step that leaves RAM and layout alone leaves what is placed.
LEMMA PlacedStays ==
  ASSUME layout \in Layout, UNCHANGED <<layout, ram>>
  PROVE  /\ UNCHANGED <<TextStart, TextEnd, DataStart, DataEnd, TextThere, DataThere>>
         /\ a0' = a0 => UNCHANGED <<TextSoFar, DataSoFar>>
         /\ a0' = TextStart => TextSoFar'
         /\ a0' = DataStart => DataSoFar'
<1>1. UNCHANGED <<TextStart, TextEnd, DataStart, DataEnd>>
  BY DEF TextStart, TextEnd, DataStart, DataEnd
<1>2. UNCHANGED <<TextThere, DataThere>>
  BY <1>1 DEF TextThere, DataThere, Placed
<1>3. a0' = a0 => UNCHANGED <<TextSoFar, DataSoFar>>
  BY <1>1 DEF TextSoFar, DataSoFar, Placed
<1>4. (a0' = TextStart => TextSoFar') /\ (a0' = DataStart => DataSoFar')
  BY <1>1, SectionsInRam DEF TextSoFar, DataSoFar, Placed
<1> QED
  BY <1>1, <1>2, <1>3, <1>4

\* A copy that has reached its end is complete.
LEMMA SoFarIsAll ==
  ASSUME layout \in Layout, a0 \in Int
  PROVE  /\ TextSoFar /\ TextEnd <= a0 => TextThere
         /\ DataSoFar /\ DataEnd <= a0 => DataThere
  BY SectionsInRam DEF TextThere, DataThere, TextSoFar, DataSoFar, Placed

\* One round of a copy puts one more word into its place, and spoils none.
LEMMA CopyWordPlaces ==
  ASSUME StartupInv, CopyWord
  PROVE  /\ TextSoFar /\ caller = "text" => TextSoFar'
         /\ DataSoFar /\ caller = "data" => DataSoFar'
         /\ DataThere => DataThere'
<1>1. /\ TextStart \in Int /\ DataStart \in Int /\ DataEnd \in Int
      /\ TextStart <= TextEnd /\ TextEnd <= DataStart /\ DataStart <= DataEnd
      /\ TextEnd \in Int /\ DataEnd < RamWords /\ RamWords \in Nat /\ 0 <= TextStart
  BY SectionsInRam DEF StartupInv, Shape, TextStart
<1>2. a0 \in 0 .. RamWords - 1 /\ a2 = a0
  BY <1>1 DEF StartupInv, Shape, Copying, CopyWord
<1>3. \A n \in 0 .. RamWords - 1 : ram'[n] = IF n = a0 THEN n ELSE ram[n]
  BY <1>2 DEF StartupInv, Shape, CopyWord
<1>4. a0' = a0 + 1 /\ UNCHANGED <<TextStart, DataStart, DataEnd>>
  BY DEF CopyWord, TextStart, TextEnd, DataStart, DataEnd
<1>5. ASSUME NEW from \in Int, 0 <= from, Placed(from, a0)
      PROVE  \A n \in from .. a0' - 1 : ram'[n] = n
  <2> SUFFICES ASSUME NEW n \in from .. a0' - 1 PROVE ram'[n] = n
    OBVIOUS
  <2>1. n \in 0 .. RamWords - 1 /\ (n = a0 \/ n \in from .. a0 - 1)
    BY <1>1, <1>2, <1>4, <1>5
  <2> QED
    BY <1>3, <1>5, <2>1 DEF Placed
<1>6. TextSoFar /\ caller = "text" => TextSoFar'
  <2> SUFFICES ASSUME TextSoFar PROVE TextSoFar'
    OBVIOUS
  <2>1. \A n \in TextStart .. a0' - 1 : ram'[n] = n
    BY <1>1, <1>5 DEF TextSoFar
  <2> QED
    BY <1>4, <2>1 DEF TextSoFar, Placed
<1>7. DataSoFar /\ caller = "data" => DataSoFar'
  <2> SUFFICES ASSUME DataSoFar PROVE DataSoFar'
    OBVIOUS
  <2>1. \A n \in DataStart .. a0' - 1 : ram'[n] = n
    BY <1>1, <1>5 DEF DataSoFar
  <2> QED
    BY <1>4, <2>1 DEF DataSoFar, Placed
<1>8. DataThere => DataThere'
  <2> SUFFICES ASSUME DataThere PROVE DataThere'
    OBVIOUS
  <2>1. \A n \in DataStart .. DataEnd - 1 : ram'[n] = n
    BY <1>1, <1>3 DEF DataThere, Placed
  <2> QED
    BY <1>4, <2>1 DEF DataThere, Placed
<1> QED
  BY <1>6, <1>7, <1>8

\* Every step keeps the invariant.
LEMMA StartupPreserved == ASSUME StartupInv, [Next]_vars PROVE StartupInv'
<1>0. /\ TextStart \in Int /\ TextEnd \in Int /\ DataStart \in Int /\ DataEnd \in Int
      /\ TextStart <= TextEnd /\ TextEnd <= DataStart /\ DataStart <= DataEnd
      /\ DataEnd < RamWords /\ RamWords \in Nat
  BY SectionsInRam DEF StartupInv, Shape
<1> USE DEF StartupInv, Shape, Copying, Copied
<1>1. CASE Reloc
  <2>1. UNCHANGED <<layout, ram>> /\ pc = "reloc"
    BY <1>1 DEF Reloc
  <2>2. TextLoadStart = TextStart /\ DataLoadStart = DataStart
    BY DEF TextLoadStart, DataLoadStart, TextStart
  <2>3. TextEnd + layout.ctors \in Int /\ BssStart \in Int /\ BssEnd \in Int
    BY SectionsInRam
  <2>4. CASE caller = "reset"
    BY <1>0, <1>1, <2>1, <2>2, <2>4, PlacedStays DEF Reloc, Jump
  <2>5. CASE caller = "data"
    BY <1>0, <1>1, <2>1, <2>2, <2>5, PlacedStays DEF Reloc, Jump
  <2>6. CASE caller = "text"
    BY <1>0, <1>1, <2>1, <2>3, <2>6, PlacedStays DEF Reloc, Jump
  <2>7. CASE caller = "bss"
    BY <1>0, <1>1, <2>1, <2>3, <2>7, PlacedStays DEF Reloc, Jump
  <2> QED
    BY <1>1, <2>4, <2>5, <2>6, <2>7 DEF Reloc
<1>2. CASE Enter
  <2>1. UNCHANGED <<layout, caller, a0, a1, a2, ram>>
    BY <1>2 DEF Enter, Return
  <2>2. CASE a0 < a1
    BY <1>0, <1>2, <2>1, <2>2, PlacedStays DEF Enter
  <2>3. CASE ~(a0 < a1)
    BY <1>0, <1>2, <2>1, <2>3, PlacedStays, SoFarIsAll DEF Enter, Return
  <2> QED
    BY <2>2, <2>3
<1>3. CASE CopyWord
  <2>1. UNCHANGED <<layout, TextStart, TextEnd, DataStart, DataEnd>>
    BY <1>3 DEF CopyWord, TextStart, TextEnd, DataStart, DataEnd
  <2>2. a0' = a0 + 1 /\ a2' = a0' /\ UNCHANGED <<a1, caller>>
        /\ pc' = IF a1 >= a0' THEN "copy_loop" ELSE "reloc"
    BY <1>3 DEF CopyWord
  <2>3. Shape'
    <3>1. ram' = [n \in 0 .. RamWords - 1 |-> ram'[n]]
      BY <1>3 DEF CopyWord
    <3> QED
      BY <1>3, <2>2, <3>1 DEF CopyWord
  <2>4. /\ TextSoFar' /\ TextEnd' <= a0' => TextThere'
        /\ DataSoFar' /\ DataEnd' <= a0' => DataThere'
    <3>1. a0' \in Int
      BY <2>3
    <3>2. TextSoFar' /\ TextEnd <= a0' => TextThere'
      BY <1>0, <2>1, <3>1 DEF TextThere, TextSoFar, Placed
    <3>3. DataSoFar' /\ DataEnd <= a0' => DataThere'
      BY <1>0, <2>1, <3>1 DEF DataThere, DataSoFar, Placed
    <3> QED
      BY <2>1, <3>2, <3>3
  <2>5. CASE caller = "data"
    BY <1>0, <1>3, <2>1, <2>2, <2>3, <2>4, <2>5, CopyWordPlaces DEF CopyWord
  <2>6. CASE caller = "text"
    BY <1>0, <1>3, <2>1, <2>2, <2>3, <2>4, <2>6, CopyWordPlaces DEF CopyWord
  <2> QED
    BY <1>3, <2>5, <2>6 DEF CopyWord
<1>4. CASE SetWord
  BY <1>4, PlacedStays DEF SetWord
<1>5. CASE RunCalls
  BY <1>5, PlacedStays DEF RunCalls
<1>6. CASE MainReturns
  <2>1. TextEnd + layout.ctors \in Int
    BY SectionsInRam
  <2> QED
    BY <1>0, <1>6, <2>1, PlacedStays DEF MainReturns, Jump
<1>7. CASE UNCHANGED vars
  BY <1>7, PlacedStays DEF vars
<1> QED
  BY <1>1, <1>2, <1>3, <1>4, <1>5, <1>6, <1>7 DEF Next

\* With both sections in their place, main sees the image.
LEMMA PlacedIsSeen == ASSUME StartupInv PROVE MainSeesImage
<1> SUFFICES ASSUME pc = "main" PROVE MainSeesImage
  BY DEF MainSeesImage
<1>1. TextThere /\ DataThere
  BY DEF StartupInv, Copied
<1>2. TextStart \in Int /\ TextEnd \in Int /\ DataStart \in Int /\ DataEnd \in Int
  BY SectionsInRam DEF StartupInv, Shape
<1> QED
  BY <1>1, <1>2
  DEF TextThere, DataThere, Placed, MainSeesImage, TextLoadStart, DataLoadStart

-----------------------------------------------------------------------------
(* The call of the demo                                                    *)

\* What a register holds in the end.
Final(r) == IF r = Demo!a0 THEN Demo!Result ELSE Demo!Caller(r)

\* What a register or a word of the area may hold.
Value == {Demo!Caller(r) : r \in 1 .. 31} \cup {Demo!Junk, Demo!Area, Demo!Result}

\* Registers, the area and the word below the stack hold something.
Stored ==
  /\ at \in 1 .. 67
  /\ x \in [1 .. 31 -> Value] /\ area \in [1 .. 31 -> Value] /\ below \in Value

\* Up to the call, which registers are still the caller's, and which are in the area.
Saving ==
  at <= 35 =>
    /\ at <= 2 => \A r \in 1 .. 31 : x[r] = Demo!Caller(r)
    /\ at \in 2 .. 4 => below = Demo!Caller(1)
    /\ at >= 3 => x[2] = Demo!Area /\ \A r \in 3 .. 31 : x[r] = Demo!Caller(r)
    /\ at \in 3 .. 4 => x[1] = Demo!Caller(2)
    /\ at >= 5 => x[1] = Demo!Caller(1)
    /\ at >= 4 => area[2] = Demo!Caller(2)
    /\ at >= 6 => area[1] = Demo!Caller(1)
    /\ \A r \in 3 .. 31 : r <= at - 4 => area[r] = Demo!Caller(r)

\* After it, which registers have been taken back.
Restoring ==
  at >= 36 =>
    /\ given = Demo!Caller(10)
    /\ \A r \in 1 .. 31 : area[r] = Final(r)
    /\ at >= 37 => x[1] = Final(1)
    /\ \A r \in 3 .. 31 : r <= at - 35 => x[r] = Final(r)
    /\ x[2] = IF at = 67 THEN Final(2) ELSE Demo!Area

DemoInv == Stored /\ Saving /\ Restoring

\* The program's instructions.
Insn == {Demo!Push, Demo!Swap, Demo!PutSp, Demo!TakeRa, Demo!Call}
        \cup {Demo!Put(r) : r \in Demo!Reg} \cup {Demo!Take(r) : r \in Demo!Reg}

\* s and then u are the first m and the next n instructions of t.
Joins(t, s, m, u, n) ==
  /\ t \in Seq(Insn) /\ Len(t) = m + n
  /\ \A i \in 1 .. m : t[i] = s[i]
  /\ \A i \in m + 1 .. m + n : t[i] = u[i - m]

\* What a concatenation is.
LEMMA Concatenated ==
  ASSUME NEW s \in Seq(Insn), NEW u \in Seq(Insn)
  PROVE  Joins(s \o u, s, Len(s), u, Len(u))
  BY DEF Joins

\* Of the loops over x3 to x31, the n-th instruction is register n + 2's.
LEMMA LoopsAre ==
  /\ Demo!Puts(Demo!From3) \in Seq(Insn) /\ Len(Demo!Puts(Demo!From3)) = 29
  /\ Demo!Takes(Demo!From3) \in Seq(Insn) /\ Len(Demo!Takes(Demo!From3)) = 29
  /\ \A n \in 1 .. 29 : /\ Demo!Puts(Demo!From3)[n] = Demo!Put(n + 2)
                         /\ Demo!Takes(Demo!From3)[n] = Demo!Take(n + 2)
<1>1. Len(Demo!From3) = 29 /\ \A n \in 1 .. 29 : Demo!From3[n] = n + 2
  BY DEF Demo!From3
<1>2. \A n \in 1 .. 29 : n + 2 \in Demo!Reg
  BY DEF Demo!Reg
<1>3. \A n \in 1 .. 29 : Demo!Put(n + 2) \in Insn /\ Demo!Take(n + 2) \in Insn
  BY <1>2 DEF Insn
<1>4. /\ Demo!Puts(Demo!From3) = [n \in 1 .. 29 |-> Demo!Put(n + 2)]
      /\ Demo!Takes(Demo!From3) = [n \in 1 .. 29 |-> Demo!Take(n + 2)]
  BY <1>1 DEF Demo!Puts, Demo!Takes
<1> QED
  BY <1>3, <1>4

\* The instructions and their places.
LEMMA DemoProgramIs ==
  /\ Demo!Returned = 67
  /\ Demo!Program[1] = Demo!Push /\ Demo!Program[2] = Demo!Swap
  /\ Demo!Program[3] = Demo!PutSp /\ Demo!Program[4] = Demo!TakeRa
  /\ Demo!Program[5] = Demo!Put(1)
  /\ \A n \in 6 .. 34 : Demo!Program[n] = Demo!Put(n - 3)
  /\ Demo!Program[35] = Demo!Call
  /\ Demo!Program[36] = Demo!Take(1)
  /\ \A n \in 37 .. 65 : Demo!Program[n] = Demo!Take(n - 34)
  /\ Demo!Program[66] = Demo!Take(2)
<1> DEFINE first == <<Demo!Push, Demo!Swap, Demo!PutSp, Demo!TakeRa, Demo!Put(1)>>
           puts == Demo!Puts(Demo!From3)
           takes == Demo!Takes(Demo!From3)
           one == <<Demo!Take(1)>>
           two == <<Demo!Take(2)>>
           call == <<Demo!Call>>
           loads == one \o takes
           upToCall == Demo!Save \o call
<1>1. /\ first \in Seq(Insn) /\ one \in Seq(Insn) /\ two \in Seq(Insn)
      /\ call \in Seq(Insn) /\ puts \in Seq(Insn) /\ takes \in Seq(Insn)
  BY LoopsAre DEF Insn, Demo!Reg
<1>2. Demo!Save = first \o puts /\ loads = one \o takes /\ Demo!Restore = loads \o two
      /\ upToCall = Demo!Save \o call /\ Demo!Program = upToCall \o Demo!Restore
  BY DEF Demo!Save, Demo!Restore, Demo!Program
<1>3. /\ first[1] = Demo!Push /\ first[2] = Demo!Swap /\ first[3] = Demo!PutSp
      /\ first[4] = Demo!TakeRa /\ first[5] = Demo!Put(1) /\ Len(first) = 5
      /\ one[1] = Demo!Take(1) /\ Len(one) = 1 /\ two[1] = Demo!Take(2) /\ Len(two) = 1
      /\ call[1] = Demo!Call /\ Len(call) = 1
  OBVIOUS
<1>4. /\ Len(puts) = 29 /\ Len(takes) = 29
      /\ \A n \in 1 .. 29 : puts[n] = Demo!Put(n + 2) /\ takes[n] = Demo!Take(n + 2)
  BY LoopsAre
<1> HIDE DEF first, puts, takes, one, two, call, loads, upToCall
<1>5. /\ Demo!Save \in Seq(Insn) /\ Len(Demo!Save) = 34
      /\ \A n \in 1 .. 5 : Demo!Save[n] = first[n]
      /\ \A n \in 6 .. 34 : Demo!Save[n] = Demo!Put(n - 3)
  <2>1. /\ Demo!Save \in Seq(Insn) /\ Len(Demo!Save) = 34
        /\ \A n \in 1 .. 5 : Demo!Save[n] = first[n]
        /\ \A n \in 6 .. 34 : Demo!Save[n] = puts[n - 5]
    <3>1. Joins(Demo!Save, first, 5, puts, 29)
      BY <1>1, <1>2, <1>3, <1>4, Concatenated
    <3> QED
      BY <3>1 DEF Joins
  <2>2. \A n \in 6 .. 34 : n - 5 \in 1 .. 29 /\ (n - 5) + 2 = n - 3
    OBVIOUS
  <2> QED
    BY <1>4, <2>1, <2>2
<1>6. /\ loads \in Seq(Insn) /\ Len(loads) = 30
      /\ loads[1] = Demo!Take(1)
      /\ \A n \in 2 .. 30 : loads[n] = takes[n - 1]
  <2>1. Joins(loads, one, 1, takes, 29)
    BY <1>1, <1>2, <1>3, <1>4, Concatenated
  <2> QED
    BY <1>3, <2>1 DEF Joins
<1>7. /\ Demo!Restore \in Seq(Insn) /\ Len(Demo!Restore) = 31
      /\ Demo!Restore[1] = Demo!Take(1) /\ Demo!Restore[31] = Demo!Take(2)
      /\ \A n \in 2 .. 30 : Demo!Restore[n] = Demo!Take(n + 1)
  <2>1. /\ Demo!Restore \in Seq(Insn) /\ Len(Demo!Restore) = 31
        /\ \A n \in 1 .. 30 : Demo!Restore[n] = loads[n]
        /\ Demo!Restore[31] = two[1]
    <3>1. Joins(Demo!Restore, loads, 30, two, 1)
      BY <1>1, <1>2, <1>3, <1>6, Concatenated
    <3> QED
      BY <3>1 DEF Joins
  <2>2. \A n \in 2 .. 30 : n - 1 \in 1 .. 29 /\ (n - 1) + 2 = n + 1
    OBVIOUS
  <2> QED
    BY <1>3, <1>4, <1>6, <2>1, <2>2
<1>8. /\ upToCall \in Seq(Insn) /\ Len(upToCall) = 35
      /\ \A n \in 1 .. 34 : upToCall[n] = Demo!Save[n]
      /\ upToCall[35] = Demo!Call
  <2>1. Joins(upToCall, Demo!Save, 34, call, 1)
    BY <1>1, <1>2, <1>3, <1>5, Concatenated
  <2> QED
    BY <1>3, <2>1 DEF Joins
<1>9. /\ Len(Demo!Program) = 66
      /\ \A n \in 1 .. 35 : Demo!Program[n] = upToCall[n]
      /\ \A n \in 36 .. 66 : Demo!Program[n] = Demo!Restore[n - 35]
  <2>1. Joins(Demo!Program, upToCall, 35, Demo!Restore, 31)
    BY <1>2, <1>7, <1>8, Concatenated
  <2> QED
    BY <2>1 DEF Joins
<1>10. ASSUME NEW n \in 37 .. 65 PROVE Demo!Program[n] = Demo!Take(n - 34)
  <2>1. Demo!Program[n] = Demo!Restore[n - 35]
    BY <1>9
  <2>2. n - 35 \in 2 .. 30 /\ (n - 35) + 1 = n - 34
    OBVIOUS
  <2> QED
    BY <1>7, <2>1, <2>2
<1>11. ASSUME NEW n \in 1 .. 34 PROVE Demo!Program[n] = Demo!Save[n]
  <2>1. n \in 1 .. 35
    OBVIOUS
  <2> QED
    BY <1>8, <1>9, <2>1
<1>12. Demo!Program[36] = Demo!Take(1) /\ Demo!Program[66] = Demo!Take(2)
  BY <1>7, <1>9
<1>13. Demo!Program[35] = Demo!Call
  BY <1>8, <1>9
<1> QED
  BY <1>3, <1>5, <1>9, <1>10, <1>11, <1>12, <1>13 DEF Demo!Returned

\* Which instructions there are of each kind, and what the two that name a register
\* name.
LEMMA Kinds ==
  ASSUME at \in 1 .. 67
  PROVE  /\ Demo!At("push") => at = 1
         /\ Demo!At("swap") => at = 2
         /\ Demo!At("putsp") => at = 3
         /\ Demo!At("takera") => at = 4
         /\ Demo!At("put") => \/ at = 5 /\ Demo!Now.reg = 1
                              \/ at \in 6 .. 34 /\ Demo!Now.reg = at - 3
         /\ Demo!At("call") => at = 35
         /\ Demo!At("take") => \/ at = 36 /\ Demo!Now.reg = 1
                               \/ at \in 37 .. 65 /\ Demo!Now.reg = at - 34
                               \/ at = 66 /\ Demo!Now.reg = 2
<1> DEFINE i == Demo!Program[at]
<1>1. at < Demo!Returned =>
       \/ at = 1 /\ i = Demo!Push
       \/ at = 2 /\ i = Demo!Swap
       \/ at = 3 /\ i = Demo!PutSp
       \/ at = 4 /\ i = Demo!TakeRa
       \/ at = 5 /\ i = Demo!Put(1)
       \/ at \in 6 .. 34 /\ i = Demo!Put(at - 3)
       \/ at = 35 /\ i = Demo!Call
       \/ at = 36 /\ i = Demo!Take(1)
       \/ at \in 37 .. 65 /\ i = Demo!Take(at - 34)
       \/ at = 66 /\ i = Demo!Take(2)
  BY DemoProgramIs
<1> HIDE DEF i
<1> QED
  BY <1>1
  DEF Demo!At, Demo!Now, i, Demo!Push, Demo!Swap, Demo!PutSp, Demo!TakeRa, Demo!Put,
      Demo!Take, Demo!Call

\* Every step keeps the invariant.
LEMMA DemoPreserved == ASSUME DemoInv, [Demo!Next]_(Demo!vars) PROVE DemoInv'
<1>0. /\ at \in 1 .. 67
      /\ x \in [1 .. 31 -> Value] /\ area \in [1 .. 31 -> Value] /\ below \in Value
      /\ Demo!Junk \in Value /\ Demo!Area \in Value /\ Demo!Result \in Value
      /\ \A r \in 1 .. 31 : Demo!Caller(r) \in Value
  BY DEF DemoInv, Stored, Value
<1> USE DEF Demo!ra, Demo!sp, Demo!a0, Demo!GoOn
<1>1. CASE Demo!PushRa
  <2>1. at = 1 /\ at' = 2 /\ below' = x[1] /\ UNCHANGED <<x, area>>
    BY <1>0, <1>1, Kinds DEF Demo!PushRa
  <2>2. Stored'
    BY <1>0, <2>1 DEF Stored
  <2>3. Saving'
    BY <1>0, <2>1 DEF DemoInv, Saving
  <2>4. Restoring'
    BY <2>1 DEF Restoring
  <2> QED
    BY <2>2, <2>3, <2>4 DEF DemoInv
<1>2. CASE Demo!SwapStacks
  <2>1. /\ at = 2 /\ at' = 3 /\ x' = [x EXCEPT ![1] = x[2], ![2] = Demo!Area]
        /\ UNCHANGED <<area, below>>
    BY <1>0, <1>2, Kinds DEF Demo!SwapStacks
  <2>2. Stored'
    BY <1>0, <2>1 DEF Stored
  <2>3. Saving'
    BY <1>0, <2>1 DEF DemoInv, Saving
  <2>4. Restoring'
    BY <2>1 DEF Restoring
  <2> QED
    BY <2>2, <2>3, <2>4 DEF DemoInv
<1>3. CASE Demo!StoreSp
  <2>1. at = 3 /\ at' = 4 /\ area' = [area EXCEPT ![2] = x[1]] /\ UNCHANGED <<x, below>>
    BY <1>0, <1>3, Kinds DEF Demo!StoreSp
  <2>2. Stored'
    BY <1>0, <2>1 DEF Stored
  <2>3. Saving'
    BY <1>0, <2>1 DEF DemoInv, Saving
  <2>4. Restoring'
    BY <2>1 DEF Restoring
  <2> QED
    BY <2>2, <2>3, <2>4 DEF DemoInv
<1>4. CASE Demo!ReloadRa
  <2>1. at = 4
    BY <1>0, <1>4, Kinds DEF Demo!ReloadRa
  <2>2. x[1] = Demo!Caller(2) /\ below = Demo!Caller(1)
    BY <2>1 DEF DemoInv, Saving
  <2>3. at' = 5 /\ x' = [x EXCEPT ![1] = Demo!Caller(1)] /\ UNCHANGED <<area, below>>
    BY <1>4, <2>1, <2>2 DEF Demo!ReloadRa
  <2>4. Stored'
    BY <1>0, <2>3 DEF Stored
  <2>5. Saving'
    BY <1>0, <2>1, <2>3 DEF DemoInv, Saving
  <2>6. Restoring'
    BY <2>3 DEF Restoring
  <2> QED
    BY <2>4, <2>5, <2>6 DEF DemoInv
<1>5. CASE Demo!StoreReg
  <2> DEFINE n == Demo!Now.reg
  <2>1. \/ at = 5 /\ n = 1
        \/ at \in 6 .. 34 /\ n = at - 3
    BY <1>0, <1>5, Kinds DEF Demo!StoreReg
  <2>2. /\ x[2] = Demo!Area /\ x[1] = Demo!Caller(1)
        /\ \A r \in 3 .. 31 : x[r] = Demo!Caller(r)
        /\ area[2] = Demo!Caller(2) /\ (at >= 6 => area[1] = Demo!Caller(1))
        /\ \A r \in 3 .. 31 : r <= at - 4 => area[r] = Demo!Caller(r)
    BY <2>1 DEF DemoInv, Saving
  <2>3. at' = at + 1 /\ area' = [area EXCEPT ![n] = x[n]] /\ UNCHANGED <<x, below>>
    BY <1>5 DEF Demo!StoreReg
  <2> HIDE DEF n
  <2>4. at' \in 6 .. 35 /\ n \in 1 .. 31 /\ n # 2 /\ x[n] = Demo!Caller(n)
    BY <2>1, <2>2, <2>3
  <2>5. /\ area' \in [1 .. 31 -> Value]
        /\ \A r \in 1 .. 31 : area'[r] = IF r = n THEN Demo!Caller(r) ELSE area[r]
    BY <1>0, <2>3, <2>4
  <2>6. area'[2] = Demo!Caller(2) /\ area'[1] = Demo!Caller(1)
    BY <2>1, <2>2, <2>4, <2>5
  <2>7. ASSUME NEW r \in 3 .. 31, r <= at' - 4 PROVE area'[r] = Demo!Caller(r)
    <3>1. r = n \/ r <= at - 4
      BY <2>1, <2>3, <2>7
    <3> QED
      BY <2>2, <2>5, <3>1
  <2>8. Saving'
    BY <2>2, <2>3, <2>4, <2>6, <2>7 DEF Saving
  <2>9. Stored'
    BY <1>0, <2>3, <2>4, <2>5 DEF Stored
  <2>10. Restoring'
    BY <2>4 DEF Restoring
  <2> QED
    BY <2>8, <2>9, <2>10 DEF DemoInv
<1>6. CASE Demo!LoadReg
  <2> DEFINE n == Demo!Now.reg
  <2>1. \/ at = 36 /\ n = 1
        \/ at \in 37 .. 65 /\ n = at - 34
        \/ at = 66 /\ n = 2
    BY <1>0, <1>6, Kinds DEF Demo!LoadReg
  <2>2. /\ x[2] = Demo!Area /\ given = Demo!Caller(10)
        /\ \A r \in 1 .. 31 : area[r] = Final(r)
        /\ at >= 37 => x[1] = Final(1)
        /\ \A r \in 3 .. 31 : r <= at - 35 => x[r] = Final(r)
    BY <2>1 DEF DemoInv, Restoring
  <2>3. at' = at + 1 /\ x' = [x EXCEPT ![n] = area[n]] /\ UNCHANGED <<area, below, given>>
    BY <1>6, <2>2 DEF Demo!LoadReg
  <2> HIDE DEF n
  <2>4. at' \in 37 .. 67 /\ n \in 1 .. 31 /\ area[n] = Final(n)
    BY <2>1, <2>2, <2>3
  <2>5. /\ x' \in [1 .. 31 -> Value]
        /\ \A r \in 1 .. 31 : x'[r] = IF r = n THEN Final(r) ELSE x[r]
    BY <1>0, <2>3, <2>4
  <2>6. x'[1] = Final(1) /\ x'[2] = IF at' = 67 THEN Final(2) ELSE Demo!Area
    BY <2>1, <2>2, <2>3, <2>5
  <2>7. ASSUME NEW r \in 3 .. 31, r <= at' - 35 PROVE x'[r] = Final(r)
    <3>1. r = n \/ r <= at - 35
      BY <2>1, <2>3, <2>7
    <3> QED
      BY <2>2, <2>5, <3>1
  <2>8. Restoring'
    BY <2>2, <2>3, <2>6, <2>7 DEF Restoring
  <2>9. Stored'
    BY <1>0, <2>3, <2>4, <2>5 DEF Stored
  <2>10. Saving'
    BY <2>4 DEF Saving
  <2> QED
    BY <2>8, <2>9, <2>10 DEF DemoInv
<1>7. ASSUME NEW s \in Clobber, Demo!Entry(s) PROVE DemoInv'
  <2>1. at = 35
    BY <1>0, <1>7, Kinds DEF Demo!Entry
  <2>2. /\ x[2] = Demo!Area
        /\ area[1] = Demo!Caller(1) /\ area[2] = Demo!Caller(2)
        /\ \A r \in 3 .. 31 : area[r] = Demo!Caller(r)
    BY <2>1 DEF DemoInv, Saving
  <2>3. /\ at' = 36 /\ below' = below /\ given' = area[10]
        /\ area' = [area EXCEPT ![10] = Demo!Result]
        /\ x' = [r \in 1 .. 31 |-> IF r \in (s \cup {1, 10}) \ Demo!Preserved
                                  THEN Demo!Junk ELSE x[r]]
    BY <1>7, <2>1 DEF Demo!Entry, Demo!Reg
  <2>4. x' \in [1 .. 31 -> Value] /\ x'[2] = Demo!Area
    BY <1>0, <2>2, <2>3 DEF Demo!Preserved
  <2>5. given' = Demo!Caller(10)
    BY <2>2, <2>3
  <2>6. area' \in [1 .. 31 -> Value]
    BY <1>0, <2>3
  <2>7. ASSUME NEW r \in 1 .. 31 PROVE area'[r] = Final(r)
    <3>1. r = 1 \/ r = 2 \/ r \in 3 .. 31
      OBVIOUS
    <3>2. area[r] = Demo!Caller(r)
      BY <2>2, <3>1
    <3> QED
      BY <1>0, <2>3, <3>2 DEF Final
  <2>8. Restoring'
    BY <2>3, <2>4, <2>5, <2>7 DEF Restoring
  <2>9. Stored'
    BY <1>0, <2>3, <2>4, <2>6 DEF Stored
  <2>10. Saving'
    BY <2>3 DEF Saving
  <2> QED
    BY <2>8, <2>9, <2>10 DEF DemoInv
<1>8. CASE UNCHANGED Demo!vars
  BY <1>8 DEF Demo!vars, DemoInv, Stored, Saving, Restoring
<1> QED
  BY <1>1, <1>2, <1>3, <1>4, <1>5, <1>6, <1>7, <1>8 DEF Demo!Next

\* At the end everything has been taken back.
LEMMA DemoInvIsEnough == ASSUME DemoInv PROVE Demo!CallerKeepsRegisters
<1> SUFFICES ASSUME at = 67
             PROVE  given = Demo!Caller(Demo!a0) /\ \A r \in Demo!Reg : x[r] = Final(r)
  BY DemoProgramIs DEF Demo!CallerKeepsRegisters, Final
<1>1. /\ given = Demo!Caller(10) /\ x[1] = Final(1) /\ x[2] = Final(2)
      /\ \A r \in 3 .. 31 : x[r] = Final(r)
  BY DEF DemoInv, Restoring
<1> QED
  BY <1>1 DEF Demo!Reg, Demo!a0

\* The caller's registers are its own.
LEMMA DemoStarts == Demo!Init => DemoInv
  BY DEF Demo!Init, DemoInv, Stored, Value, Saving, Restoring, Demo!Reg

-----------------------------------------------------------------------------
(* The whole program                                                       *)

\* Every step is a step of the build and of main's search, or none of theirs.
LEMMA FlashStep == [ProgramNext]_programVars => [Flash!Next]_(Flash!vars)
<1> SUFFICES ASSUME [ProgramNext]_programVars PROVE [Flash!Next]_(Flash!vars)
  OBVIOUS
<1> USE DEF flashVars, Flash!vars, Flash!files, Flash!image
<1>1. CASE Link
  BY <1>1 DEF Link, Flash!Next
<1>2. CASE Build
  BY <1>2 DEF Build, Flash!Next
<1>3. CASE FindPayload
  BY <1>3 DEF FindPayload, Flash!Next
<1>4. CASE Run \/ SdkRun \/ CallPayload \/ Leave \/ Finish
  BY <1>4 DEF Run, SdkRun, CallPayload, Leave, Finish
<1>5. CASE UNCHANGED programVars
  BY <1>5 DEF programVars
<1> QED
  BY <1>1, <1>2, <1>3, <1>4, <1>5 DEF ProgramNext

\* Every step is a step of the payload, or none.
LEMMA DemoStep == [ProgramNext]_programVars => [Demo!Next]_(Demo!vars)
<1> USE DEF demoVars, Demo!vars
<1>1. CallPayload => Demo!Next
  BY DEF CallPayload
<1>2. (Link \/ Build \/ Run \/ SdkRun \/ FindPayload \/ Leave \/ Finish)
        => UNCHANGED demoVars
  BY DEF Link, Build, Run, SdkRun, FindPayload, Leave, Finish
<1> QED
  BY <1>1, <1>2 DEF ProgramNext, programVars

\* The start-up of the SDK, which is not Startup's, places the sections too.
LEMMA SdkRunPlaces == ASSUME StartupInv, SdkRun PROVE StartupInv'
<1>1. /\ TextStart \in Int /\ TextEnd \in Int /\ DataStart \in Int /\ DataEnd \in Int
      /\ 0 <= TextStart /\ TextEnd <= DataStart /\ TextStart <= TextEnd
      /\ DataStart <= DataEnd /\ DataEnd < RamWords /\ RamWords \in Nat
  BY SectionsInRam DEF StartupInv, Shape, TextStart
<1>2. UNCHANGED <<TextStart, TextEnd, DataStart, DataEnd>>
  BY DEF SdkRun, TextStart, TextEnd, DataStart, DataEnd
<1>3. \A n \in 0 .. RamWords - 1 : ram'[n] = n
  BY DEF SdkRun, StartupInv, Shape
<1>4. TextThere' /\ DataThere'
  BY <1>1, <1>2, <1>3 DEF TextThere, DataThere, Placed
<1>5. ram' = [n \in 0 .. RamWords - 1 |-> ram'[n]]
  BY DEF SdkRun, StartupInv, Shape
<1> QED
  BY <1>4, <1>5 DEF SdkRun, StartupInv, Shape, Copying, Copied

\* Every step keeps what Startup needs.
LEMMA ProgramKeepsStartup ==
  ASSUME StartupInv, [ProgramNext]_programVars
  PROVE  StartupInv'
<1>1. CASE Run \/ Leave \/ Finish
  <2>1. Next
    BY <1>1 DEF Run, Leave, Finish, Next
  <2> QED
    BY <2>1, StartupPreserved
<1>2. CASE SdkRun
  BY <1>2, SdkRunPlaces
<1>3. CASE Link \/ Build \/ FindPayload \/ CallPayload \/ UNCHANGED programVars
  <2>1. UNCHANGED vars
    BY <1>3 DEF Link, Build, FindPayload, CallPayload, programVars
  <2> QED
    BY <2>1, StartupPreserved
<1> QED
  BY <1>1, <1>2, <1>3 DEF ProgramNext

-----------------------------------------------------------------------------
(* Theorems                                                                *)

\* With sizes that are numbers, whatever they are, and either build, main finds
\* the device tree and the kernel where the build put them.
THEOREM ProgramFindsPayload == ProgramSpec => []PayloadIsFound
<1>1. ProgramInit => FlashInv
  BY ProgramAssumption
  DEF ProgramInit, Flash!Init, FlashInv, FlashShape, Aligned, PayloadPlaced,
      Flash!PayloadIsFound
<1>2. FlashInv /\ [ProgramNext]_programVars => FlashInv'
  BY FlashStep, FlashPreserved
<1>3. FlashInv => PayloadIsFound
  BY DEF FlashInv, PayloadIsFound
<1> QED
  BY <1>1, <1>2, <1>3, PTL DEF ProgramSpec

\* Whoever starts it, main sees .text and .data as they were linked.
THEOREM ProgramSeesImage == ProgramSpec => []MainSeesImage
<1>1. ProgramInit => StartupInv
  BY DEF ProgramInit, Init, StartupInv, Shape, Copying, Copied
<1>2. StartupInv /\ [ProgramNext]_programVars => StartupInv'
  BY ProgramKeepsStartup
<1>3. StartupInv => MainSeesImage
  BY PlacedIsSeen
<1> QED
  BY <1>1, <1>2, <1>3, PTL DEF ProgramSpec

\* Whatever registers the C code of the payload uses, the bootloader gets all of
\* its registers back, and the result in a0.
THEOREM ProgramKeepsRegisters == ProgramSpec => []CallerKeepsRegisters
<1>1. ProgramInit => DemoInv
  BY DemoStarts DEF ProgramInit
<1>2. DemoInv /\ [ProgramNext]_programVars => DemoInv'
  BY DemoStep, DemoPreserved
<1>3. DemoInv => CallerKeepsRegisters
  BY DemoInvIsEnough DEF CallerKeepsRegisters
<1> QED
  BY <1>1, <1>2, <1>3, PTL DEF ProgramSpec

-----------------------------------------------------------------------------
(* The same of the parts                                                   *)

\* In every layout, main finds .text and .data as they were linked, although
\* each copy of the start-up writes a word too many.
THEOREM MainSeesImageAlways == Spec => []MainSeesImage
<1>1. Init => StartupInv
  BY DEF Init, StartupInv, Shape, Copying, Copied
<1>2. StartupInv /\ [Next]_vars => StartupInv'
  BY StartupPreserved
<1>3. StartupInv => MainSeesImage
  BY PlacedIsSeen
<1> QED
  BY <1>1, <1>2, <1>3, PTL DEF Spec

\* Between any caller and any C code, start.S of the payload keeps the caller's
\* registers.
THEOREM DemoKeepsRegisters == Demo!Spec => []Demo!CallerKeepsRegisters
<1>1. DemoInv /\ [Demo!Next]_(Demo!vars) => DemoInv'
  BY DemoPreserved
<1>2. DemoInv => Demo!CallerKeepsRegisters
  BY DemoInvIsEnough
<1> QED
  BY DemoStarts, <1>1, <1>2, PTL DEF Demo!Spec
=============================================================================
