-------------------------- MODULE PsramBoot_proofs --------------------------
(***************************************************************************)
(* Theorems about Boot and about PsramBoot, for every flash, every chip and *)
(* size of PSRAM, any depth of the receive FIFO, any number of keys and     *)
(* restarts: the sizes in the headers are understood, and the copy fits and *)
(* is whole unless they do not fit a size_t; setup_psram identifies the     *)
(* chip whatever it is left in, and main with the driver, the QMI and the   *)
(* chip behind it is the main of Boot.                                     *)
(***************************************************************************)
EXTENDS PsramBoot, TLAPS


-----------------------------------------------------------------------------
(* The sizes in the headers                                                *)

\* What division leaves of a number that was put together.
LEMMA DivMod ==
  ASSUME NEW r \in 0 .. Byte - 1, NEW q \in Nat
  PROVE  (r + Byte * q) \div Byte = q /\ (r + Byte * q) % Byte = r
<1>1. Byte \in Nat /\ Byte > 1 /\ r \in Nat /\ r < Byte
  BY BootAssumption
<1> DEFINE x == r + Byte * q
<1> DEFINE d == x \div Byte
<1> DEFINE m == x % Byte
<1>2. x \in Nat /\ Byte * q \in Nat
  BY <1>1
<1>3. d \in Int /\ m \in 0 .. Byte - 1 /\ x = Byte * d + m
  BY <1>1, <1>2
<1>4. Byte * (d - q) = r - m
  BY <1>1, <1>3
<1>5. d - q = 0
  BY <1>1, <1>3, <1>4
<1> QED
  BY <1>1, <1>3, <1>4, <1>5

\* A product of numbers is one, and what is put together from bytes too.
LEMMA Naturals ==
  ASSUME NEW r \in 0 .. Byte - 1, NEW q \in Nat
  PROVE  r + Byte * q \in Nat
<1>1. Byte \in Nat /\ r \in Nat
  BY BootAssumption
<1> QED
  BY <1>1

\* be32toh gives what the device tree's size means.
LEMMA SwapUnderstands ==
  ASSUME NEW b \in Bytes(4)
  PROVE  /\ Bswap32(LittleEndian32(b)) = BigEndian32(b)
         /\ LittleEndian32(b) \in Nat /\ BigEndian32(b) \in Nat
<1>1. /\ b[1] \in 0 .. Byte - 1 /\ b[2] \in 0 .. Byte - 1
      /\ b[3] \in 0 .. Byte - 1 /\ b[4] \in 0 .. Byte - 1
      /\ b[1] \in Nat /\ b[4] \in Nat /\ Byte \in Nat /\ Byte > 1
  BY BootAssumption DEF Bytes
<1> DEFINE x3 == b[4]
           x2 == b[3] + Byte * x3
           x1 == b[2] + Byte * x2
           x0 == b[1] + Byte * x1
<1>2. x3 \in Nat /\ x2 \in Nat
  BY <1>1, Naturals
<1> HIDE DEF x2, x3
<1>3. x1 \in Nat
  BY <1>1, <1>2, Naturals
<1> HIDE DEF x1
<1>4. x0 \in Nat /\ Shift(x0) = x1 /\ x0 % Byte = b[1]
  BY <1>1, <1>3, Naturals, DivMod DEF Shift
<1>5. Shift(x1) = x2 /\ x1 % Byte = b[2]
  BY <1>1, <1>2, DivMod DEF Shift, x1
<1>6. Shift(x2) = x3 /\ x2 % Byte = b[3]
  BY <1>1, <1>2, DivMod DEF Shift, x2
<1>7. x3 % Byte = b[4]
  BY <1>1 DEF x3
<1>8. x0 = LittleEndian32(b)
  BY DEF LittleEndian32, x1, x2, x3
<1> HIDE DEF x0
<1>9. Bswap32(x0) = BigEndian32(<<b[1], b[2], b[3], b[4]>>)
  BY <1>4, <1>5, <1>6, <1>7 DEF Bswap32
<1>10. BigEndian32(<<b[1], b[2], b[3], b[4]>>) = BigEndian32(b)
  BY DEF BigEndian32
<1>11. BigEndian32(b) \in Nat
  <2> DEFINE y1 == b[2] + Byte * b[1]
             y2 == b[3] + Byte * y1
  <2>1. y1 \in Nat
    BY <1>1, Naturals
  <2> HIDE DEF y1
  <2>2. y2 \in Nat
    BY <1>1, <2>1, Naturals
  <2> HIDE DEF y2
  <2>3. b[4] + Byte * y2 \in Nat
    BY <1>1, <2>2, Naturals
  <2> QED
    BY <2>3 DEF BigEndian32, y1, y2
<1> QED
  BY <1>4, <1>8, <1>9, <1>10, <1>11

\* size_t counts to some number, and an image's size is a number.
LEMMA ImageSizes ==
  /\ SizeLimit \in Nat /\ SizeLimit > 0
  /\ \A b \in Bytes(8) : LittleEndian64(b) \in Nat
<1>1. SizeLimit \in Nat /\ SizeLimit > 0
  <2>1. Byte * Byte \in Nat /\ Byte * Byte > 0
    BY BootAssumption
  <2>2. (Byte * Byte) * Byte \in Nat /\ (Byte * Byte) * Byte > 0
    BY <2>1, BootAssumption
  <2>3. ((Byte * Byte) * Byte) * Byte \in Nat /\ ((Byte * Byte) * Byte) * Byte > 0
    BY <2>2, BootAssumption
  <2> QED
    BY <2>3 DEF SizeLimit
<1>2. ASSUME NEW b \in Bytes(8) PROVE LittleEndian64(b) \in Nat
  <2> DEFINE low == [i \in 1 .. 4 |-> b[i]]
             high == [i \in 1 .. 4 |-> b[i + 4]]
  <2>1. low \in Bytes(4) /\ high \in Bytes(4)
    BY DEF Bytes
  <2>2. LittleEndian32(b) = LittleEndian32(low)
    BY DEF LittleEndian32
  <2> HIDE DEF low
  <2>3. LittleEndian32(b) \in Nat /\ LittleEndian32(high) \in Nat
    BY <2>1, <2>2, SwapUnderstands
  <2> DEFINE h == LittleEndian32(high)
  <2>4. LittleEndian64(b) = LittleEndian32(b) + SizeLimit * h
    BY DEF LittleEndian64
  <2> HIDE DEF h
  <2>5. SizeLimit * h \in Nat
    BY <1>1, <2>3 DEF h
  <2> QED
    BY <2>3, <2>4, <2>5
<1> QED
  BY <1>1, <1>2

\* The kernel's size as main finds it.
FoundKernel == IF DeviceTreeSize # 0 THEN KernelSize(DeviceTreeSize) ELSE 0

\* main finds what the headers mean, and what a size_t holds of it.
LEMMA HeadersAreUnderstood ==
  ASSUME payload \in Payload
  PROVE  /\ DeviceTreeSize \in Nat /\ FoundKernel \in Nat
         /\ DeviceTreeSize = IF payload.fdtMagic THEN FdtSize ELSE 0
         /\ FoundKernel = IF payload.fdtMagic /\ FdtSize # 0 /\ payload.imageMagic
                          THEN ImageSize % SizeLimit ELSE 0
         /\ SizesFit => ImageSize % SizeLimit = ImageSize
<1>1. /\ payload.fdtMagic \in BOOLEAN /\ payload.imageMagic \in BOOLEAN
      /\ payload.fdtSize \in Bytes(4) /\ payload.imageSize \in Bytes(8)
  BY BootAssumption
<1>2. FdtSize \in Nat /\ ImageSize \in Nat /\ SizeLimit \in Nat /\ SizeLimit > 0
  BY <1>1, SwapUnderstands, ImageSizes DEF FdtSize, ImageSize
<1>3. DeviceTreeSize = IF payload.fdtMagic THEN FdtSize ELSE 0
  BY <1>1, SwapUnderstands DEF DeviceTreeSize, FdtSize
<1>4. KernelSize(FdtSize) = IF payload.imageMagic THEN ImageSize % SizeLimit ELSE 0
  BY DEF KernelSize, ImageSize
<1>5. SizesFit => ImageSize % SizeLimit = ImageSize
  BY <1>2 DEF SizesFit
<1>6. ImageSize % SizeLimit \in Nat
  BY <1>2
<1>7. FoundKernel = IF payload.fdtMagic /\ FdtSize # 0 /\ payload.imageMagic
                    THEN ImageSize % SizeLimit ELSE 0
  <2>1. CASE payload.fdtMagic /\ FdtSize # 0
    <3>1. FoundKernel = KernelSize(FdtSize)
      BY <1>3, <2>1 DEF FoundKernel
    <3> QED
      BY <1>4, <2>1, <3>1
  <2>2. CASE ~(payload.fdtMagic /\ FdtSize # 0)
    BY <1>3, <2>2 DEF FoundKernel
  <2> QED
    BY <2>1, <2>2
<1> QED
  BY <1>2, <1>3, <1>5, <1>6, <1>7

-----------------------------------------------------------------------------
(* The invariant                                                           *)

\* What PSRAM may hold in a block.
Block == {Flash(n) : n \in Nat} \cup {RetInst, Unknown}

\* The PSRAM that setup_psram finds is there in every boot.
World ==
  /\ payload \in Payload
  /\ fitted \in 0 .. Window
  /\ psram \in [0 .. fitted - 1 -> Block]

\* What main's variables say, and from when on.
Locals ==
  /\ pc \in {"start", "test", "sizes", "check", "copy", "jump", "linux", "prompt",
             "payload", "exit", "halt", "fault"}
  /\ psramSize = IF pc = "start" THEN 0 ELSE fitted
  /\ pc \in {"test", "sizes", "check", "copy"} => fitted # 0
  /\ copied \in Nat
  /\ pc \in {"start", "test", "sizes"} => kernelSize = 0
  /\ pc \in {"start", "test", "sizes", "check"} => copied = 0
  /\ pc \in {"check", "copy", "jump", "linux", "prompt", "payload"} =>
       deviceTreeSize = DeviceTreeSize /\ kernelSize = FoundKernel

\* The sum that main compares is one.
Adds == deviceTreeSize + kernelSize < SizeLimit

\* A kernel whose copy has begun fits.
Fits ==
  /\ Adds => copied <= psramSize
  /\ pc \in {"copy", "jump", "linux"} =>
       /\ copied <= kernelSize
       /\ Adds => kernelSize <= psramSize

\* What has been copied is there; the PSRAM test ran before.
SoFar ==
  pc \in {"copy", "jump", "linux"} /\ Adds =>
    \A n \in 0 .. copied - 1 : psram[n] = Flash(deviceTreeSize + n)

\* main jumps when there is a kernel and all of it has been copied, and asks when
\* there is none.
Decided ==
  /\ pc \in {"jump", "linux"} => copied = kernelSize /\ kernelSize # 0
  /\ pc \in {"prompt", "payload"} => kernelSize = 0

IInv == World /\ Locals /\ Fits /\ SoFar /\ Decided

\* It holds at the start.
LEMMA InitIInv == Init => IInv
BY BootAssumption DEF Init, IInv, World, Locals, Fits, SoFar, Decided, Block

\* A step that leaves PSRAM and the world alone.
LEMMA WorldStays ==
  ASSUME World, UNCHANGED <<psram, payload, fitted>>
  PROVE  World' /\ DeviceTreeSize' = DeviceTreeSize /\ FoundKernel' = FoundKernel
BY DEF World, DeviceTreeSize, FoundKernel, KernelSize, FdtSize

\* Every step keeps the invariant.
LEMMA Preserved == ASSUME IInv, [Next]_vars PROVE IInv'
<1> USE DEF IInv, Adds, locals, world
<1>0. /\ fitted \in Nat /\ fitted <= Window /\ Window \in Nat /\ copied \in Nat /\ psramSize \in Nat
      /\ DeviceTreeSize \in Nat /\ FoundKernel \in Nat
  BY BootAssumption, HeadersAreUnderstood DEF World, Locals
<1>1. CASE SetupPsram
  <2>1. World' /\ DeviceTreeSize' = DeviceTreeSize /\ FoundKernel' = FoundKernel
    BY <1>1, WorldStays DEF SetupPsram, AfterSetup
  <2>2. Locals'
    BY <1>1, <2>1 DEF SetupPsram, AfterSetup, Locals
  <2> QED
    BY <1>0, <1>1, <2>1, <2>2 DEF SetupPsram, AfterSetup, Locals, Fits, SoFar, Decided
<1>2. CASE TestExecutability
  <2>1. /\ pc = "test" /\ pc' \in {"sizes", "exit"} /\ UNCHANGED <<locals, world>>
        /\ \E b \in {RetInst, Unknown} : psram' = [psram EXCEPT ![psramSize - 1] = b]
    BY <1>2 DEF TestExecutability
  <2>2. World'
    BY <1>0, <2>1 DEF World, Locals, Block
  <2>3. Locals'
    BY <2>1 DEF Locals
  <2> QED
    BY <2>1, <2>2, <2>3 DEF Fits, SoFar, Decided
<1>3. CASE GetSizes
  <2>1. World' /\ DeviceTreeSize' = DeviceTreeSize /\ FoundKernel' = FoundKernel
    BY <1>3, WorldStays DEF GetSizes
  <2>2. pc = "sizes" /\ pc' = "check" /\ deviceTreeSize' = DeviceTreeSize
        /\ kernelSize' = FoundKernel
        /\ UNCHANGED <<psramSize, copied, psram, keys, world>>
    BY <1>3 DEF GetSizes, FoundKernel
  <2>3. Locals'
    BY <2>1, <2>2 DEF Locals
  <2>4. copied' = 0 /\ psramSize' \in Nat
    BY <1>0, <2>2 DEF Locals
  <2> QED
    BY <2>1, <2>2, <2>3, <2>4 DEF Fits, SoFar, Decided
<1>4. CASE CheckSize
  <2>1. World' /\ DeviceTreeSize' = DeviceTreeSize /\ FoundKernel' = FoundKernel
    BY <1>4, WorldStays DEF CheckSize
  <2>2. /\ pc = "check" /\ pc' = IF TooLarge THEN "exit" ELSE "copy"
        /\ UNCHANGED <<locals, psram, keys, world>>
    BY <1>4 DEF CheckSize
  <2>3. Locals'
    BY <2>1, <2>2 DEF Locals
  <2>4. ~TooLarge /\ Adds => kernelSize <= psramSize
    <3>1. /\ deviceTreeSize = DeviceTreeSize /\ kernelSize = FoundKernel
      BY <2>2 DEF Locals
    <3>2. Adds => (deviceTreeSize + kernelSize) % SizeLimit = deviceTreeSize + kernelSize
      BY <1>0, <3>1, ImageSizes
    <3> QED
      BY <1>0, <3>1, <3>2 DEF TooLarge
  <2>5. copied = 0 /\ kernelSize \in Nat
    BY <1>0, <2>2 DEF Locals
  <2>6. Fits'
    BY <1>0, <2>2, <2>4, <2>5 DEF Fits
  <2>7. SoFar'
    BY <2>2, <2>5 DEF SoFar
  <2>8. Decided'
    BY <2>2 DEF Decided
  <2> QED
    BY <2>1, <2>3, <2>6, <2>7, <2>8
<1>5. CASE CopyBlock
  <2>1. /\ pc = "copy" /\ copied < kernelSize /\ (Adds => kernelSize <= psramSize)
        /\ psramSize = fitted /\ fitted # 0 /\ deviceTreeSize = DeviceTreeSize
        /\ kernelSize = FoundKernel
    BY <1>5 DEF CopyBlock, Locals, Fits
  <2>2. /\ psram' \in Written(copied, Flash(deviceTreeSize + copied))
        /\ copied' = copied + 1
        /\ UNCHANGED <<pc, psramSize, deviceTreeSize, kernelSize, payload, fitted>>
    BY <1>5 DEF CopyBlock, From
  <2>3. Flash(deviceTreeSize + copied) \in Block
    BY <1>0, <2>1 DEF Block
  <2>4. World'
    <3>1. \A m \in Nat : [psram EXCEPT ![m] = Flash(deviceTreeSize + copied)]
                          \in [0 .. fitted - 1 -> Block]
      BY <2>3 DEF World
    <3>2. copied % psramSize \in Nat
      BY <1>0, <2>1
    <3>3. psram' \in [0 .. fitted - 1 -> Block]
      BY <1>0, <2>2, <3>1, <3>2 DEF Written, World
    <3> QED
      BY <2>2, <3>3 DEF World
  <2>5. DeviceTreeSize' = DeviceTreeSize /\ FoundKernel' = FoundKernel
    BY <2>2 DEF DeviceTreeSize, FoundKernel, KernelSize, FdtSize
  <2>6. Locals'
    BY <1>0, <2>1, <2>2, <2>5 DEF Locals
  <2>7. Fits'
    BY <1>0, <2>1, <2>2 DEF Fits
  <2>8. SoFar'
    <3> SUFFICES ASSUME Adds, NEW n \in 0 .. copied
                 PROVE  psram'[n] = Flash(deviceTreeSize + n)
      BY <1>0, <2>2 DEF SoFar
    <3>1. n = copied \/ psram[n] = Flash(deviceTreeSize + n)
      BY <1>0, <2>1 DEF SoFar
    <3>2. n \in 0 .. fitted - 1 /\ psram \in [0 .. fitted - 1 -> Block]
      BY <1>0, <2>1 DEF World
    <3>3. psram' = [psram EXCEPT ![copied] = Flash(deviceTreeSize + copied)]
      BY <1>0, <2>1, <2>2 DEF Written
    <3> QED
      BY <3>1, <3>2, <3>3
  <2>9. Decided'
    BY <2>1, <2>2 DEF Decided
  <2> QED
    BY <2>4, <2>6, <2>7, <2>8, <2>9
<1>6. ASSUME \/ Fault \/ Copied \/ JumpToKernel \/ Answer \/ PayloadReturns \/ LeaveMain
             \/ \E k \in Key : Type(k)
             \/ UNCHANGED vars
      PROVE  IInv'
  <2>1. World' /\ DeviceTreeSize' = DeviceTreeSize /\ FoundKernel' = FoundKernel
    BY <1>6, WorldStays
    DEF Fault, Copied, JumpToKernel, Answer, PayloadReturns, LeaveMain, Type, vars
  <2>2. UNCHANGED <<psramSize, deviceTreeSize, kernelSize, copied, psram, fitted>>
    BY <1>6 DEF Fault, Copied, JumpToKernel, Answer, PayloadReturns, LeaveMain, Type, vars
  <2>3. \/ pc = "copy" /\ pc' = "fault"
        \/ /\ pc = "copy" /\ copied = kernelSize
           /\ pc' = IF kernelSize # 0 THEN "jump" ELSE "prompt"
        \/ pc = "jump" /\ pc' = "linux"
        \/ pc = "prompt" /\ pc' \in {"payload", "exit"}
        \/ pc = "payload" /\ pc' = "exit"
        \/ pc = "exit" /\ pc' = "halt"
        \/ pc' = pc
    BY <1>6
    DEF Fault, Copied, JumpToKernel, Answer, Answered, PayloadReturns, LeaveMain, Type, vars
  <2>4. Locals'
    BY <2>1, <2>2, <2>3 DEF Locals
  <2>5. Fits'
    BY <2>2, <2>3 DEF Fits
  <2>6. SoFar'
    BY <2>2, <2>3 DEF SoFar
  <2>7. Decided'
    BY <2>2, <2>3 DEF Decided
  <2> QED
    BY <2>1, <2>4, <2>5, <2>6, <2>7
<1>7. CASE Restart
  <2>1. World'
    BY <1>7 DEF Restart, World
  <2> QED
    BY <1>0, <1>7, <2>1 DEF Restart, Locals, Fits, SoFar, Decided
<1> QED
  BY <1>1, <1>2, <1>3, <1>4, <1>5, <1>6, <1>7 DEF Next, Main

\* Every reachable state satisfies the invariant.
THEOREM Inductive == Spec => []IInv
BY InitIInv, Preserved, PTL DEF Spec

-----------------------------------------------------------------------------
(* Theorems                                                                *)

\* However often the board restarts and whatever the headers say, no block is copied
\* past the end of the PSRAM unless the sum of the two sizes wraps around.
THEOREM CopyFitsAlways == Spec => []CopyFits
<1>1. IInv => CopyFits
  BY DEF IInv, Fits, Adds, CopyFits
<1> QED
  BY <1>1, Inductive, PTL

\* Linux is entered with an image from behind a device tree, and all of it in PSRAM
\* if the sizes fit a size_t.
THEOREM LinuxIsWholeAlways == Spec => []LinuxIsWhole
<1>1. ASSUME IInv, pc = "linux"
      PROVE  /\ payload.fdtMagic /\ payload.imageMagic
             /\ SizesFit => \A n \in 0 .. ImageSize - 1 : psram[n] = Flash(FdtSize + n)
  <2>1. /\ copied = kernelSize /\ kernelSize = FoundKernel /\ FoundKernel # 0
        /\ deviceTreeSize = DeviceTreeSize
        /\ Adds => \A n \in 0 .. copied - 1 : psram[n] = Flash(deviceTreeSize + n)
    BY <1>1 DEF IInv, Locals, SoFar, Decided
  <2>2. /\ payload.fdtMagic /\ payload.imageMagic /\ DeviceTreeSize = FdtSize
        /\ SizesFit => FoundKernel = ImageSize
    BY <1>1, <2>1, HeadersAreUnderstood DEF IInv, World
  <2> QED
    BY <2>1, <2>2 DEF Adds, SizesFit
<1>2. IInv => LinuxIsWhole
  BY <1>1 DEF LinuxIsWhole
<1> QED
  BY <1>2, Inductive, PTL

\* main asks only when flash holds no kernel behind a device tree, or one of whose
\* size a size_t keeps nothing.
THEOREM PromptMeansNoKernelAlways == Spec => []PromptMeansNoKernel
<1>1. ASSUME IInv, pc \in {"prompt", "payload"}
      PROVE  ~(payload.fdtMagic /\ FdtSize # 0 /\ payload.imageMagic
               /\ ImageSize % SizeLimit # 0)
  <2>1. FoundKernel = 0
    BY <1>1 DEF IInv, Locals, Decided
  <2> QED
    BY <1>1, <2>1, HeadersAreUnderstood DEF IInv, World
<1>2. IInv => PromptMeansNoKernel
  BY <1>1 DEF PromptMeansNoKernel
<1> QED
  BY <1>2, Inductive, PTL

-----------------------------------------------------------------------------
(* The accesses of setup_psram, one by one                                 *)

\* The accesses of the driver.
Access ==
  {Qmi!Csr(TRUE, FALSE), Qmi!Poll("busy"), Qmi!Csr(TRUE, TRUE), Qmi!Tx("quad", 245),
   Qmi!Rx("none"), Qmi!Tx("single", 159), Qmi!Poll("txempty"), Qmi!Tx("single", 255),
   Qmi!Rx("kgd"), Qmi!Rx("eid"), Qmi!Csr(FALSE, FALSE), Qmi!CheckId,
   Qmi!Tx("single", Qmi!RESETEN), Qmi!Tx("single", Qmi!RESET),
   Qmi!Tx("single", Qmi!QUAD), Qmi!M1("timing"), Qmi!M1("rfmt"), Qmi!M1("rcmd"),
   Qmi!M1("wfmt"), Qmi!M1("wcmd"), Qmi!Writable}

\* The writes of the registers of the memory window.
M1Writes == <<Qmi!M1("timing"), Qmi!M1("rfmt"), Qmi!M1("rcmd"), Qmi!M1("wfmt"),
              Qmi!M1("wcmd")>>

\* p starts with t.
Starts(p, t) == \A i \in 1 .. Len(t) : p[i] = t[i]

\* After its m-th access p has those of u.
Has(p, m, u) == \A i \in 1 .. Len(u) : p[m + i] = u[i]

\* t is s, of length m, and then u, of length n.
Joint(t, s, m, u, n) == /\ s \in Seq(Access) /\ u \in Seq(Access) /\ t = s \o u
                        /\ m \in Nat /\ Len(s) = m /\ n \in Nat /\ Len(u) = n

\* What has been joined is a sequence of accesses, as long as both.
LEMMA JointIs ==
  ASSUME NEW t, NEW s, NEW m, NEW u, NEW n, Joint(t, s, m, u, n)
  PROVE  t \in Seq(Access) /\ Len(t) = m + n
<1>1. /\ s \in Seq(Access) /\ u \in Seq(Access) /\ t = s \o u
      /\ m = Len(s) /\ n = Len(u)
  BY DEF Joint
<1> QED
  BY <1>1

\* If a first part ends in u, the whole has u there and starts with the rest.
LEMMA Splits ==
  ASSUME NEW p, NEW t, NEW s, NEW m, NEW u, NEW n, Joint(t, s, m, u, n), Starts(p, t)
  PROVE  Starts(p, s) /\ Has(p, m, u)
<1>1. s \in Seq(Access) /\ u \in Seq(Access) /\ t = s \o u /\ m = Len(s)
  BY DEF Joint
<1>2. Len(t) = Len(s) + Len(u)
  BY <1>1
<1>3. \A i \in 1 .. Len(s) : t[i] = s[i]
  BY <1>1
<1>4. \A i \in 1 .. Len(u) : t[Len(s) + i] = u[i]
  BY <1>1
<1>5. Starts(p, s)
  BY <1>1, <1>2, <1>3 DEF Starts
<1>6. Has(p, m, u)
  <2> SUFFICES ASSUME NEW i \in 1 .. Len(u) PROVE p[m + i] = u[i]
    BY DEF Has
  <2>1. m + i \in 1 .. Len(t)
    BY <1>1, <1>2
  <2> QED
    BY <1>1, <1>4, <2>1 DEF Starts
<1> QED
  BY <1>5, <1>6

\* The parts of the program are made of its accesses.
LEMMA PartsAre ==
  /\ <<Qmi!Csr(TRUE, TRUE)>> \in Seq(Access) /\ Len(<<Qmi!Csr(TRUE, TRUE)>>) = 1
  /\ Qmi!IdByte(159, "none") \in Seq(Access) /\ Len(Qmi!IdByte(159, "none")) = 4
  /\ Qmi!IdByte(255, "none") \in Seq(Access) /\ Len(Qmi!IdByte(255, "none")) = 4
  /\ Qmi!IdByte(255, "kgd") \in Seq(Access) /\ Len(Qmi!IdByte(255, "kgd")) = 4
  /\ Qmi!IdByte(255, "eid") \in Seq(Access) /\ Len(Qmi!IdByte(255, "eid")) = 4
  /\ Qmi!EnableDirect \in Seq(Access) /\ Len(Qmi!EnableDirect) = 2
  /\ Qmi!ExitQuad \in Seq(Access) /\ Len(Qmi!ExitQuad) = 5
  /\ Qmi!DisableDirect \in Seq(Access) /\ Len(Qmi!DisableDirect) = 1
  /\ <<Qmi!CheckId>> \in Seq(Access) /\ Len(<<Qmi!CheckId>>) = 1
  /\ Qmi!Command(Qmi!RESETEN) \in Seq(Access) /\ Len(Qmi!Command(Qmi!RESETEN)) = 5
  /\ Qmi!Command(Qmi!RESET) \in Seq(Access) /\ Len(Qmi!Command(Qmi!RESET)) = 5
  /\ Qmi!Command(Qmi!QUAD) \in Seq(Access) /\ Len(Qmi!Command(Qmi!QUAD)) = 5
  /\ M1Writes \in Seq(Access) /\ Len(M1Writes) = 5
  /\ <<Qmi!Writable>> \in Seq(Access) /\ Len(<<Qmi!Writable>>) = 1
<1>1. <<Qmi!Csr(TRUE, TRUE)>> \in Seq(Access) /\ Len(<<Qmi!Csr(TRUE, TRUE)>>) = 1
  BY DEF Access
<1>2. Qmi!IdByte(159, "none") \in Seq(Access) /\ Len(Qmi!IdByte(159, "none")) = 4
  BY DEF Access, Qmi!IdByte
<1>3. Qmi!IdByte(255, "none") \in Seq(Access) /\ Len(Qmi!IdByte(255, "none")) = 4
  BY DEF Access, Qmi!IdByte
<1>4. Qmi!IdByte(255, "kgd") \in Seq(Access) /\ Len(Qmi!IdByte(255, "kgd")) = 4
  BY DEF Access, Qmi!IdByte
<1>5. Qmi!IdByte(255, "eid") \in Seq(Access) /\ Len(Qmi!IdByte(255, "eid")) = 4
  BY DEF Access, Qmi!IdByte
<1>6. Qmi!EnableDirect \in Seq(Access) /\ Len(Qmi!EnableDirect) = 2
  BY DEF Access, Qmi!EnableDirect
<1>7. Qmi!ExitQuad \in Seq(Access) /\ Len(Qmi!ExitQuad) = 5
  BY DEF Access, Qmi!ExitQuad
<1>8. Qmi!DisableDirect \in Seq(Access) /\ Len(Qmi!DisableDirect) = 1
  BY DEF Access, Qmi!DisableDirect
<1>9. <<Qmi!CheckId>> \in Seq(Access) /\ Len(<<Qmi!CheckId>>) = 1
  BY DEF Access
<1>10. Qmi!Command(Qmi!RESETEN) \in Seq(Access) /\ Len(Qmi!Command(Qmi!RESETEN)) = 5
  BY DEF Access, Qmi!Command
<1>11. Qmi!Command(Qmi!RESET) \in Seq(Access) /\ Len(Qmi!Command(Qmi!RESET)) = 5
  BY DEF Access, Qmi!Command
<1>12. Qmi!Command(Qmi!QUAD) \in Seq(Access) /\ Len(Qmi!Command(Qmi!QUAD)) = 5
  BY DEF Access, Qmi!Command
<1>13. M1Writes \in Seq(Access) /\ Len(M1Writes) = 5
  BY DEF Access, M1Writes
<1>14. <<Qmi!Writable>> \in Seq(Access) /\ Len(<<Qmi!Writable>>) = 1
  BY DEF Access
<1> QED
  BY <1>1, <1>2, <1>3, <1>4, <1>5, <1>6, <1>7, <1>8, <1>9, <1>10, <1>11, <1>12, <1>13,
     <1>14

\* READ ID is seven bytes behind the fall of CS.
LEMMA ReadIdIs ==
  /\ Qmi!ReadId \in Seq(Access) /\ Len(Qmi!ReadId) = 29
  /\ Starts(Qmi!ReadId, <<Qmi!Csr(TRUE, TRUE)>>)
  /\ Has(Qmi!ReadId, 1, Qmi!IdByte(159, "none"))
  /\ Has(Qmi!ReadId, 5, Qmi!IdByte(255, "none"))
  /\ Has(Qmi!ReadId, 9, Qmi!IdByte(255, "none"))
  /\ Has(Qmi!ReadId, 13, Qmi!IdByte(255, "none"))
  /\ Has(Qmi!ReadId, 17, Qmi!IdByte(255, "none"))
  /\ Has(Qmi!ReadId, 21, Qmi!IdByte(255, "kgd"))
  /\ Has(Qmi!ReadId, 25, Qmi!IdByte(255, "eid"))
<1> DEFINE t1 == <<Qmi!Csr(TRUE, TRUE)>>
           t2 == t1 \o Qmi!IdByte(159, "none")
           t3 == t2 \o Qmi!IdByte(255, "none")
           t4 == t3 \o Qmi!IdByte(255, "none")
           t5 == t4 \o Qmi!IdByte(255, "none")
           t6 == t5 \o Qmi!IdByte(255, "none")
           t7 == t6 \o Qmi!IdByte(255, "kgd")
           t8 == Qmi!ReadId
<1>1. /\ t1 = <<Qmi!Csr(TRUE, TRUE)>>
      /\ t2 = t1 \o Qmi!IdByte(159, "none")
      /\ t3 = t2 \o Qmi!IdByte(255, "none")
      /\ t4 = t3 \o Qmi!IdByte(255, "none")
      /\ t5 = t4 \o Qmi!IdByte(255, "none")
      /\ t6 = t5 \o Qmi!IdByte(255, "none")
      /\ t7 = t6 \o Qmi!IdByte(255, "kgd")
      /\ t8 = t7 \o Qmi!IdByte(255, "eid")
  BY Zenon DEF Qmi!ReadId
<1>2. t8 = Qmi!ReadId
  OBVIOUS
<1> HIDE DEF t1, t2, t3, t4, t5, t6, t7, t8
<1>3. t1 \in Seq(Access) /\ Len(t1) = 1
  BY <1>1, PartsAre
<1>4. /\ Joint(t2, t1, 1, Qmi!IdByte(159, "none"), 4)
      /\ t2 \in Seq(Access) /\ Len(t2) = 5
  <2>1. Joint(t2, t1, 1, Qmi!IdByte(159, "none"), 4)
    BY <1>1, <1>3, PartsAre DEF Joint
  <2>2. t2 \in Seq(Access) /\ Len(t2) = 1 + 4
    BY <2>1, JointIs, Zenon
  <2> QED
    BY <2>1, <2>2
<1>5. /\ Joint(t3, t2, 5, Qmi!IdByte(255, "none"), 4)
      /\ t3 \in Seq(Access) /\ Len(t3) = 9
  <2>1. Joint(t3, t2, 5, Qmi!IdByte(255, "none"), 4)
    BY <1>1, <1>4, PartsAre DEF Joint
  <2>2. t3 \in Seq(Access) /\ Len(t3) = 5 + 4
    BY <2>1, JointIs, Zenon
  <2> QED
    BY <2>1, <2>2
<1>6. /\ Joint(t4, t3, 9, Qmi!IdByte(255, "none"), 4)
      /\ t4 \in Seq(Access) /\ Len(t4) = 13
  <2>1. Joint(t4, t3, 9, Qmi!IdByte(255, "none"), 4)
    BY <1>1, <1>5, PartsAre DEF Joint
  <2>2. t4 \in Seq(Access) /\ Len(t4) = 9 + 4
    BY <2>1, JointIs, Zenon
  <2> QED
    BY <2>1, <2>2
<1>7. /\ Joint(t5, t4, 13, Qmi!IdByte(255, "none"), 4)
      /\ t5 \in Seq(Access) /\ Len(t5) = 17
  <2>1. Joint(t5, t4, 13, Qmi!IdByte(255, "none"), 4)
    BY <1>1, <1>6, PartsAre DEF Joint
  <2>2. t5 \in Seq(Access) /\ Len(t5) = 13 + 4
    BY <2>1, JointIs, Zenon
  <2> QED
    BY <2>1, <2>2
<1>8. /\ Joint(t6, t5, 17, Qmi!IdByte(255, "none"), 4)
      /\ t6 \in Seq(Access) /\ Len(t6) = 21
  <2>1. Joint(t6, t5, 17, Qmi!IdByte(255, "none"), 4)
    BY <1>1, <1>7, PartsAre DEF Joint
  <2>2. t6 \in Seq(Access) /\ Len(t6) = 17 + 4
    BY <2>1, JointIs, Zenon
  <2> QED
    BY <2>1, <2>2
<1>9. /\ Joint(t7, t6, 21, Qmi!IdByte(255, "kgd"), 4)
      /\ t7 \in Seq(Access) /\ Len(t7) = 25
  <2>1. Joint(t7, t6, 21, Qmi!IdByte(255, "kgd"), 4)
    BY <1>1, <1>8, PartsAre DEF Joint
  <2>2. t7 \in Seq(Access) /\ Len(t7) = 21 + 4
    BY <2>1, JointIs, Zenon
  <2> QED
    BY <2>1, <2>2
<1>10. Joint(t8, t7, 25, Qmi!IdByte(255, "eid"), 4)
      /\ t8 \in Seq(Access) /\ Len(t8) = 29
  <2>1. Joint(t8, t7, 25, Qmi!IdByte(255, "eid"), 4)
    BY <1>1, <1>9, PartsAre DEF Joint
  <2>2. t8 \in Seq(Access) /\ Len(t8) = 25 + 4
    BY <2>1, JointIs, Zenon
  <2> QED
    BY <2>1, <2>2
<1>11. Starts(Qmi!ReadId, t8)
  BY <1>2, <1>10 DEF Starts
<1>12. Starts(Qmi!ReadId, t7) /\ Has(Qmi!ReadId, 25, Qmi!IdByte(255, "eid"))
  BY <1>11, <1>10, Splits
<1>13. Starts(Qmi!ReadId, t6) /\ Has(Qmi!ReadId, 21, Qmi!IdByte(255, "kgd"))
  BY <1>12, <1>9, Splits
<1>14. Starts(Qmi!ReadId, t5) /\ Has(Qmi!ReadId, 17, Qmi!IdByte(255, "none"))
  BY <1>13, <1>8, Splits
<1>15. Starts(Qmi!ReadId, t4) /\ Has(Qmi!ReadId, 13, Qmi!IdByte(255, "none"))
  BY <1>14, <1>7, Splits
<1>16. Starts(Qmi!ReadId, t3) /\ Has(Qmi!ReadId, 9, Qmi!IdByte(255, "none"))
  BY <1>15, <1>6, Splits
<1>17. Starts(Qmi!ReadId, t2) /\ Has(Qmi!ReadId, 5, Qmi!IdByte(255, "none"))
  BY <1>16, <1>5, Splits
<1>18. Starts(Qmi!ReadId, t1) /\ Has(Qmi!ReadId, 1, Qmi!IdByte(159, "none"))
  BY <1>17, <1>4, Splits
<1>19. Starts(Qmi!ReadId, <<Qmi!Csr(TRUE, TRUE)>>)
  BY <1>1, <1>18
<1> QED
  BY <1>2, <1>10, <1>12, <1>13, <1>14, <1>15, <1>16, <1>17, <1>18, <1>19

\* The parts of the program and their places.
LEMMA PartsOfProgram ==
  /\ Qmi!Program \in Seq(Access) /\ Len(Qmi!Program) = 62
  /\ Starts(Qmi!Program, Qmi!EnableDirect)
  /\ Has(Qmi!Program, 2, Qmi!ExitQuad)
  /\ Has(Qmi!Program, 7, Qmi!ReadId)
  /\ Has(Qmi!Program, 36, Qmi!DisableDirect)
  /\ Has(Qmi!Program, 37, <<Qmi!CheckId>>)
  /\ Has(Qmi!Program, 38, Qmi!EnableDirect)
  /\ Has(Qmi!Program, 40, Qmi!Command(Qmi!RESETEN))
  /\ Has(Qmi!Program, 45, Qmi!Command(Qmi!RESET))
  /\ Has(Qmi!Program, 50, Qmi!Command(Qmi!QUAD))
  /\ Has(Qmi!Program, 55, Qmi!DisableDirect)
  /\ Has(Qmi!Program, 56, M1Writes)
  /\ Has(Qmi!Program, 61, <<Qmi!Writable>>)
<1> DEFINE t1 == Qmi!EnableDirect
           t2 == t1 \o Qmi!ExitQuad
           t3 == t2 \o Qmi!ReadId
           t4 == t3 \o Qmi!DisableDirect
           t5 == t4 \o <<Qmi!CheckId>>
           t6 == t5 \o Qmi!EnableDirect
           t7 == t6 \o Qmi!Command(Qmi!RESETEN)
           t8 == t7 \o Qmi!Command(Qmi!RESET)
           t9 == t8 \o Qmi!Command(Qmi!QUAD)
           t10 == t9 \o Qmi!DisableDirect
           t11 == t10 \o M1Writes
           t12 == Qmi!Program
<1>1. /\ t1 = Qmi!EnableDirect
      /\ t2 = t1 \o Qmi!ExitQuad
      /\ t3 = t2 \o Qmi!ReadId
      /\ t4 = t3 \o Qmi!DisableDirect
      /\ t5 = t4 \o <<Qmi!CheckId>>
      /\ t6 = t5 \o Qmi!EnableDirect
      /\ t7 = t6 \o Qmi!Command(Qmi!RESETEN)
      /\ t8 = t7 \o Qmi!Command(Qmi!RESET)
      /\ t9 = t8 \o Qmi!Command(Qmi!QUAD)
      /\ t10 = t9 \o Qmi!DisableDirect
      /\ t11 = t10 \o M1Writes
      /\ t12 = t11 \o <<Qmi!Writable>>
  BY Zenon DEF Qmi!Program, M1Writes
<1>2. t12 = Qmi!Program
  OBVIOUS
<1> HIDE DEF t1, t2, t3, t4, t5, t6, t7, t8, t9, t10, t11, t12
<1>3. t1 \in Seq(Access) /\ Len(t1) = 2
  BY <1>1, PartsAre
<1>4. /\ Joint(t2, t1, 2, Qmi!ExitQuad, 5)
      /\ t2 \in Seq(Access) /\ Len(t2) = 7
  <2>1. Joint(t2, t1, 2, Qmi!ExitQuad, 5)
    BY <1>1, <1>3, PartsAre, ReadIdIs DEF Joint
  <2>2. t2 \in Seq(Access) /\ Len(t2) = 2 + 5
    BY <2>1, JointIs, Zenon
  <2> QED
    BY <2>1, <2>2
<1>5. /\ Joint(t3, t2, 7, Qmi!ReadId, 29)
      /\ t3 \in Seq(Access) /\ Len(t3) = 36
  <2>1. Joint(t3, t2, 7, Qmi!ReadId, 29)
    BY <1>1, <1>4, PartsAre, ReadIdIs DEF Joint
  <2>2. t3 \in Seq(Access) /\ Len(t3) = 7 + 29
    BY <2>1, JointIs, Zenon
  <2> QED
    BY <2>1, <2>2
<1>6. /\ Joint(t4, t3, 36, Qmi!DisableDirect, 1)
      /\ t4 \in Seq(Access) /\ Len(t4) = 37
  <2>1. Joint(t4, t3, 36, Qmi!DisableDirect, 1)
    BY <1>1, <1>5, PartsAre, ReadIdIs DEF Joint
  <2>2. t4 \in Seq(Access) /\ Len(t4) = 36 + 1
    BY <2>1, JointIs, Zenon
  <2> QED
    BY <2>1, <2>2
<1>7. /\ Joint(t5, t4, 37, <<Qmi!CheckId>>, 1)
      /\ t5 \in Seq(Access) /\ Len(t5) = 38
  <2>1. Joint(t5, t4, 37, <<Qmi!CheckId>>, 1)
    BY <1>1, <1>6, PartsAre, ReadIdIs DEF Joint
  <2>2. t5 \in Seq(Access) /\ Len(t5) = 37 + 1
    BY <2>1, JointIs, Zenon
  <2> QED
    BY <2>1, <2>2
<1>8. /\ Joint(t6, t5, 38, Qmi!EnableDirect, 2)
      /\ t6 \in Seq(Access) /\ Len(t6) = 40
  <2>1. Joint(t6, t5, 38, Qmi!EnableDirect, 2)
    BY <1>1, <1>7, PartsAre, ReadIdIs DEF Joint
  <2>2. t6 \in Seq(Access) /\ Len(t6) = 38 + 2
    BY <2>1, JointIs, Zenon
  <2> QED
    BY <2>1, <2>2
<1>9. /\ Joint(t7, t6, 40, Qmi!Command(Qmi!RESETEN), 5)
      /\ t7 \in Seq(Access) /\ Len(t7) = 45
  <2>1. Joint(t7, t6, 40, Qmi!Command(Qmi!RESETEN), 5)
    BY <1>1, <1>8, PartsAre, ReadIdIs DEF Joint
  <2>2. t7 \in Seq(Access) /\ Len(t7) = 40 + 5
    BY <2>1, JointIs, Zenon
  <2> QED
    BY <2>1, <2>2
<1>10. Joint(t8, t7, 45, Qmi!Command(Qmi!RESET), 5)
      /\ t8 \in Seq(Access) /\ Len(t8) = 50
  <2>1. Joint(t8, t7, 45, Qmi!Command(Qmi!RESET), 5)
    BY <1>1, <1>9, PartsAre, ReadIdIs DEF Joint
  <2>2. t8 \in Seq(Access) /\ Len(t8) = 45 + 5
    BY <2>1, JointIs, Zenon
  <2> QED
    BY <2>1, <2>2
<1>11. Joint(t9, t8, 50, Qmi!Command(Qmi!QUAD), 5)
      /\ t9 \in Seq(Access) /\ Len(t9) = 55
  <2>1. Joint(t9, t8, 50, Qmi!Command(Qmi!QUAD), 5)
    BY <1>1, <1>10, PartsAre, ReadIdIs DEF Joint
  <2>2. t9 \in Seq(Access) /\ Len(t9) = 50 + 5
    BY <2>1, JointIs, Zenon
  <2> QED
    BY <2>1, <2>2
<1>12. Joint(t10, t9, 55, Qmi!DisableDirect, 1)
      /\ t10 \in Seq(Access) /\ Len(t10) = 56
  <2>1. Joint(t10, t9, 55, Qmi!DisableDirect, 1)
    BY <1>1, <1>11, PartsAre, ReadIdIs DEF Joint
  <2>2. t10 \in Seq(Access) /\ Len(t10) = 55 + 1
    BY <2>1, JointIs, Zenon
  <2> QED
    BY <2>1, <2>2
<1>13. Joint(t11, t10, 56, M1Writes, 5)
      /\ t11 \in Seq(Access) /\ Len(t11) = 61
  <2>1. Joint(t11, t10, 56, M1Writes, 5)
    BY <1>1, <1>12, PartsAre, ReadIdIs DEF Joint
  <2>2. t11 \in Seq(Access) /\ Len(t11) = 56 + 5
    BY <2>1, JointIs, Zenon
  <2> QED
    BY <2>1, <2>2
<1>14. Joint(t12, t11, 61, <<Qmi!Writable>>, 1)
      /\ t12 \in Seq(Access) /\ Len(t12) = 62
  <2>1. Joint(t12, t11, 61, <<Qmi!Writable>>, 1)
    BY <1>1, <1>13, PartsAre, ReadIdIs DEF Joint
  <2>2. t12 \in Seq(Access) /\ Len(t12) = 61 + 1
    BY <2>1, JointIs, Zenon
  <2> QED
    BY <2>1, <2>2
<1>15. Starts(Qmi!Program, t12)
  BY <1>2, <1>14 DEF Starts
<1>16. Starts(Qmi!Program, t11) /\ Has(Qmi!Program, 61, <<Qmi!Writable>>)
  BY <1>15, <1>14, Splits
<1>17. Starts(Qmi!Program, t10) /\ Has(Qmi!Program, 56, M1Writes)
  BY <1>16, <1>13, Splits
<1>18. Starts(Qmi!Program, t9) /\ Has(Qmi!Program, 55, Qmi!DisableDirect)
  BY <1>17, <1>12, Splits
<1>19. Starts(Qmi!Program, t8) /\ Has(Qmi!Program, 50, Qmi!Command(Qmi!QUAD))
  BY <1>18, <1>11, Splits
<1>20. Starts(Qmi!Program, t7) /\ Has(Qmi!Program, 45, Qmi!Command(Qmi!RESET))
  BY <1>19, <1>10, Splits
<1>21. Starts(Qmi!Program, t6) /\ Has(Qmi!Program, 40, Qmi!Command(Qmi!RESETEN))
  BY <1>20, <1>9, Splits
<1>22. Starts(Qmi!Program, t5) /\ Has(Qmi!Program, 38, Qmi!EnableDirect)
  BY <1>21, <1>8, Splits
<1>23. Starts(Qmi!Program, t4) /\ Has(Qmi!Program, 37, <<Qmi!CheckId>>)
  BY <1>22, <1>7, Splits
<1>24. Starts(Qmi!Program, t3) /\ Has(Qmi!Program, 36, Qmi!DisableDirect)
  BY <1>23, <1>6, Splits
<1>25. Starts(Qmi!Program, t2) /\ Has(Qmi!Program, 7, Qmi!ReadId)
  BY <1>24, <1>5, Splits
<1>26. Starts(Qmi!Program, t1) /\ Has(Qmi!Program, 2, Qmi!ExitQuad)
  BY <1>25, <1>4, Splits
<1>27. Starts(Qmi!Program, Qmi!EnableDirect)
  BY <1>1, <1>26
<1> QED
  BY <1>2, <1>14, <1>16, <1>17, <1>18, <1>19, <1>20, <1>21, <1>22, <1>23, <1>24,
     <1>25, <1>26, <1>27

\* The accesses and their places.
LEMMA ProgramIs ==
  /\ Qmi!Returned = 63
  /\ Qmi!Program[1] = Qmi!Csr(TRUE, FALSE)
  /\ Qmi!Program[2] = Qmi!Poll("busy")
  /\ Qmi!Program[3] = Qmi!Csr(TRUE, TRUE)
  /\ Qmi!Program[4] = Qmi!Tx("quad", 245)
  /\ Qmi!Program[5] = Qmi!Poll("busy")
  /\ Qmi!Program[6] = Qmi!Rx("none")
  /\ Qmi!Program[7] = Qmi!Csr(TRUE, FALSE)
  /\ Qmi!Program[8] = Qmi!Csr(TRUE, TRUE)
  /\ Qmi!Program[9] = Qmi!Tx("single", 159)
  /\ Qmi!Program[10] = Qmi!Poll("txempty")
  /\ Qmi!Program[11] = Qmi!Poll("busy")
  /\ Qmi!Program[12] = Qmi!Rx("none")
  /\ Qmi!Program[13] = Qmi!Tx("single", 255)
  /\ Qmi!Program[14] = Qmi!Poll("txempty")
  /\ Qmi!Program[15] = Qmi!Poll("busy")
  /\ Qmi!Program[16] = Qmi!Rx("none")
  /\ Qmi!Program[17] = Qmi!Tx("single", 255)
  /\ Qmi!Program[18] = Qmi!Poll("txempty")
  /\ Qmi!Program[19] = Qmi!Poll("busy")
  /\ Qmi!Program[20] = Qmi!Rx("none")
  /\ Qmi!Program[21] = Qmi!Tx("single", 255)
  /\ Qmi!Program[22] = Qmi!Poll("txempty")
  /\ Qmi!Program[23] = Qmi!Poll("busy")
  /\ Qmi!Program[24] = Qmi!Rx("none")
  /\ Qmi!Program[25] = Qmi!Tx("single", 255)
  /\ Qmi!Program[26] = Qmi!Poll("txempty")
  /\ Qmi!Program[27] = Qmi!Poll("busy")
  /\ Qmi!Program[28] = Qmi!Rx("none")
  /\ Qmi!Program[29] = Qmi!Tx("single", 255)
  /\ Qmi!Program[30] = Qmi!Poll("txempty")
  /\ Qmi!Program[31] = Qmi!Poll("busy")
  /\ Qmi!Program[32] = Qmi!Rx("kgd")
  /\ Qmi!Program[33] = Qmi!Tx("single", 255)
  /\ Qmi!Program[34] = Qmi!Poll("txempty")
  /\ Qmi!Program[35] = Qmi!Poll("busy")
  /\ Qmi!Program[36] = Qmi!Rx("eid")
  /\ Qmi!Program[37] = Qmi!Csr(FALSE, FALSE)
  /\ Qmi!Program[38] = Qmi!CheckId
  /\ Qmi!Program[39] = Qmi!Csr(TRUE, FALSE)
  /\ Qmi!Program[40] = Qmi!Poll("busy")
  /\ Qmi!Program[41] = Qmi!Csr(TRUE, TRUE)
  /\ Qmi!Program[42] = Qmi!Tx("single", Qmi!RESETEN)
  /\ Qmi!Program[43] = Qmi!Poll("busy")
  /\ Qmi!Program[44] = Qmi!Csr(TRUE, FALSE)
  /\ Qmi!Program[45] = Qmi!Rx("none")
  /\ Qmi!Program[46] = Qmi!Csr(TRUE, TRUE)
  /\ Qmi!Program[47] = Qmi!Tx("single", Qmi!RESET)
  /\ Qmi!Program[48] = Qmi!Poll("busy")
  /\ Qmi!Program[49] = Qmi!Csr(TRUE, FALSE)
  /\ Qmi!Program[50] = Qmi!Rx("none")
  /\ Qmi!Program[51] = Qmi!Csr(TRUE, TRUE)
  /\ Qmi!Program[52] = Qmi!Tx("single", Qmi!QUAD)
  /\ Qmi!Program[53] = Qmi!Poll("busy")
  /\ Qmi!Program[54] = Qmi!Csr(TRUE, FALSE)
  /\ Qmi!Program[55] = Qmi!Rx("none")
  /\ Qmi!Program[56] = Qmi!Csr(FALSE, FALSE)
  /\ Qmi!Program[57] = Qmi!M1("timing")
  /\ Qmi!Program[58] = Qmi!M1("rfmt")
  /\ Qmi!Program[59] = Qmi!M1("rcmd")
  /\ Qmi!Program[60] = Qmi!M1("wfmt")
  /\ Qmi!Program[61] = Qmi!M1("wcmd")
  /\ Qmi!Program[62] = Qmi!Writable
<1>1. Qmi!Returned = 63
  BY PartsOfProgram DEF Qmi!Returned
<1>2. /\ Qmi!Program[1] = Qmi!Csr(TRUE, FALSE)
      /\ Qmi!Program[2] = Qmi!Poll("busy")
  <2>1. /\ Qmi!Program[1] = Qmi!EnableDirect[1]
        /\ Qmi!Program[2] = Qmi!EnableDirect[2]
    BY PartsAre, PartsOfProgram DEF Starts
  <2> QED
    BY <2>1 DEF Qmi!EnableDirect
<1>3. /\ Qmi!Program[3] = Qmi!Csr(TRUE, TRUE)
      /\ Qmi!Program[4] = Qmi!Tx("quad", 245)
      /\ Qmi!Program[5] = Qmi!Poll("busy")
      /\ Qmi!Program[6] = Qmi!Rx("none")
      /\ Qmi!Program[7] = Qmi!Csr(TRUE, FALSE)
  <2>1. /\ Qmi!Program[3] = Qmi!ExitQuad[1]
        /\ Qmi!Program[4] = Qmi!ExitQuad[2]
        /\ Qmi!Program[5] = Qmi!ExitQuad[3]
        /\ Qmi!Program[6] = Qmi!ExitQuad[4]
        /\ Qmi!Program[7] = Qmi!ExitQuad[5]
    BY PartsAre, PartsOfProgram DEF Has
  <2> QED
    BY <2>1 DEF Qmi!ExitQuad
<1>4. Qmi!Program[8] = Qmi!Csr(TRUE, TRUE)
  <2>1. Starts(Qmi!ReadId, <<Qmi!Csr(TRUE, TRUE)>>) /\ Len(<<Qmi!Csr(TRUE, TRUE)>>) = 1
    BY PartsAre, ReadIdIs, Zenon
  <2>2. 1 \in 1 .. Len(<<Qmi!Csr(TRUE, TRUE)>>)
    BY <2>1
  <2>3. Qmi!ReadId[1] = <<Qmi!Csr(TRUE, TRUE)>>[1]
    BY <2>1, <2>2, Zenon DEF Starts
  <2>4. Qmi!Program[8] = Qmi!ReadId[1]
    BY ReadIdIs, PartsOfProgram DEF Has
  <2>5. Qmi!Program[8] = <<Qmi!Csr(TRUE, TRUE)>>[1]
    BY <2>3, <2>4, Zenon
  <2> QED
    BY <2>5
<1>5. /\ Qmi!Program[9] = Qmi!Tx("single", 159)
      /\ Qmi!Program[10] = Qmi!Poll("txempty")
      /\ Qmi!Program[11] = Qmi!Poll("busy")
      /\ Qmi!Program[12] = Qmi!Rx("none")
  <2>1. Has(Qmi!ReadId, 1, Qmi!IdByte(159, "none")) /\ Len(Qmi!IdByte(159, "none")) = 4
    BY PartsAre, ReadIdIs, Zenon
  <2>2. /\ Qmi!ReadId[2] = Qmi!IdByte(159, "none")[1]
        /\ Qmi!ReadId[3] = Qmi!IdByte(159, "none")[2]
        /\ Qmi!ReadId[4] = Qmi!IdByte(159, "none")[3]
        /\ Qmi!ReadId[5] = Qmi!IdByte(159, "none")[4]
    BY <2>1 DEF Has
  <2>3. /\ Qmi!Program[9] = Qmi!ReadId[2]
        /\ Qmi!Program[10] = Qmi!ReadId[3]
        /\ Qmi!Program[11] = Qmi!ReadId[4]
        /\ Qmi!Program[12] = Qmi!ReadId[5]
    BY ReadIdIs, PartsOfProgram DEF Has
  <2>4. /\ Qmi!Program[9] = Qmi!IdByte(159, "none")[1]
        /\ Qmi!Program[10] = Qmi!IdByte(159, "none")[2]
        /\ Qmi!Program[11] = Qmi!IdByte(159, "none")[3]
        /\ Qmi!Program[12] = Qmi!IdByte(159, "none")[4]
    BY <2>2, <2>3, Zenon
  <2> QED
    BY <2>4 DEF Qmi!IdByte
<1>6. /\ Qmi!Program[13] = Qmi!Tx("single", 255)
      /\ Qmi!Program[14] = Qmi!Poll("txempty")
      /\ Qmi!Program[15] = Qmi!Poll("busy")
      /\ Qmi!Program[16] = Qmi!Rx("none")
  <2>1. Has(Qmi!ReadId, 5, Qmi!IdByte(255, "none")) /\ Len(Qmi!IdByte(255, "none")) = 4
    BY PartsAre, ReadIdIs, Zenon
  <2>2. /\ Qmi!ReadId[6] = Qmi!IdByte(255, "none")[1]
        /\ Qmi!ReadId[7] = Qmi!IdByte(255, "none")[2]
        /\ Qmi!ReadId[8] = Qmi!IdByte(255, "none")[3]
        /\ Qmi!ReadId[9] = Qmi!IdByte(255, "none")[4]
    BY <2>1 DEF Has
  <2>3. /\ Qmi!Program[13] = Qmi!ReadId[6]
        /\ Qmi!Program[14] = Qmi!ReadId[7]
        /\ Qmi!Program[15] = Qmi!ReadId[8]
        /\ Qmi!Program[16] = Qmi!ReadId[9]
    BY ReadIdIs, PartsOfProgram DEF Has
  <2>4. /\ Qmi!Program[13] = Qmi!IdByte(255, "none")[1]
        /\ Qmi!Program[14] = Qmi!IdByte(255, "none")[2]
        /\ Qmi!Program[15] = Qmi!IdByte(255, "none")[3]
        /\ Qmi!Program[16] = Qmi!IdByte(255, "none")[4]
    BY <2>2, <2>3, Zenon
  <2> QED
    BY <2>4 DEF Qmi!IdByte
<1>7. /\ Qmi!Program[17] = Qmi!Tx("single", 255)
      /\ Qmi!Program[18] = Qmi!Poll("txempty")
      /\ Qmi!Program[19] = Qmi!Poll("busy")
      /\ Qmi!Program[20] = Qmi!Rx("none")
  <2>1. Has(Qmi!ReadId, 9, Qmi!IdByte(255, "none")) /\ Len(Qmi!IdByte(255, "none")) = 4
    BY PartsAre, ReadIdIs, Zenon
  <2>2. /\ Qmi!ReadId[10] = Qmi!IdByte(255, "none")[1]
        /\ Qmi!ReadId[11] = Qmi!IdByte(255, "none")[2]
        /\ Qmi!ReadId[12] = Qmi!IdByte(255, "none")[3]
        /\ Qmi!ReadId[13] = Qmi!IdByte(255, "none")[4]
    BY <2>1 DEF Has
  <2>3. /\ Qmi!Program[17] = Qmi!ReadId[10]
        /\ Qmi!Program[18] = Qmi!ReadId[11]
        /\ Qmi!Program[19] = Qmi!ReadId[12]
        /\ Qmi!Program[20] = Qmi!ReadId[13]
    BY ReadIdIs, PartsOfProgram DEF Has
  <2>4. /\ Qmi!Program[17] = Qmi!IdByte(255, "none")[1]
        /\ Qmi!Program[18] = Qmi!IdByte(255, "none")[2]
        /\ Qmi!Program[19] = Qmi!IdByte(255, "none")[3]
        /\ Qmi!Program[20] = Qmi!IdByte(255, "none")[4]
    BY <2>2, <2>3, Zenon
  <2> QED
    BY <2>4 DEF Qmi!IdByte
<1>8. /\ Qmi!Program[21] = Qmi!Tx("single", 255)
      /\ Qmi!Program[22] = Qmi!Poll("txempty")
      /\ Qmi!Program[23] = Qmi!Poll("busy")
      /\ Qmi!Program[24] = Qmi!Rx("none")
  <2>1. Has(Qmi!ReadId, 13, Qmi!IdByte(255, "none")) /\ Len(Qmi!IdByte(255, "none")) = 4
    BY PartsAre, ReadIdIs, Zenon
  <2>2. /\ Qmi!ReadId[14] = Qmi!IdByte(255, "none")[1]
        /\ Qmi!ReadId[15] = Qmi!IdByte(255, "none")[2]
        /\ Qmi!ReadId[16] = Qmi!IdByte(255, "none")[3]
        /\ Qmi!ReadId[17] = Qmi!IdByte(255, "none")[4]
    BY <2>1 DEF Has
  <2>3. /\ Qmi!Program[21] = Qmi!ReadId[14]
        /\ Qmi!Program[22] = Qmi!ReadId[15]
        /\ Qmi!Program[23] = Qmi!ReadId[16]
        /\ Qmi!Program[24] = Qmi!ReadId[17]
    BY ReadIdIs, PartsOfProgram DEF Has
  <2>4. /\ Qmi!Program[21] = Qmi!IdByte(255, "none")[1]
        /\ Qmi!Program[22] = Qmi!IdByte(255, "none")[2]
        /\ Qmi!Program[23] = Qmi!IdByte(255, "none")[3]
        /\ Qmi!Program[24] = Qmi!IdByte(255, "none")[4]
    BY <2>2, <2>3, Zenon
  <2> QED
    BY <2>4 DEF Qmi!IdByte
<1>9. /\ Qmi!Program[25] = Qmi!Tx("single", 255)
      /\ Qmi!Program[26] = Qmi!Poll("txempty")
      /\ Qmi!Program[27] = Qmi!Poll("busy")
      /\ Qmi!Program[28] = Qmi!Rx("none")
  <2>1. Has(Qmi!ReadId, 17, Qmi!IdByte(255, "none")) /\ Len(Qmi!IdByte(255, "none")) = 4
    BY PartsAre, ReadIdIs, Zenon
  <2>2. /\ Qmi!ReadId[18] = Qmi!IdByte(255, "none")[1]
        /\ Qmi!ReadId[19] = Qmi!IdByte(255, "none")[2]
        /\ Qmi!ReadId[20] = Qmi!IdByte(255, "none")[3]
        /\ Qmi!ReadId[21] = Qmi!IdByte(255, "none")[4]
    BY <2>1 DEF Has
  <2>3. /\ Qmi!Program[25] = Qmi!ReadId[18]
        /\ Qmi!Program[26] = Qmi!ReadId[19]
        /\ Qmi!Program[27] = Qmi!ReadId[20]
        /\ Qmi!Program[28] = Qmi!ReadId[21]
    BY ReadIdIs, PartsOfProgram DEF Has
  <2>4. /\ Qmi!Program[25] = Qmi!IdByte(255, "none")[1]
        /\ Qmi!Program[26] = Qmi!IdByte(255, "none")[2]
        /\ Qmi!Program[27] = Qmi!IdByte(255, "none")[3]
        /\ Qmi!Program[28] = Qmi!IdByte(255, "none")[4]
    BY <2>2, <2>3, Zenon
  <2> QED
    BY <2>4 DEF Qmi!IdByte
<1>10. /\ Qmi!Program[29] = Qmi!Tx("single", 255)
       /\ Qmi!Program[30] = Qmi!Poll("txempty")
       /\ Qmi!Program[31] = Qmi!Poll("busy")
       /\ Qmi!Program[32] = Qmi!Rx("kgd")
  <2>1. Has(Qmi!ReadId, 21, Qmi!IdByte(255, "kgd")) /\ Len(Qmi!IdByte(255, "kgd")) = 4
    BY PartsAre, ReadIdIs, Zenon
  <2>2. /\ Qmi!ReadId[22] = Qmi!IdByte(255, "kgd")[1]
        /\ Qmi!ReadId[23] = Qmi!IdByte(255, "kgd")[2]
        /\ Qmi!ReadId[24] = Qmi!IdByte(255, "kgd")[3]
        /\ Qmi!ReadId[25] = Qmi!IdByte(255, "kgd")[4]
    BY <2>1 DEF Has
  <2>3. /\ Qmi!Program[29] = Qmi!ReadId[22]
        /\ Qmi!Program[30] = Qmi!ReadId[23]
        /\ Qmi!Program[31] = Qmi!ReadId[24]
        /\ Qmi!Program[32] = Qmi!ReadId[25]
    BY ReadIdIs, PartsOfProgram DEF Has
  <2>4. /\ Qmi!Program[29] = Qmi!IdByte(255, "kgd")[1]
        /\ Qmi!Program[30] = Qmi!IdByte(255, "kgd")[2]
        /\ Qmi!Program[31] = Qmi!IdByte(255, "kgd")[3]
        /\ Qmi!Program[32] = Qmi!IdByte(255, "kgd")[4]
    BY <2>2, <2>3, Zenon
  <2> QED
    BY <2>4 DEF Qmi!IdByte
<1>11. /\ Qmi!Program[33] = Qmi!Tx("single", 255)
       /\ Qmi!Program[34] = Qmi!Poll("txempty")
       /\ Qmi!Program[35] = Qmi!Poll("busy")
       /\ Qmi!Program[36] = Qmi!Rx("eid")
  <2>1. Has(Qmi!ReadId, 25, Qmi!IdByte(255, "eid")) /\ Len(Qmi!IdByte(255, "eid")) = 4
    BY PartsAre, ReadIdIs, Zenon
  <2>2. /\ Qmi!ReadId[26] = Qmi!IdByte(255, "eid")[1]
        /\ Qmi!ReadId[27] = Qmi!IdByte(255, "eid")[2]
        /\ Qmi!ReadId[28] = Qmi!IdByte(255, "eid")[3]
        /\ Qmi!ReadId[29] = Qmi!IdByte(255, "eid")[4]
    BY <2>1 DEF Has
  <2>3. /\ Qmi!Program[33] = Qmi!ReadId[26]
        /\ Qmi!Program[34] = Qmi!ReadId[27]
        /\ Qmi!Program[35] = Qmi!ReadId[28]
        /\ Qmi!Program[36] = Qmi!ReadId[29]
    BY ReadIdIs, PartsOfProgram DEF Has
  <2>4. /\ Qmi!Program[33] = Qmi!IdByte(255, "eid")[1]
        /\ Qmi!Program[34] = Qmi!IdByte(255, "eid")[2]
        /\ Qmi!Program[35] = Qmi!IdByte(255, "eid")[3]
        /\ Qmi!Program[36] = Qmi!IdByte(255, "eid")[4]
    BY <2>2, <2>3, Zenon
  <2> QED
    BY <2>4 DEF Qmi!IdByte
<1>12. Qmi!Program[37] = Qmi!Csr(FALSE, FALSE)
  <2>1. Qmi!Program[37] = Qmi!DisableDirect[1]
    BY PartsAre, PartsOfProgram DEF Has
  <2> QED
    BY <2>1 DEF Qmi!DisableDirect
<1>13. Qmi!Program[38] = Qmi!CheckId
  <2>1. Qmi!Program[38] = <<Qmi!CheckId>>[1]
    BY PartsAre, PartsOfProgram DEF Has
  <2> QED
    BY <2>1
<1>14. /\ Qmi!Program[39] = Qmi!Csr(TRUE, FALSE)
       /\ Qmi!Program[40] = Qmi!Poll("busy")
  <2>1. /\ Qmi!Program[39] = Qmi!EnableDirect[1]
        /\ Qmi!Program[40] = Qmi!EnableDirect[2]
    BY PartsAre, PartsOfProgram DEF Has
  <2> QED
    BY <2>1 DEF Qmi!EnableDirect
<1>15. /\ Qmi!Program[41] = Qmi!Csr(TRUE, TRUE)
       /\ Qmi!Program[42] = Qmi!Tx("single", Qmi!RESETEN)
       /\ Qmi!Program[43] = Qmi!Poll("busy")
       /\ Qmi!Program[44] = Qmi!Csr(TRUE, FALSE)
       /\ Qmi!Program[45] = Qmi!Rx("none")
  <2>1. /\ Qmi!Program[41] = Qmi!Command(Qmi!RESETEN)[1]
        /\ Qmi!Program[42] = Qmi!Command(Qmi!RESETEN)[2]
        /\ Qmi!Program[43] = Qmi!Command(Qmi!RESETEN)[3]
        /\ Qmi!Program[44] = Qmi!Command(Qmi!RESETEN)[4]
        /\ Qmi!Program[45] = Qmi!Command(Qmi!RESETEN)[5]
    BY PartsAre, PartsOfProgram DEF Has
  <2> QED
    BY <2>1 DEF Qmi!Command
<1>16. /\ Qmi!Program[46] = Qmi!Csr(TRUE, TRUE)
       /\ Qmi!Program[47] = Qmi!Tx("single", Qmi!RESET)
       /\ Qmi!Program[48] = Qmi!Poll("busy")
       /\ Qmi!Program[49] = Qmi!Csr(TRUE, FALSE)
       /\ Qmi!Program[50] = Qmi!Rx("none")
  <2>1. /\ Qmi!Program[46] = Qmi!Command(Qmi!RESET)[1]
        /\ Qmi!Program[47] = Qmi!Command(Qmi!RESET)[2]
        /\ Qmi!Program[48] = Qmi!Command(Qmi!RESET)[3]
        /\ Qmi!Program[49] = Qmi!Command(Qmi!RESET)[4]
        /\ Qmi!Program[50] = Qmi!Command(Qmi!RESET)[5]
    BY PartsAre, PartsOfProgram DEF Has
  <2> QED
    BY <2>1 DEF Qmi!Command
<1>17. /\ Qmi!Program[51] = Qmi!Csr(TRUE, TRUE)
       /\ Qmi!Program[52] = Qmi!Tx("single", Qmi!QUAD)
       /\ Qmi!Program[53] = Qmi!Poll("busy")
       /\ Qmi!Program[54] = Qmi!Csr(TRUE, FALSE)
       /\ Qmi!Program[55] = Qmi!Rx("none")
  <2>1. /\ Qmi!Program[51] = Qmi!Command(Qmi!QUAD)[1]
        /\ Qmi!Program[52] = Qmi!Command(Qmi!QUAD)[2]
        /\ Qmi!Program[53] = Qmi!Command(Qmi!QUAD)[3]
        /\ Qmi!Program[54] = Qmi!Command(Qmi!QUAD)[4]
        /\ Qmi!Program[55] = Qmi!Command(Qmi!QUAD)[5]
    BY PartsAre, PartsOfProgram DEF Has
  <2> QED
    BY <2>1 DEF Qmi!Command
<1>18. Qmi!Program[56] = Qmi!Csr(FALSE, FALSE)
  <2>1. Qmi!Program[56] = Qmi!DisableDirect[1]
    BY PartsAre, PartsOfProgram DEF Has
  <2> QED
    BY <2>1 DEF Qmi!DisableDirect
<1>19. /\ Qmi!Program[57] = Qmi!M1("timing")
       /\ Qmi!Program[58] = Qmi!M1("rfmt")
       /\ Qmi!Program[59] = Qmi!M1("rcmd")
       /\ Qmi!Program[60] = Qmi!M1("wfmt")
       /\ Qmi!Program[61] = Qmi!M1("wcmd")
  <2>1. /\ Qmi!Program[57] = M1Writes[1]
        /\ Qmi!Program[58] = M1Writes[2]
        /\ Qmi!Program[59] = M1Writes[3]
        /\ Qmi!Program[60] = M1Writes[4]
        /\ Qmi!Program[61] = M1Writes[5]
    BY PartsAre, PartsOfProgram DEF Has
  <2> QED
    BY <2>1 DEF M1Writes
<1>20. Qmi!Program[62] = Qmi!Writable
  <2>1. Qmi!Program[62] = <<Qmi!Writable>>[1]
    BY PartsAre, PartsOfProgram DEF Has
  <2> QED
    BY <2>1
<1> QED
  BY <1>1, <1>2, <1>3, <1>4, <1>5, <1>6, <1>7, <1>8, <1>9, <1>10, <1>11, <1>12, <1>13,
     <1>14, <1>15, <1>16, <1>17, <1>18, <1>19, <1>20

-----------------------------------------------------------------------------
(* The invariant of the PSRAM setup: what is so at which access            *)

\* Where direct mode is on, and where the chip is selected.
Direct == 2 .. 37 \cup 40 .. 56
Selected == 4 .. 7 \cup 9 .. 37 \cup 42 .. 44 \cup 47 .. 49 \cup 52 .. 54

\* The places of the accesses of each kind.
CsrAt == {1, 3, 7, 8, 37, 39, 41, 44, 46, 49, 51, 54, 56}
TxAt == {4, 9, 13, 17, 21, 25, 29, 33, 42, 47, 52}
BusyAt == {2, 5, 11, 15, 19, 23, 27, 31, 35, 40, 43, 48, 53}
EmptyAt == {10, 14, 18, 22, 26, 30, 34}
RxAt == {6, 12, 16, 20, 24, 28, 32, 36, 45, 50, 55}

\* Behind a write of DIRECT_TX, while its frame may still be there; behind a poll
\* that has seen it go, while its answer waits; behind the write that enables
\* direct mode.
Sending == {5, 10, 14, 18, 22, 26, 30, 34, 43, 48, 53}
Waiting == {6, 11, 12, 15, 16, 19, 20, 23, 24, 27, 28, 31, 32, 35, 36,
            44, 45, 49, 50, 54, 55}
Cooling == {2, 40}

\* The frame that has been written at n.
FrameAt(n) == IF n = 5 THEN <<"quad", 245>>
              ELSE <<"single", IF n = 10 THEN 159 ELSE IF n = 43 THEN 102
                               ELSE IF n = 48 THEN 153 ELSE IF n = 53 THEN 53
                               ELSE 255>>

OneByte == 0 .. 255

QShape ==
  /\ at \in 1 .. 63
  /\ kgd \in OneByte /\ eid \in OneByte
  /\ chip \in [id : Chip, mode : {"spi", "qpi"}, armed : BOOLEAN]
  /\ window \in [frames : Nat, command : OneByte]
  /\ en \in BOOLEAN /\ (en <=> at \in Direct)
  /\ cs \in BOOLEAN /\ (cs <=> at \in Selected)

\* One frame at most is on its way, or one answer; never one that is not expected.
Queues ==
  \/ at \in Sending /\ tx = <<FrameAt(at)>> /\ rx = <<>> /\ engine \in {"idle", "frame"}
  \/ /\ at \in Sending \cup Waiting /\ tx = <<>> /\ engine = "idle"
     /\ \E b \in OneByte : rx = <<b>>
  \/ at \in Cooling /\ tx = <<>> /\ rx = <<>> /\ engine \in {"idle", "cooldown"}
  \/ at \notin Sending \cup Waiting \cup Cooling
     /\ tx = <<>> /\ rx = <<>> /\ engine = "idle"

\* The answers to the sixth and the seventh byte are the ID's.
Answers ==
  /\ at \in 30 .. 32 /\ tx = <<>> => rx = <<chip.id.kgd>>
  /\ at \in 34 .. 36 /\ tx = <<>> => rx = <<chip.id.eid>>
  /\ at >= 33 => kgd = chip.id.kgd
  /\ at >= 37 => eid = chip.id.eid

\* What the chip has seen since its CS fell.
Heard(from, command) ==
  window = IF at = from \/ tx # <<>> THEN Qmi!NoWindow
           ELSE [frames |-> 1, command |-> command]

HeardId ==
  /\ window.command = IF window.frames = 0 THEN 0 ELSE 159
  /\ at \in TxAt \cup {37} => 4 * window.frames = at - 9
  /\ at \in EmptyAt => 4 * window.frames = IF tx = <<>> THEN at - 6 ELSE at - 10
  /\ at \in BusyAt => 4 * window.frames = at - 7
  /\ at \in RxAt => 4 * window.frames = at - 8

Windows ==
  /\ ~cs => window = Qmi!NoWindow
  /\ at \in 4 .. 7 => Heard(4, IF chip.mode = "qpi" THEN 245 ELSE 0)
  /\ at \in 9 .. 37 => HeardId
  /\ at \in 42 .. 44 => Heard(42, 102)
  /\ at \in 47 .. 49 => Heard(47, 153)
  /\ at \in 52 .. 54 => Heard(52, 53)

\* The mode that the commands have brought the chip into.
Modes ==
  /\ at \in 8 .. 54 => chip.mode = "spi"
  /\ at \in 55 .. 62 => chip.mode = "qpi"
  /\ at \in 45 .. 49 => chip.armed

\* The registers of the memory window.
M1Written == IF at <= 57 THEN {}
             ELSE IF at = 58 THEN {"timing"}
             ELSE IF at = 59 THEN {"timing", "rfmt"}
             ELSE IF at = 60 THEN {"timing", "rfmt", "rcmd"}
             ELSE IF at = 61 THEN {"timing", "rfmt", "rcmd", "wfmt"}
             ELSE Qmi!M1Regs

Results ==
  /\ at <= 62 => size = 0 /\ writable = FALSE /\ m1 = M1Written
  /\ at \in 39 .. 62 => chip.id.kgd = 93
  /\ at = 63 =>
       IF chip.id.kgd = 93
       THEN /\ chip.mode = "qpi" /\ m1 = Qmi!M1Regs /\ writable = TRUE
            /\ size = Qmi!MiB(chip.id.eid)
       ELSE size = 0 /\ m1 = {} /\ writable = FALSE

QInv == QShape /\ Queues /\ Answers /\ Windows /\ Modes /\ Results

\* What a queue of one is.
LEMMA Single ==
  \A b : /\ Head(<<b>>) = b /\ Tail(<<b>>) = <<>> /\ Len(<<b>>) = 1 /\ <<b>> # <<>>
         /\ Append(<<>>, b) = <<b>>
OBVIOUS

\* The places of the accesses, and what they say.
LEMMA Kinds ==
  ASSUME at \in 1 .. 63
  PROVE  /\ Qmi!Returned = 63
         /\ Qmi!At("csr") => /\ at \in CsrAt
                             /\ Qmi!Now.en <=> at + 1 \in Direct
                             /\ Qmi!Now.cs <=> at + 1 \in Selected
                             /\ Qmi!Now.en \in BOOLEAN /\ Qmi!Now.cs \in BOOLEAN
         /\ Qmi!At("tx") => at \in TxAt /\ Qmi!Now.frame = FrameAt(at + 1)
         /\ Qmi!At("poll") => \/ at \in BusyAt /\ Qmi!Now.flag = "busy"
                              \/ at \in EmptyAt /\ Qmi!Now.flag = "txempty"
         /\ Qmi!At("rx") => /\ at \in RxAt
                            /\ Qmi!Now.var = IF at = 32 THEN "kgd"
                                             ELSE IF at = 36 THEN "eid" ELSE "none"
         /\ Qmi!At("check") => at = 38
         /\ Qmi!At("m1") => /\ at \in 57 .. 61
                            /\ M1Written \cup {Qmi!Now.reg} =
                                 IF at = 57 THEN {"timing"}
                                 ELSE IF at = 58 THEN {"timing", "rfmt"}
                                 ELSE IF at = 59 THEN {"timing", "rfmt", "rcmd"}
                                 ELSE IF at = 60 THEN {"timing", "rfmt", "rcmd", "wfmt"}
                                 ELSE Qmi!M1Regs
         /\ Qmi!At("writable") => at = 62
<1>1. /\ \A n \in CsrAt : Qmi!Program[n].do = "csr"
      /\ \A n \in TxAt : Qmi!Program[n].do = "tx"
      /\ \A n \in BusyAt \cup EmptyAt : Qmi!Program[n].do = "poll"
      /\ \A n \in RxAt : Qmi!Program[n].do = "rx"
      /\ Qmi!Program[38].do = "check"
      /\ \A n \in 57 .. 61 : Qmi!Program[n].do = "m1"
      /\ Qmi!Program[62].do = "writable"
  BY ProgramIs DEF CsrAt, TxAt, BusyAt, EmptyAt, RxAt, Qmi!Csr, Qmi!Tx, Qmi!Poll,
     Qmi!Rx, Qmi!CheckId, Qmi!M1, Qmi!Writable
<1>2. /\ Qmi!Returned = 63
      /\ Qmi!At("csr") => at \in CsrAt
      /\ Qmi!At("tx") => at \in TxAt
      /\ Qmi!At("poll") => at \in BusyAt \cup EmptyAt
      /\ Qmi!At("rx") => at \in RxAt
      /\ Qmi!At("check") => at = 38
      /\ Qmi!At("m1") => at \in 57 .. 61
      /\ Qmi!At("writable") => at = 62
  BY <1>1, ProgramIs DEF CsrAt, TxAt, BusyAt, EmptyAt, RxAt, Qmi!At
<1>3. ASSUME at \in CsrAt
      PROVE  /\ Qmi!Now.en <=> at + 1 \in Direct
             /\ Qmi!Now.cs <=> at + 1 \in Selected
             /\ Qmi!Now.en \in BOOLEAN /\ Qmi!Now.cs \in BOOLEAN
  <2>1. /\ \A n \in CsrAt \ {37, 56} : Qmi!Program[n].en = TRUE
        /\ \A n \in {37, 56} : Qmi!Program[n].en = FALSE
    BY ProgramIs DEF CsrAt, Qmi!Csr
  <2>2. /\ \A n \in {3, 8, 41, 46, 51} : Qmi!Program[n].cs = TRUE
        /\ \A n \in CsrAt \ {3, 8, 41, 46, 51} : Qmi!Program[n].cs = FALSE
    BY ProgramIs DEF CsrAt, Qmi!Csr
  <2>3. Qmi!Now = Qmi!Program[at]
    BY DEF Qmi!Now
  <2>4. \/ Qmi!Now.en = TRUE /\ at \notin {37, 56}
        \/ Qmi!Now.en = FALSE /\ at \in {37, 56}
    <3>1. CASE at \in {37, 56}
      BY <2>1, <2>3, <3>1
    <3>2. CASE at \notin {37, 56}
      <4>1. at \in CsrAt \ {37, 56}
        BY <1>3, <3>2
      <4> QED
        BY <2>1, <2>3, <3>2, <4>1
    <3> QED
      BY <3>1, <3>2
  <2>5. \/ Qmi!Now.cs = TRUE /\ at \in {3, 8, 41, 46, 51}
        \/ Qmi!Now.cs = FALSE /\ at \notin {3, 8, 41, 46, 51}
    <3>1. CASE at \in {3, 8, 41, 46, 51}
      BY <2>2, <2>3, <3>1
    <3>2. CASE at \notin {3, 8, 41, 46, 51}
      <4>1. at \in CsrAt \ {3, 8, 41, 46, 51}
        BY <1>3, <3>2
      <4> QED
        BY <2>2, <2>3, <3>2, <4>1
    <3> QED
      BY <3>1, <3>2
  <2>6. at + 1 \in Direct <=> at \notin {37, 56}
    BY <1>3 DEF CsrAt, Direct
  <2>7. at + 1 \in Selected <=> at \in {3, 8, 41, 46, 51}
    BY <1>3 DEF CsrAt, Selected
  <2> QED
    BY <2>4, <2>5, <2>6, <2>7
<1>4. at \in TxAt => Qmi!Now.frame = FrameAt(at + 1)
  BY ProgramIs DEF TxAt, Qmi!Now, Qmi!Tx, FrameAt, Qmi!RESETEN, Qmi!RESET, Qmi!QUAD
<1>5. /\ at \in BusyAt => Qmi!Now.flag = "busy"
      /\ at \in EmptyAt => Qmi!Now.flag = "txempty"
  BY ProgramIs DEF BusyAt, EmptyAt, Qmi!Now, Qmi!Poll
<1>6. at \in RxAt => Qmi!Now.var = IF at = 32 THEN "kgd"
                                   ELSE IF at = 36 THEN "eid" ELSE "none"
  BY ProgramIs DEF RxAt, Qmi!Now, Qmi!Rx
<1>7. at \in 57 .. 61 =>
        Qmi!Now.reg = IF at = 57 THEN "timing" ELSE IF at = 58 THEN "rfmt"
                      ELSE IF at = 59 THEN "rcmd" ELSE IF at = 60 THEN "wfmt"
                      ELSE "wcmd"
  BY ProgramIs DEF Qmi!Now, Qmi!M1
<1>8. at \in 57 .. 61 => M1Written \cup {Qmi!Now.reg} =
                                 IF at = 57 THEN {"timing"}
                                 ELSE IF at = 58 THEN {"timing", "rfmt"}
                                 ELSE IF at = 59 THEN {"timing", "rfmt", "rcmd"}
                                 ELSE IF at = 60 THEN {"timing", "rfmt", "rcmd", "wfmt"}
                                 ELSE Qmi!M1Regs
  BY <1>7 DEF M1Written, Qmi!M1Regs
<1> QED
  BY <1>2, <1>3, <1>4, <1>5, <1>6, <1>8

-----------------------------------------------------------------------------
(* Every step of the driver keeps the invariant                            *)

\* A frame is queued only where none is on its way and no answer waits.
LEMMA WriteTxKeeps == ASSUME QInv, Qmi!WriteTx PROVE QInv'
<1>1. /\ at \in TxAt /\ at' = at + 1
      /\ tx' = Append(tx, FrameAt(at + 1))
      /\ UNCHANGED <<kgd, eid, size, en, cs, rx, engine, m1, writable, chip, window>>
  BY Kinds DEF QInv, QShape, Qmi!WriteTx, Qmi!GoOn
<1>2. tx = <<>> /\ rx = <<>> /\ engine = "idle"
  BY <1>1 DEF QInv, Queues, TxAt, Sending, Waiting, Cooling
<1>3. tx' = <<FrameAt(at')>> /\ tx' # <<>>
  BY <1>1, <1>2, Single
<1>4. QShape'
  BY <1>1 DEF QInv, QShape, TxAt, Direct, Selected
<1>5. Queues'
  BY <1>1, <1>2, <1>3 DEF Queues, TxAt, Sending
<1>6. Answers'
  BY <1>1, <1>3 DEF QInv, Answers, TxAt
<1>7. Windows'
  <2>1. at \in {4, 42, 47, 52} => window = Qmi!NoWindow
    BY DEF QInv, Windows, Heard
  <2>2. at \in 9 .. 33 => HeardId'
    <3> SUFFICES ASSUME at \in 9 .. 33 PROVE HeardId'
      OBVIOUS
    <3>1. 4 * window.frames = at - 9 /\ window' = window /\ at' = at + 1
      BY <1>1 DEF QInv, Windows, HeardId
    <3>2. at' \in EmptyAt /\ at' \notin TxAt \cup {37} \cup BusyAt \cup RxAt
      BY <1>1, <3>1 DEF TxAt, EmptyAt, BusyAt, RxAt
    <3>3. window.command = IF window.frames = 0 THEN 0 ELSE 159
      BY DEF QInv, Windows, HeardId
    <3>4. at' - 10 = at - 9
      BY <3>1 DEF QInv, QShape
    <3> QED
      BY <1>3, <3>1, <3>2, <3>3, <3>4 DEF HeardId
  <2>3. cs' = TRUE
    BY <1>1, <1>4 DEF QShape, TxAt, Selected
  <2>4. CASE at \in 9 .. 33
    BY <1>1, <2>2, <2>3, <2>4 DEF Windows
  <2>5. CASE at \in {4, 42, 47, 52}
    <3>1. window' = Qmi!NoWindow
      BY <1>1, <2>1, <2>5
    <3> QED
      BY <1>1, <1>3, <2>3, <2>5, <3>1 DEF Windows, Heard
  <2> QED
    BY <1>1, <2>4, <2>5 DEF TxAt
<1>8. Modes'
  BY <1>1 DEF QInv, Modes, TxAt
<1>9. Results'
  <2>1. M1Written' = {} /\ M1Written = {}
    BY <1>1 DEF M1Written, TxAt
  <2> QED
    BY <1>1, <2>1 DEF QInv, Results, TxAt
<1> QED
  BY <1>4, <1>5, <1>6, <1>7, <1>8, <1>9 DEF QInv

\* A poll that lets the driver go on has seen the frame go, or the cooldown end.
LEMMA PollCsrKeeps == ASSUME QInv, Qmi!PollCsr PROVE QInv'
<1>1. /\ at' = at + 1
      /\ UNCHANGED <<kgd, eid, size, en, cs, tx, rx, engine, m1, writable, chip,
                    window>>
      /\ at \in BusyAt \cup EmptyAt
      /\ at \in BusyAt \/ at \in EmptyAt
  BY Kinds DEF QInv, QShape, Qmi!PollCsr, Qmi!GoOn, Qmi!qmi
<1>2. tx = <<>> /\ (at \in BusyAt => engine = "idle")
  <2>1. CASE Qmi!Now.flag = "busy"
    BY <2>1 DEF Qmi!PollCsr, Qmi!Busy, QInv, Queues, BusyAt, Sending, Waiting, Cooling
  <2>2. CASE Qmi!Now.flag # "busy"
    <3>1. at \in EmptyAt
      BY <2>2, Kinds DEF QInv, QShape, Qmi!PollCsr
    <3> QED
      BY <2>2, <3>1 DEF Qmi!PollCsr, EmptyAt, BusyAt
  <2> QED
    BY <2>1, <2>2
<1>3. QShape'
  BY <1>1 DEF QInv, QShape, BusyAt, EmptyAt, Direct, Selected
<1>4. Queues'
  <2>1. CASE at \in Sending \cup Waiting
    <3>1. engine = "idle" /\ \E b \in OneByte : rx = <<b>>
      BY <1>2, <2>1, Single DEF QInv, Queues, Sending, Waiting, Cooling
    <3>2. at' \in Waiting
      BY <1>1, <2>1 DEF Sending, Waiting, BusyAt, EmptyAt
    <3> QED
      BY <1>1, <1>2, <3>1, <3>2 DEF Queues
  <2>2. CASE at \in Cooling
    BY <1>1, <1>2, <2>2 DEF QInv, Queues, Sending, Waiting, Cooling, BusyAt
  <2> QED
    BY <1>1, <2>1, <2>2 DEF Sending, Waiting, Cooling, BusyAt, EmptyAt
<1>5. Answers'
  BY <1>1, <1>2 DEF QInv, Answers, BusyAt, EmptyAt
<1>6. Windows'
  <2>1. CASE at \in 10 .. 35
    <3>1. HeardId'
      BY <1>1, <1>2, <2>1
      DEF QInv, Windows, HeardId, QShape, TxAt, EmptyAt, BusyAt, RxAt
    <3>2. at' \in 11 .. 36 /\ cs' = TRUE
      BY <1>1, <1>3, <2>1 DEF QShape, Selected
    <3> QED
      BY <3>1, <3>2 DEF Windows
  <2>2. CASE at \in {2, 5, 40, 43, 48, 53}
    BY <1>1, <1>2, <1>3, <2>2 DEF QInv, QShape, Windows, Heard, Selected
  <2> QED
    BY <1>1, <2>1, <2>2 DEF BusyAt, EmptyAt
<1>7. Modes'
  BY <1>1 DEF QInv, Modes, BusyAt, EmptyAt
<1>8. Results'
  <2>1. M1Written' = {} /\ M1Written = {}
    BY <1>1 DEF M1Written, BusyAt, EmptyAt
  <2> QED
    BY <1>1, <2>1 DEF QInv, Results, BusyAt, EmptyAt
<1> QED
  BY <1>3, <1>4, <1>5, <1>6, <1>7, <1>8 DEF QInv

\* A read of DIRECT_RX takes the one answer that waits.
LEMMA ReadRxKeeps == ASSUME QInv, Qmi!ReadRx PROVE QInv'
<1>1. /\ at' = at + 1 /\ at \in RxAt
      /\ UNCHANGED <<size, en, cs, tx, engine, m1, writable, chip, window>>
      /\ Qmi!Now.var = IF at = 32 THEN "kgd" ELSE IF at = 36 THEN "eid" ELSE "none"
  BY Kinds DEF QInv, QShape, Qmi!ReadRx, Qmi!GoOn
<1>2. PICK b \in OneByte : rx = <<b>>
  BY <1>1 DEF QInv, Queues, RxAt, Sending, Waiting, Cooling
<1>3. rx' = <<>> /\ tx = <<>> /\ engine = "idle"
  <2>1. rx # <<>> /\ Tail(rx) = <<>>
    BY <1>2, Single
  <2>2. rx' = Tail(rx)
    BY <2>1 DEF Qmi!ReadRx
  <2> QED
    BY <1>1, <2>1, <2>2 DEF QInv, Queues, RxAt, Sending, Waiting, Cooling
<1>4. /\ kgd' = IF at = 32 THEN b ELSE kgd
      /\ eid' = IF at = 36 THEN b ELSE eid
  <2>1. (IF rx = <<>> THEN 0 ELSE Head(rx)) = b
    BY <1>2, Single
  <2> QED
    BY <1>1, <2>1 DEF Qmi!ReadRx
<1>5. QShape'
  BY <1>1, <1>4 DEF QInv, QShape, RxAt, Direct, Selected
<1>6. Queues'
  BY <1>1, <1>3 DEF Queues, RxAt, Sending, Waiting, Cooling
<1>7. Answers'
  <2>1. /\ at = 32 => b = chip.id.kgd
        /\ at = 36 => b = chip.id.eid
    <3>1. at \in {32, 36} => rx = <<IF at = 32 THEN chip.id.kgd ELSE chip.id.eid>>
      BY <1>3 DEF QInv, Answers
    <3> QED
      BY <1>2, <3>1, Single
  <2> QED
    BY <1>1, <1>4, <2>1 DEF QInv, Answers, RxAt
<1>8. Windows'
  <2>1. CASE at \in 12 .. 36
    <3>1. HeardId'
      BY <1>1, <1>3, <2>1
      DEF QInv, Windows, HeardId, QShape, TxAt, EmptyAt, BusyAt, RxAt
    <3>2. at' \in 13 .. 37 /\ cs' = TRUE
      BY <1>1, <1>5, <2>1 DEF QShape, Selected
    <3> QED
      BY <3>1, <3>2 DEF Windows
  <2>2. CASE at \in {6, 45, 50, 55}
    BY <1>1, <1>3, <1>5, <2>2 DEF QInv, QShape, Windows, Heard, Selected
  <2> QED
    BY <1>1, <2>1, <2>2 DEF RxAt
<1>9. Modes'
  BY <1>1 DEF QInv, Modes, RxAt
<1>10. Results'
  <2>1. M1Written' = {} /\ M1Written = {}
    BY <1>1 DEF M1Written, RxAt
  <2> QED
    BY <1>1, <2>1 DEF QInv, Results, RxAt
<1> QED
  BY <1>5, <1>6, <1>7, <1>8, <1>9, <1>10 DEF QInv

\* After the test of the ID the driver goes on, or returns, and it changes only the
\* registers of the memory window from there.
LEMMA LaterKeeps ==
  ASSUME QInv, Qmi!TestId \/ Qmi!ProgramM1 \/ Qmi!MakeWritable
  PROVE  QInv'
<1>1. /\ UNCHANGED <<kgd, eid, en, cs, tx, rx, engine, chip, window>>
      /\ \/ /\ at = 38 /\ at' = (IF kgd = 93 THEN 39 ELSE 63)
            /\ UNCHANGED <<size, m1, writable>>
         \/ at \in 57 .. 61 /\ at' = at + 1 /\ UNCHANGED <<size, writable>>
         \/ /\ at = 62 /\ at' = 63 /\ size' = Qmi!MiB(eid) /\ writable' = TRUE
            /\ UNCHANGED m1
  BY Kinds
  DEF QInv, QShape, Qmi!TestId, Qmi!ProgramM1, Qmi!MakeWritable, Qmi!GoOn, Qmi!qmi
<1>2. at \in {38} \cup 57 .. 62 /\ at' \in {39, 63} \cup 58 .. 62
  BY <1>1
<1>3. QShape'
  BY <1>1, <1>2 DEF QInv, QShape, Direct, Selected
<1>4. Queues'
  BY <1>1, <1>2 DEF QInv, Queues, Sending, Waiting, Cooling
<1>5. Answers'
  BY <1>1, <1>2 DEF QInv, Answers
<1>6. Windows'
  BY <1>1, <1>2, <1>3 DEF QInv, QShape, Windows, Selected
<1>7. Modes'
  BY <1>1, <1>2 DEF QInv, Modes
<1>8. Results'
  <2>0. kgd = chip.id.kgd /\ eid = chip.id.eid
    BY <1>2 DEF QInv, Answers
  <2>1. CASE at = 38
    <3>1. M1Written = {} /\ (at' = 39 => M1Written' = {})
      BY <2>1 DEF M1Written
    <3> QED
      BY <1>1, <2>0, <2>1, <3>1 DEF QInv, Results
  <2>2. CASE at \in 57 .. 61
    <3>1. m1' = M1Written'
      <4>1. m1' = M1Written \cup {Qmi!Now.reg}
        BY <1>1, <2>2, Kinds
        DEF QInv, QShape, Results, Qmi!ProgramM1, Qmi!TestId, Qmi!MakeWritable
      <4>2. Qmi!At("m1")
        BY <1>1, <2>2, Kinds
        DEF QInv, QShape, Qmi!ProgramM1, Qmi!TestId, Qmi!MakeWritable
      <4>3. M1Written \cup {Qmi!Now.reg} = M1Written'
        BY <1>1, <2>2, <4>2, Kinds DEF QInv, QShape, M1Written
      <4> QED
        BY <4>1, <4>3
    <3> QED
      BY <1>1, <2>2, <3>1 DEF QInv, Results
  <2>3. CASE at = 62
    <3>1. M1Written = Qmi!M1Regs
      BY <2>3 DEF M1Written
    <3> QED
      BY <1>1, <2>0, <2>3, <3>1 DEF QInv, QShape, Results, Modes
  <2> QED
    BY <1>2, <2>1, <2>2, <2>3
<1> QED
  BY <1>3, <1>4, <1>5, <1>6, <1>7, <1>8 DEF QInv

\* What a command does to the chip.
LEMMA ObeyIs ==
  ASSUME chip \in [id : Chip, mode : {"spi", "qpi"}, armed : BOOLEAN], NEW w
  PROVE  /\ Qmi!Obey(w).id = chip.id
         /\ Qmi!Obey(w) \in [id : Chip, mode : {"spi", "qpi"}, armed : BOOLEAN]
         /\ Qmi!Obey(w).mode =
              IF w.command = 245 /\ chip.mode = "qpi" THEN "spi"
              ELSE IF w.command = 153 /\ chip.armed THEN "spi"
              ELSE IF w.command = 53 /\ chip.mode = "spi" THEN "qpi"
              ELSE chip.mode
         /\ w.frames # 0 /\ w.command = 102 => Qmi!Obey(w).armed
<1>1. /\ Qmi!Obey(w).id = chip.id
      /\ Qmi!Obey(w) \in [id : Chip, mode : {"spi", "qpi"}, armed : BOOLEAN]
      /\ w.frames # 0 /\ w.command = 102 => Qmi!Obey(w).armed
  BY DEF Qmi!Obey, Qmi!RESETEN
<1>2. Qmi!Obey(w).mode =
        IF w.command = 245 /\ chip.mode = "qpi" THEN "spi"
        ELSE IF w.command = 153 /\ chip.armed THEN "spi"
        ELSE IF w.command = 53 /\ chip.mode = "spi" THEN "qpi"
        ELSE chip.mode
  BY DEF Qmi!Obey, Qmi!RESET, Qmi!QUAD
<1> QED
  BY <1>1, <1>2

\* A chip that is not selected has heard nothing.
LEMMA NoWindowIs ==
  /\ Qmi!NoWindow \in [frames : Nat, command : OneByte]
  /\ Qmi!NoWindow.frames = 0 /\ Qmi!NoWindow.command = 0
BY DEF Qmi!NoWindow, OneByte

\* Every command that the chip obeys brings it a step further.
LEMMA WriteCsrKeeps == ASSUME QInv, Qmi!WriteCsr PROVE QInv'
<1>1. /\ at' = at + 1 /\ at \in CsrAt
      /\ en' = Qmi!Now.en /\ cs' = Qmi!Now.cs
      /\ en' \in BOOLEAN /\ cs' \in BOOLEAN
      /\ en' <=> at + 1 \in Direct
      /\ cs' <=> at + 1 \in Selected
      /\ UNCHANGED <<kgd, eid, size, tx, rx, m1, writable>>
      /\ engine' = IF Qmi!Now.en /\ ~en THEN "cooldown" ELSE engine
  BY Kinds DEF QInv, QShape, Qmi!WriteCsr, Qmi!GoOn
<1>2. tx = <<>> /\ engine = "idle"
  BY <1>1 DEF QInv, Queues, CsrAt, Sending, Waiting, Cooling
<1>3. engine' = IF at \in {1, 39} THEN "cooldown" ELSE "idle"
  BY <1>1, <1>2 DEF QInv, QShape, CsrAt, Direct
<1>4. at \in {7, 37, 44, 49, 54} => chip' = Qmi!Obey(window) /\ window' = Qmi!NoWindow
  BY <1>1 DEF QInv, QShape, Qmi!WriteCsr, CsrAt, Selected
<1>5. at \notin {7, 37, 44, 49, 54} => chip' = chip /\ window' = window
  BY <1>1 DEF QInv, QShape, Qmi!WriteCsr, CsrAt, Selected
<1>6. window' = Qmi!NoWindow
  BY <1>1, <1>4, <1>5 DEF QInv, QShape, Windows, CsrAt, Selected
<1>7. /\ chip'.id = chip.id
      /\ chip' \in [id : Chip, mode : {"spi", "qpi"}, armed : BOOLEAN]
      /\ at \in {7, 37, 44, 49} => chip'.mode = "spi"
      /\ at = 44 => chip'.armed
      /\ at = 54 => chip'.mode = "qpi"
  <2>0. chip \in [id : Chip, mode : {"spi", "qpi"}, armed : BOOLEAN]
    BY DEF QInv, QShape
  <2>1. CASE at = 7
    <3>1. window = [frames |-> 1, command |-> IF chip.mode = "qpi" THEN 245 ELSE 0]
      BY <1>2, <2>1 DEF QInv, Windows, Heard
    <3> QED
      BY <1>4, <2>0, <2>1, <3>1, ObeyIs
  <2>2. CASE at = 37
    <3>1. window.frames = 7 /\ window.command = 159
      BY <2>2 DEF QInv, QShape, Windows, HeardId
    <3>2. chip.mode = "spi"
      BY <2>2 DEF QInv, Modes
    <3> QED
      BY <1>4, <2>0, <2>2, <3>1, <3>2, ObeyIs
  <2>3. CASE at = 44
    <3>1. window = [frames |-> 1, command |-> 102]
      BY <1>2, <2>3 DEF QInv, Windows, Heard
    <3>2. chip.mode = "spi"
      BY <2>3 DEF QInv, Modes
    <3> QED
      BY <1>4, <2>0, <2>3, <3>1, <3>2, ObeyIs
  <2>4. CASE at = 49
    <3>1. window = [frames |-> 1, command |-> 153]
      BY <1>2, <2>4 DEF QInv, Windows, Heard
    <3>2. chip.mode = "spi" /\ chip.armed
      BY <2>4 DEF QInv, Modes
    <3> QED
      BY <1>4, <2>0, <2>4, <3>1, <3>2, ObeyIs
  <2>5. CASE at = 54
    <3>1. window = [frames |-> 1, command |-> 53]
      BY <1>2, <2>5 DEF QInv, Windows, Heard
    <3>2. chip.mode = "spi"
      BY <2>5 DEF QInv, Modes
    <3> QED
      BY <1>4, <2>0, <2>5, <3>1, <3>2, ObeyIs
  <2> QED
    BY <1>5, <2>0, <2>1, <2>2, <2>3, <2>4, <2>5
<1>8. QShape'
  BY <1>1, <1>6, <1>7 DEF QInv, QShape, CsrAt, OneByte, Qmi!NoWindow
<1>9. Queues'
  <2>1. CASE at \in {44, 49, 54}
    <3>1. \E b \in OneByte : rx = <<b>>
      BY <2>1 DEF QInv, Queues, Sending, Waiting, Cooling
    <3> QED
      BY <1>1, <1>2, <1>3, <2>1, <3>1 DEF Queues, Waiting
  <2>2. CASE at \notin {44, 49, 54}
    <3>1. rx = <<>>
      BY <1>1, <2>2 DEF QInv, Queues, CsrAt, Sending, Waiting, Cooling
    <3> QED
      BY <1>1, <1>2, <1>3, <2>2, <3>1 DEF Queues, CsrAt, Sending, Waiting, Cooling
  <2> QED
    BY <2>1, <2>2
<1>10. Answers'
  <2>1. /\ at' \notin 30 .. 32 \cup 34 .. 36
        /\ at' >= 33 => at >= 37
    BY <1>1 DEF CsrAt
  <2>2. at >= 37 => kgd = chip.id.kgd /\ eid = chip.id.eid
    BY <1>1 DEF QInv, Answers, CsrAt
  <2>3. at' >= 33 => kgd' = chip'.id.kgd /\ eid' = chip'.id.eid
    BY <1>1, <1>7, <2>1, <2>2
  <2>4. at' \in 1 .. 63
    BY <1>8 DEF QShape
  <2> QED
    BY <2>1, <2>3, <2>4 DEF Answers
<1>11. Windows'
  <2>1. at' \in 9 .. 37 => at' = 9
    BY <1>1 DEF CsrAt
  <2>2. at' = 9 => HeardId'
    BY <1>6, NoWindowIs DEF HeardId, TxAt, EmptyAt, BusyAt, RxAt
  <2>3. /\ at' \in 4 .. 7 => at' = 4
        /\ at' \in 42 .. 44 => at' = 42
        /\ at' \in 47 .. 49 => at' = 47
        /\ at' \in 52 .. 54 => at' = 52
    BY <1>1 DEF CsrAt
  <2>4. /\ at' = 4 => Heard(4, IF chip.mode = "qpi" THEN 245 ELSE 0)'
        /\ at' = 42 => Heard(42, 102)'
        /\ at' = 47 => Heard(47, 153)'
        /\ at' = 52 => Heard(52, 53)'
    BY <1>6 DEF Heard
  <2> QED
    BY <1>6, <2>1, <2>2, <2>3, <2>4 DEF Windows
<1>12. Modes'
  BY <1>1, <1>5, <1>7 DEF QInv, Modes, CsrAt
<1>13. Results'
  <2>1. M1Written' = {} /\ M1Written = {}
    BY <1>1 DEF M1Written, CsrAt
  <2> QED
    BY <1>1, <1>7, <2>1 DEF QInv, Results, CsrAt
<1> QED
  BY <1>8, <1>9, <1>10, <1>11, <1>12, <1>13 DEF QInv

\* The steps of the driver together.
LEMMA DriverKeeps == ASSUME QInv, Qmi!Driver PROVE QInv'
BY WriteCsrKeeps, WriteTxKeeps, PollCsrKeeps, ReadRxKeeps, LaterKeeps DEF Qmi!Driver

-----------------------------------------------------------------------------
(* So does every step of the QMI, and a restart                            *)

\* The frame stays in the queue until it has left.
LEMMA ShiftStartKeeps == ASSUME QInv, Qmi!ShiftStart PROVE QInv'
<1>1. /\ engine' = "frame" /\ tx # <<>>
      /\ UNCHANGED <<at, kgd, eid, size, en, cs, tx, rx, m1, writable, chip, window>>
  BY DEF Qmi!ShiftStart, Qmi!driver
<1>2. Queues'
  BY <1>1 DEF QInv, Queues
<1> QED
  BY <1>1, <1>2 DEF QInv, QShape, Answers, Windows, Heard, HeardId, Modes, Results,
                    M1Written

\* A cooldown ends where the driver polls for it.
LEMMA CooldownEndKeeps == ASSUME QInv, Qmi!CooldownEnd PROVE QInv'
<1>1. /\ engine = "cooldown" /\ engine' = "idle"
      /\ UNCHANGED <<at, kgd, eid, size, en, cs, tx, rx, m1, writable, chip, window>>
  BY DEF Qmi!CooldownEnd, Qmi!driver
<1>2. Queues'
  BY <1>1 DEF QInv, Queues, Cooling, Sending, Waiting
<1> QED
  BY <1>1, <1>2 DEF QInv, QShape, Answers, Windows, Heard, HeardId, Modes, Results,
                    M1Written

\* The chip hears a command in the width it listens to, and answers READ ID.
LEMMA ShiftEndKeeps == ASSUME QInv, Qmi!ShiftEnd PROVE QInv'
<1>1. /\ engine = "frame" /\ engine' = "idle" /\ tx' = Tail(tx)
      /\ rx' = Append(rx, IF cs THEN Qmi!Driven(window.frames) ELSE 255)
      /\ UNCHANGED <<at, kgd, eid, size, en, cs, m1, writable, chip>>
  BY DEF Qmi!ShiftEnd, Qmi!driver
<1>2. at \in Sending /\ tx = <<FrameAt(at)>> /\ rx = <<>>
  BY <1>1 DEF QInv, Queues
<1>3. cs = TRUE
  BY <1>2 DEF QInv, QShape, Sending, Selected
<1>4. /\ tx # <<>> /\ tx' = <<>> /\ Head(tx) = FrameAt(at)
      /\ rx' = <<Qmi!Driven(window.frames)>>
  BY <1>1, <1>2, <1>3, Single
<1>5. /\ chip.id \in [kgd : OneByte, eid : OneByte]
      /\ Qmi!Driven(window.frames) \in OneByte
  BY ChipAssumption DEF QInv, QShape, OneByte, Qmi!Driven
<1>6. window' = [frames |-> window.frames + 1,
                 command |-> IF window.frames = 0 /\ Qmi!Understood(FrameAt(at))
                             THEN FrameAt(at)[2] ELSE window.command]
  BY <1>3, <1>4 DEF Qmi!ShiftEnd
<1>7. FrameAt(at)[2] \in OneByte
  BY DEF FrameAt, OneByte
<1>8. QShape'
  BY <1>1, <1>6, <1>7 DEF QInv, QShape
<1>9. Queues'
  BY <1>1, <1>2, <1>4, <1>5 DEF Queues
<1>10. Windows'
  <2>1. CASE at = 5
    <3>1. window = Qmi!NoWindow
      BY <1>2, <1>4, <2>1 DEF QInv, Windows, Heard
    <3>2. /\ FrameAt(at) = <<"quad", 245>>
          /\ Qmi!Understood(FrameAt(at)) <=> chip.mode = "qpi"
      BY <2>1 DEF FrameAt, Qmi!Understood
    <3>3. window' = [frames |-> 1, command |-> IF chip.mode = "qpi" THEN 245 ELSE 0]
      BY <1>6, <3>1, <3>2 DEF Qmi!NoWindow
    <3> QED
      BY <1>1, <1>3, <1>4, <2>1, <3>3 DEF Windows, Heard
  <2>2. ASSUME at # 5
        PROVE  Qmi!Understood(FrameAt(at)) /\ FrameAt(at) = <<"single", FrameAt(at)[2]>>
    <3>1. chip.mode = "spi"
      BY <1>2, <2>2 DEF QInv, Modes, Sending
    <3> QED
      BY <2>2, <3>1 DEF FrameAt, Qmi!Understood
  <2>3. CASE at \in EmptyAt
    <3>1. /\ 4 * window.frames = at - 10
          /\ window.command = IF window.frames = 0 THEN 0 ELSE 159
          /\ window.frames \in Nat
      BY <1>4, <2>3 DEF QInv, QShape, Windows, HeardId, EmptyAt
    <3>2. at = 10 <=> window.frames = 0
      BY <2>3, <3>1 DEF EmptyAt
    <3>3. at = 10 => FrameAt(at)[2] = 159
      BY DEF FrameAt
    <3>4. /\ window'.frames = window.frames + 1
          /\ window'.command = 159
      BY <1>6, <2>2, <2>3, <3>1, <3>2, <3>3 DEF EmptyAt
    <3>5. window'.frames # 0 /\ 4 * window'.frames = at - 6
      <4>1. at \in Int
        BY <2>3 DEF EmptyAt
      <4>2. \A f \in Nat, n \in Int :
              4 * f = n - 10 => f + 1 # 0 /\ 4 * (f + 1) = n - 6
        OBVIOUS
      <4>3. window.frames + 1 # 0 /\ 4 * (window.frames + 1) = at - 6
        BY <3>1, <4>1, <4>2
      <4> QED
        BY <3>4, <4>3
    <3>6. at \notin TxAt \cup {37} \cup BusyAt \cup RxAt
      BY <2>3 DEF TxAt, EmptyAt, BusyAt, RxAt
    <3>7. HeardId'
      BY <1>1, <1>4, <3>4, <3>5, <3>6 DEF HeardId
    <3> QED
      BY <1>1, <1>3, <2>3, <3>7 DEF Windows, EmptyAt
  <2>4. CASE at \in {43, 48, 53}
    <3>1. window = Qmi!NoWindow
      BY <1>2, <1>4, <2>4 DEF QInv, Windows, Heard
    <3>2. FrameAt(at)[2] = IF at = 43 THEN 102 ELSE IF at = 48 THEN 153 ELSE 53
      BY <2>4 DEF FrameAt
    <3>3. window' = [frames |-> 1, command |-> FrameAt(at)[2]]
      BY <1>6, <2>2, <2>4, <3>1 DEF Qmi!NoWindow
    <3>4. /\ at = 43 => Heard(42, 102)'
          /\ at = 48 => Heard(47, 153)'
          /\ at = 53 => Heard(52, 53)'
      BY <1>1, <1>4, <3>2, <3>3 DEF Heard
    <3> QED
      BY <1>1, <1>3, <2>4, <3>4 DEF Windows
  <2> QED
    BY <1>2, <2>1, <2>3, <2>4 DEF Sending, EmptyAt
<1>11. Answers'
  <2>1. at = 30 => Qmi!Driven(window.frames) = chip.id.kgd
    <3>1. at = 30 => window.frames = 5 /\ window.command = 159
      BY <1>4 DEF QInv, QShape, Windows, HeardId, EmptyAt
    <3> QED
      BY <3>1 DEF Qmi!Driven
  <2>2. at = 34 => Qmi!Driven(window.frames) = chip.id.eid
    <3>1. at = 34 => window.frames = 6 /\ window.command = 159
      BY <1>4 DEF QInv, QShape, Windows, HeardId, EmptyAt
    <3> QED
      BY <3>1 DEF Qmi!Driven
  <2> QED
    BY <1>1, <1>2, <1>4, <2>1, <2>2 DEF QInv, Answers, Sending
<1> QED
  BY <1>1, <1>8, <1>9, <1>10, <1>11 DEF QInv, Modes, Results, M1Written

\* A restart in the middle of a frame or a command, or at any other point.
LEMMA RestartKeeps == ASSUME QInv, Qmi!Restart PROVE QInv' /\ chip'.id = chip.id
<1>1. /\ chip'.id = chip.id
      /\ chip' \in [id : Chip, mode : {"spi", "qpi"}, armed : BOOLEAN]
  BY ObeyIs DEF QInv, QShape, Qmi!Restart
<1>2. QShape'
  <2>1. /\ at' = 1 /\ kgd' = 0 /\ eid' = 0 /\ en' = FALSE /\ cs' = FALSE
        /\ window' = Qmi!NoWindow
    BY DEF Qmi!Restart
  <2>2. 1 \notin Direct /\ 1 \notin Selected /\ 0 \in OneByte
    BY DEF Direct, Selected, OneByte
  <2>3. (en' <=> at' \in Direct) /\ (cs' <=> at' \in Selected)
    BY <2>1, <2>2
  <2>4. at' \in 1 .. 63
    BY <2>1
  <2>5. en' \in BOOLEAN /\ cs' \in BOOLEAN
    BY <2>1
  <2>6. window' \in [frames : Nat, command : OneByte]
    BY <2>1, NoWindowIs
  <2> QED
    BY <1>1, <2>1, <2>2, <2>3, <2>4, <2>5, <2>6 DEF QShape
<1>3. Queues' /\ Answers' /\ Modes'
  BY DEF Qmi!Restart, Queues, Answers, Modes, Sending, Waiting, Cooling
<1>4. Windows'
  BY DEF Qmi!Restart, Windows
<1>5. Results'
  <2>1. M1Written' = {}
    BY DEF Qmi!Restart, M1Written
  <2> QED
    BY <2>1 DEF Qmi!Restart, Results
<1> QED
  BY <1>1, <1>2, <1>3, <1>4, <1>5 DEF QInv

\* When the board is switched on.
LEMMA QmiInitHolds == ASSUME Qmi!Init PROVE QInv
<1>1. QShape
  <2>1. /\ at = 1 /\ kgd = 0 /\ eid = 0 /\ en = FALSE /\ cs = FALSE
        /\ window = Qmi!NoWindow
        /\ chip \in [id : Chip, mode : {"spi", "qpi"}, armed : BOOLEAN]
    BY DEF Qmi!Init
  <2>2. 1 \notin Direct /\ 1 \notin Selected /\ 0 \in OneByte
    BY DEF Direct, Selected, OneByte
  <2>3. (en <=> at \in Direct) /\ (cs <=> at \in Selected)
    BY <2>1, <2>2
  <2>4. at \in 1 .. 63
    BY <2>1
  <2>5. en \in BOOLEAN /\ cs \in BOOLEAN
    BY <2>1
  <2>6. window \in [frames : Nat, command : OneByte]
    BY <2>1, NoWindowIs
  <2> QED
    BY <2>1, <2>2, <2>3, <2>4, <2>5, <2>6 DEF QShape
<1>2. Queues /\ Answers /\ Modes /\ Windows
  BY DEF Qmi!Init, Queues, Answers, Modes, Windows, Sending, Waiting, Cooling
<1>3. Results
  BY DEF Qmi!Init, Results, M1Written
<1> QED
  BY <1>1, <1>2, <1>3 DEF QInv

-----------------------------------------------------------------------------
(* The board                                                               *)

\* The chip is the one that is fitted, and main waits in psram_setup_and_test for
\* setup_psram.
Joined == /\ restarts \in 0 .. MaxRestarts
          /\ fitted = Capacity(chip.id)
          /\ pc # "start" => at = 63

BInv == QInv /\ Joined

\* The chip that is fitted stays the same through every step of the driver and QMI.
LEMMA ChipStays ==
  ASSUME QInv, Qmi!Driver \/ Qmi!ShiftStart \/ Qmi!ShiftEnd \/ Qmi!CooldownEnd
  PROVE  chip'.id = chip.id
<1>1. chip' = chip \/ chip' = Qmi!Obey(window)
  BY DEF Qmi!Driver, Qmi!WriteCsr, Qmi!WriteTx, Qmi!PollCsr, Qmi!ReadRx, Qmi!TestId,
         Qmi!ProgramM1, Qmi!MakeWritable, Qmi!ShiftStart, Qmi!ShiftEnd, Qmi!CooldownEnd
<1> QED
  BY <1>1, ObeyIs DEF QInv, QShape

\* Behind the last access neither the driver nor the QMI has anything left to do.
LEMMA NothingLeft ==
  ASSUME QInv, at = 63
  PROVE  ~(Qmi!Driver \/ Qmi!ShiftStart \/ Qmi!ShiftEnd \/ Qmi!CooldownEnd)
<1>1. tx = <<>> /\ engine = "idle"
  BY DEF QInv, Queues, Sending, Waiting, Cooling
<1>2. ~Qmi!Driver
  BY Kinds DEF QInv, QShape, Qmi!Driver, Qmi!WriteCsr, Qmi!WriteTx, Qmi!PollCsr,
     Qmi!ReadRx, Qmi!TestId, Qmi!ProgramM1, Qmi!MakeWritable, Qmi!At
<1> QED
  BY <1>1, <1>2 DEF Qmi!ShiftStart, Qmi!ShiftEnd, Qmi!CooldownEnd

\* Every step of main, the driver, the QMI and the user keeps both.
LEMMA BoardKeeps == ASSUME BInv, [BoardNext]_boardVars PROVE BInv'
<1> USE DEF BInv
<1>1. CASE Setup \/ ShiftStart \/ ShiftEnd \/ CooldownEnd
  <2>1. /\ Qmi!Driver \/ Qmi!ShiftStart \/ Qmi!ShiftEnd \/ Qmi!CooldownEnd
        /\ UNCHANGED vars
    BY <1>1 DEF Setup, ShiftStart, ShiftEnd, CooldownEnd
  <2>2. QInv'
    BY <2>1, DriverKeeps, ShiftStartKeeps, ShiftEndKeeps, CooldownEndKeeps
  <2>3. pc = "start"
    BY <2>1, NothingLeft DEF Joined
  <2>4. chip'.id = chip.id
    BY <2>1, ChipStays
  <2>5. fitted' = fitted /\ pc' = pc /\ restarts' = restarts
    BY <2>1 DEF vars, world
  <2> QED
    BY <2>2, <2>3, <2>4, <2>5 DEF Joined, Capacity
<1>2. CASE Return \/ GoOn \/ UNCHANGED boardVars
  <2>1. UNCHANGED qmiVars /\ fitted' = fitted /\ restarts' = restarts
    BY <1>2 DEF Return, AfterSetup, GoOn, boardVars, vars, world, TestExecutability,
      GetSizes, CheckSize, CopyBlock, Fault, Copied, JumpToKernel, Answer, PayloadReturns,
      LeaveMain, Type
  <2>2. QInv'
    BY <2>1 DEF qmiVars, QInv, QShape, Queues, Answers, Windows, Heard, HeardId, Modes,
                Results, M1Written
  <2>3. pc' # "start" => pc # "start" \/ at = 63
    BY <1>2, Kinds DEF QInv, QShape, Return, GoOn, boardVars, vars, TestExecutability,
      GetSizes, CheckSize, CopyBlock, Fault, Copied, JumpToKernel, Answer, PayloadReturns,
      LeaveMain, Type
  <2> QED
    BY <2>1, <2>2, <2>3 DEF Joined, Capacity, qmiVars
<1>3. CASE RestartBoard
  <2>1. QInv' /\ chip'.id = chip.id
    BY <1>3, RestartKeeps DEF RestartBoard
  <2>2. /\ pc' = "start" /\ fitted' = fitted
        /\ restarts < MaxRestarts /\ restarts' = restarts + 1
    BY <1>3 DEF RestartBoard, Restart
  <2>3. restarts' \in 0 .. MaxRestarts
    BY <2>2, BootAssumption DEF Joined
  <2> QED
    BY <2>1, <2>2, <2>3 DEF Joined, Capacity
<1> QED
  BY <1>1, <1>2, <1>3 DEF BoardNext

\* Wherever main, the driver, the QMI and the chip are, the invariant holds.
THEOREM BoardInductive == BoardSpec => []BInv
<1>1. BoardInit => BInv
  BY QmiInitHolds, BootAssumption DEF BoardInit, Init, BInv, Joined
<1> QED
  BY <1>1, BoardKeeps, PTL DEF BoardSpec

-----------------------------------------------------------------------------
(* Theorems about the board                                                *)

\* setup_psram tests and decodes the ID of the chip that is fitted, whatever a
\* restart left in the queues or in the chip.
THEOREM IdIsTheChipsAlways == BoardSpec => []IdIsTheChips
<1>1. BInv => IdIsTheChips
  <2> SUFFICES ASSUME BInv, Qmi!At("check")
               PROVE  rx = <<>> /\ kgd = chip.id.kgd /\ eid = chip.id.eid
    BY DEF IdIsTheChips, Qmi!IdIsTheChips
  <2>1. at = 38
    BY Kinds DEF BInv, QInv, QShape
  <2> QED
    BY <2>1 DEF BInv, QInv, Queues, Answers, Sending, Waiting, Cooling
<1> QED
  BY <1>1, BoardInductive, PTL

\* A queue of one at most.
LEMMA AtMostOne ==
  ASSUME NEW S, NEW q, q = <<>> \/ \E b \in S : q = <<b>>
  PROVE  q \in Seq(S) /\ Len(q) \in 0 .. 1
<1>1. CASE q = <<>>
  BY <1>1
<1>2. CASE \E b \in S : q = <<b>>
  <2>1. PICK b \in S : q = <<b>>
    BY <1>2
  <2>2. <<b>> \in Seq(S) /\ Len(<<b>>) = 1
    OBVIOUS
  <2> QED
    BY <2>1, <2>2
<1> QED
  BY <1>1, <1>2

\* Every variable of the driver, the QMI and the chip has its type; one frame at most
\* is queued, and the receive FIFO never overflows, however shallow it is.
THEOREM TypeCorrect == BoardSpec => []Qmi!TypeOK
<1>1. BInv => Qmi!TypeOK
  <2> SUFFICES ASSUME BInv
               PROVE  Qmi!TypeOK
    OBVIOUS
  <2> USE DEF BInv
  <2>1. /\ at \in 1 .. Qmi!Returned
        /\ kgd \in 0 .. 255 /\ eid \in 0 .. 255
        /\ chip \in [id : Chip, mode : {"spi", "qpi"}, armed : BOOLEAN]
        /\ window \in [frames : Nat, command : 0 .. 255]
        /\ en \in BOOLEAN /\ cs \in BOOLEAN
    BY Kinds DEF QInv, QShape, OneByte
  <2>2. /\ tx = <<>> \/ \E f \in {"single", "quad"} \X (0 .. 255) : tx = <<f>>
        /\ rx = <<>> \/ \E b \in 0 .. 255 : rx = <<b>>
        /\ engine \in {"idle", "cooldown", "frame"}
    <3>1. FrameAt(at) \in {"single", "quad"} \X (0 .. 255)
      BY DEF FrameAt
    <3>2. /\ tx = <<>> \/ tx = <<FrameAt(at)>>
          /\ rx = <<>> \/ \E b \in 0 .. 255 : rx = <<b>>
          /\ engine \in {"idle", "cooldown", "frame"}
      BY DEF QInv, Queues, OneByte
    <3> QED
      BY <3>1, <3>2
  <2>3. tx \in Seq({"single", "quad"} \X (0 .. 255)) /\ Len(tx) <= 1
    <3> DEFINE Frames == {"single", "quad"} \X (0 .. 255)
    <3> HIDE DEF Frames
    <3>1. tx = <<>> \/ \E f \in Frames : tx = <<f>>
      BY <2>2 DEF Frames
    <3>2. tx \in Seq(Frames) /\ Len(tx) \in 0 .. 1
      BY <3>1, AtMostOne
    <3>3. tx \in Seq({"single", "quad"} \X (0 .. 255))
      BY <3>2, Zenon DEF Frames
    <3>4. Len(tx) <= 1
      BY <3>2
    <3> QED
      BY <3>3, <3>4
  <2>4. rx \in Seq(0 .. 255) /\ Len(rx) <= RxDepth
    <3>1. rx \in Seq(0 .. 255) /\ Len(rx) \in 0 .. 1
      BY <2>2, AtMostOne
    <3>2. \A n \in 0 .. 1, d \in Nat \ {0} : n <= d
      OBVIOUS
    <3>3. Len(rx) <= RxDepth
      BY <3>1, <3>2, ChipAssumption
    <3> QED
      BY <3>1, <3>3
  <2>5. size \in {0, 1, 2, 4, 8} /\ m1 \in SUBSET Qmi!M1Regs /\ writable \in BOOLEAN
    <3>1. at <= 62 \/ at = 63
      BY DEF QInv, QShape
    <3>2. M1Written \subseteq Qmi!M1Regs
      BY DEF M1Written, Qmi!M1Regs
    <3>3. CASE at <= 62
      BY <3>2, <3>3 DEF QInv, Results
    <3>4. CASE at = 63 /\ chip.id.kgd # 93
      BY <3>4 DEF QInv, Results
    <3>5. CASE at = 63 /\ chip.id.kgd = 93
      <4>1. Qmi!MiB(chip.id.eid) \in {1, 2, 4, 8}
        BY DEF Qmi!MiB
      <4> QED
        BY <3>5, <4>1 DEF QInv, Results
    <3> QED
      BY <3>1, <3>3, <3>4, <3>5
  <2>6. restarts \in 0 .. MaxRestarts
    BY DEF Joined
  <2> QED
    BY <2>1, <2>2, <2>3, <2>4, <2>5, <2>6 DEF Qmi!TypeOK
<1> QED
  BY <1>1, BoardInductive, PTL

\* When setup_psram has returned, a chip it knows is in quad mode behind a memory
\* window programmed for it, and direct mode is off with nothing left in its queues.
THEOREM OutcomeAlways == BoardSpec => []Outcome
<1>1. BInv => Outcome
  <2> SUFFICES ASSUME BInv, at = 63
               PROVE  /\ ~en /\ ~cs /\ ~Qmi!Busy /\ rx = <<>>
                      /\ IF chip.id.kgd = 93
                         THEN /\ chip.mode = "qpi"
                              /\ m1 = Qmi!M1Regs
                              /\ writable
                              /\ size = Qmi!MiB(chip.id.eid)
                         ELSE size = 0 /\ m1 = {} /\ ~writable
    BY Kinds DEF Outcome, Qmi!Outcome, BInv, QInv, QShape
  <2>1. ~en /\ ~cs
    BY DEF BInv, QInv, QShape, Direct, Selected
  <2>2. tx = <<>> /\ rx = <<>> /\ engine = "idle"
    BY DEF BInv, QInv, Queues, Sending, Waiting, Cooling
  <2> QED
    BY <2>1, <2>2 DEF BInv, QInv, Results, Qmi!Busy
<1> QED
  BY <1>1, BoardInductive, PTL

\* CS moves only while no frame is on its way, but for a restart.
THEOREM CsMovesBetweenFramesAlways == BoardSpec => CsMovesBetweenFrames
<1>1. ASSUME BInv, [BoardNext]_boardVars, cs' # cs
      PROVE  ~Qmi!Busy \/ restarts' # restarts
  <2>1. CASE Qmi!WriteCsr
    <3>1. at \in CsrAt
      BY <1>1, <2>1, Kinds DEF BInv, QInv, QShape, Qmi!WriteCsr
    <3> QED
      BY <1>1, <3>1 DEF BInv, QInv, Queues, Qmi!Busy, CsrAt, Sending, Waiting, Cooling
  <2>2. CASE RestartBoard
    <3>1. restarts \in Int /\ restarts' = restarts + 1
      BY <1>1, <2>2 DEF BInv, Joined, RestartBoard, Restart
    <3> QED
      BY <3>1
  <2>3. ASSUME ~Qmi!WriteCsr, ~RestartBoard
        PROVE  cs' = cs
    BY <1>1, <2>3 DEF BoardNext, boardVars, qmiVars, Setup, ShiftStart, ShiftEnd,
       CooldownEnd, Return, GoOn, Qmi!Driver, Qmi!WriteTx, Qmi!PollCsr, Qmi!ReadRx,
       Qmi!TestId, Qmi!ProgramM1, Qmi!MakeWritable, Qmi!ShiftStart, Qmi!ShiftEnd,
       Qmi!CooldownEnd, Qmi!qmi
  <2> QED
    BY <1>1, <2>1, <2>2, <2>3
<1>2. BInv /\ [BoardNext]_boardVars =>
        [cs' # cs => ~Qmi!Busy \/ restarts' # restarts]_(Qmi!vars)
  BY <1>1
<1> QED
  BY <1>2, BoardInductive, PTL DEF CsMovesBetweenFrames,
     Qmi!CsMovesBetweenFrames, BoardSpec

\* What setup_psram returns is what is fitted.
LEMMA SizeIsFitted == ASSUME BInv, at = 63 PROVE size = fitted
<1>1. chip.id \in [kgd : OneByte, eid : OneByte]
  BY ChipAssumption DEF BInv, QInv, QShape, OneByte
<1>2. CASE chip.id.kgd # 93
  BY <1>2 DEF BInv, QInv, Results, Joined, Capacity
<1>3. CASE chip.id.kgd = 93
  <2> DEFINE e == chip.id.eid
  <2>1. e \in 0 .. 255
    BY <1>1 DEF OneByte
  <2>2. size = Qmi!MiB(e) /\ fitted = Capacity(chip.id)
    BY <1>3 DEF BInv, QInv, Results, Joined
  <2>3. /\ e \div 32 = 2 <=> e \in 64 .. 95
        /\ e \div 32 = 0 <=> e \in 0 .. 31
        /\ e \div 32 = 1 <=> e \in 32 .. 63
    BY <2>1
  <2>4. CASE e = 38 \/ e \in 64 .. 95
    BY <1>3, <2>2, <2>3, <2>4 DEF Capacity, Qmi!MiB
  <2>5. CASE e \in 0 .. 31
    BY <1>3, <2>2, <2>3, <2>5 DEF Capacity, Qmi!MiB
  <2>6. CASE e \in (32 .. 63) \ {38}
    BY <1>3, <2>2, <2>3, <2>6 DEF Capacity, Qmi!MiB
  <2>7. CASE e \in 96 .. 255
    BY <1>3, <2>2, <2>3, <2>7 DEF Capacity, Qmi!MiB
  <2> QED
    BY <2>1, <2>4, <2>5, <2>6, <2>7
<1> QED
  BY <1>2, <1>3

\* main with the driver, the QMI and the chip behind it is main with a setup_psram
\* that finds what is fitted in one step.
THEOREM BoardImplementsBoot == BoardSpec => ImplementsBoot
<1>1. BoardInit => Init
  BY DEF BoardInit
<1>2. ASSUME BInv, [BoardNext]_boardVars
      PROVE  [Next]_vars
  <2>1. CASE Setup \/ ShiftStart \/ ShiftEnd \/ CooldownEnd \/ UNCHANGED boardVars
    BY <2>1 DEF Setup, ShiftStart, ShiftEnd, CooldownEnd, boardVars
  <2>2. CASE Return
    <3>1. at = 63 /\ AfterSetup(size)
      BY <1>2, <2>2, Kinds DEF BInv, QInv, QShape, Return
    <3>2. size = fitted
      BY <1>2, <3>1, SizeIsFitted
    <3>3. SetupPsram
      BY <3>1, <3>2 DEF SetupPsram
    <3> QED
      BY <3>3 DEF Next, Main
  <2>3. CASE GoOn
    BY <2>3 DEF GoOn, Next, Main
  <2>4. CASE RestartBoard
    BY <2>4 DEF RestartBoard, Next
  <2> QED
    BY <1>2, <2>1, <2>2, <2>3, <2>4 DEF BoardNext
<1> QED
  BY <1>1, <1>2, BoardInductive, PTL DEF BoardSpec, ImplementsBoot, Spec

\* What the board does to driver, QMI and chip is what PsramSetup says; the rest of main
\* does nothing to them.
THEOREM BoardImplementsSetup == BoardSpec => Qmi!Spec
<1>1. BoardInit => Qmi!Init
  BY DEF BoardInit
<1>2. ASSUME [BoardNext]_boardVars
      PROVE  [Qmi!Next]_(Qmi!vars)
  <2>1. CASE Setup \/ ShiftStart \/ ShiftEnd \/ CooldownEnd
    BY <2>1 DEF Setup, ShiftStart, ShiftEnd, CooldownEnd, Qmi!Next
  <2>2. CASE Return \/ GoOn \/ UNCHANGED boardVars
    <3>1. UNCHANGED <<qmiVars, restarts>>
      BY <2>2 DEF Return, AfterSetup, GoOn, boardVars, vars, world, TestExecutability,
        GetSizes, CheckSize, CopyBlock, Fault, Copied, JumpToKernel, Answer, PayloadReturns,
        LeaveMain, Type
    <3> QED
      BY <3>1 DEF qmiVars, Qmi!vars, Qmi!driver, Qmi!qmi
  <2>3. CASE RestartBoard
    BY <2>3 DEF RestartBoard, Qmi!Next
  <2> QED
    BY <1>2, <2>1, <2>2, <2>3 DEF BoardNext
<1> QED
  BY <1>1, <1>2, PTL DEF BoardSpec, Qmi!Spec

\* What is proved of main holds with the driver behind it: a copy fits the PSRAM that
\* setup_psram has found, and Linux is entered with its whole image there, if the sizes
\* fit a size_t.
THEOREM BoardStartsLinux == BoardSpec => [](CopyFits /\ LinuxIsWhole)
BY BoardImplementsBoot, CopyFitsAlways, LinuxIsWholeAlways, PTL DEF ImplementsBoot
=============================================================================
