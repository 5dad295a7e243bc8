--------------------------- MODULE Library_proofs --------------------------
(***************************************************************************)
(* Theorems about the bootloader's own library: MemOps, for a memory of any *)
(* size and any bytes, and Printf, for any format and arguments.            *)
(***************************************************************************)
EXTENDS MemOps, Printf, FiniteSetTheorems, SequenceTheorems, TLAPS

\* What has been done of a loop that goes up.
Gone == call.n - len

Bounds ==
  /\ Fits(call.dest, call.n) /\ Fits(call.src, call.n)
  /\ len <= call.n

\* A loop that goes up has moved the first bytes of the call's, and writes below
\* what it has still to read, or out of its way.
UpInv ==
  pc = "up" =>
    /\ call.op \in {"memcpy", "memmove"}
    /\ d = call.dest + Gone /\ s = call.src + Gone
    /\ call.dest < call.src \/ call.src + call.n <= call.dest
    /\ Moved(call.dest .. call.dest + Gone - 1)

\* A loop that goes down has moved the last ones, and writes at or above what
\* it has still to read.
DownInv ==
  pc = "down" =>
    /\ call.op = "memmove"
    /\ d = call.dest + len - 1 /\ s = call.src + len - 1
    /\ call.src <= call.dest
    /\ Moved(call.dest + len .. call.dest + call.n - 1)

\* memset has filled the first bytes.
SetInv ==
  pc = "set" =>
    /\ call.op = "memset" /\ call.val \in Val
    /\ d = call.dest + Gone
    /\ mem = [a \in Addr |-> IF a \in call.dest .. call.dest + Gone - 1
                             THEN call.val % 256 ELSE old[a]]

\* memcmp has found no difference in the first bytes.
CmpInv ==
  pc = "cmp" =>
    /\ call.op = "memcmp" /\ result = 0
    /\ d = call.dest + Gone /\ s = call.src + Gone
    /\ mem = old
    /\ \A i \in 0 .. Gone - 1 : old[call.dest + i] = old[call.src + i]

\* The inductive invariant: the loops' progress, and the promises once they are
\* over.
IInv == /\ TypeOK /\ Bounds
        /\ UpInv /\ DownInv /\ SetInv /\ CmpInv
        /\ MovesExactly /\ FillsExactly /\ ComparesFirstDifference

\* Before any call the invariant holds.
LEMMA InitIInv == Init => IInv
BY MemAssumption
DEF Init, IInv, TypeOK, Bounds, Fits, UpInv, DownInv, SetInv, CmpInv, MovesExactly,
    FillsExactly, ComparesFirstDifference, Addr, Op

-----------------------------------------------------------------------------
(* A call starts                                                           *)

\* What Begin sets, whatever it is called for.
LEMMA BeginSets ==
  ASSUME IInv,
         NEW op \in Op, NEW dest \in Addr, NEW src \in Addr, NEW n \in 0 .. Size,
         NEW val \in Val \cup {0},
         Begin(op, dest, src, n, val),
         pc' \in {"up", "down", "set", "cmp"}, d' \in Int, s' \in Int
  PROVE  /\ TypeOK' /\ Bounds'
         /\ call' = [op |-> op, dest |-> dest, src |-> src, n |-> n, val |-> val]
         /\ old' = mem /\ mem' = mem /\ len' = n /\ result' = 0
         /\ mem \in [Addr -> Byte]
         /\ MovesExactly' /\ FillsExactly' /\ ComparesFirstDifference'
BY MemAssumption
DEF IInv, Begin, TypeOK, Bounds, Fits, MovesExactly, FillsExactly, ComparesFirstDifference,
    Addr

\* memcpy starts with nothing copied.
LEMMA MemcpyPreserves ==
  ASSUME IInv, NEW a \in Addr, NEW b \in Addr, NEW n \in 0 .. Size, Memcpy(a, b, n)
  PROVE  IInv'
<1>1. /\ Begin("memcpy", a, b, n, 0) /\ pc' = "up" /\ d' = a /\ s' = b
      /\ a \in Int /\ b \in Int /\ n \in Int /\ "memcpy" \in Op
  BY MemAssumption DEF Memcpy, Addr, Op
<1>2. n = 0 \/ a < b \/ b + n <= a
  BY <1>1 DEF Memcpy, Disjoint
<1>3. QED
  BY <1>1, <1>2, BeginSets DEF IInv, UpInv, DownInv, SetInv, CmpInv, Moved, Gone

\* memmove starts from the end at which it does not overwrite its source.
LEMMA MemmovePreserves ==
  ASSUME IInv, NEW a \in Addr, NEW b \in Addr, NEW n \in 0 .. Size, Memmove(a, b, n)
  PROVE  IInv'
<1>1. /\ Begin("memmove", a, b, n, 0)
      /\ a \in Int /\ b \in Int /\ n \in Int /\ "memmove" \in Op
  BY MemAssumption DEF Memmove, Addr, Op
<1>2. CASE a < b
  <2>1. pc' = "up" /\ d' = a /\ s' = b
    BY <1>2 DEF Memmove
  <2>2. QED
    BY <1>1, <1>2, <2>1, BeginSets DEF IInv, UpInv, DownInv, SetInv, CmpInv, Moved, Gone
<1>3. CASE ~(a < b)
  <2>1. pc' = "down" /\ d' = a + (n - 1) /\ s' = b + (n - 1)
    BY <1>3 DEF Memmove
  <2>2. QED
    BY <1>1, <1>3, <2>1, BeginSets DEF IInv, UpInv, DownInv, SetInv, CmpInv, Moved, Gone
<1>4. QED
  BY <1>2, <1>3

\* memcmp starts with nothing compared.
LEMMA MemcmpPreserves ==
  ASSUME IInv, NEW a \in Addr, NEW b \in Addr, NEW n \in 0 .. Size, Memcmp(a, b, n)
  PROVE  IInv'
<1>1. /\ Begin("memcmp", a, b, n, 0) /\ pc' = "cmp" /\ d' = a /\ s' = b
      /\ a \in Int /\ b \in Int /\ n \in Int /\ "memcmp" \in Op
  BY MemAssumption DEF Memcmp, Addr, Op
<1>2. QED
  BY <1>1, BeginSets DEF IInv, UpInv, DownInv, SetInv, CmpInv, Gone

\* memset starts with nothing written.
LEMMA MemsetPreserves ==
  ASSUME IInv, NEW a \in Addr, NEW n \in 0 .. Size, NEW v \in Val, Memset(a, v, n)
  PROVE  IInv'
<1>1. /\ Begin("memset", a, 0, n, v) /\ pc' = "set" /\ d' = a /\ s' = 0
      /\ a \in Int /\ n \in Int /\ "memset" \in Op /\ 0 \in Addr
  BY MemAssumption DEF Memset, Addr, Op
<1>2. QED
  BY <1>1, BeginSets DEF IInv, UpInv, DownInv, SetInv, CmpInv, Gone

-----------------------------------------------------------------------------
(* The loops                                                               *)

\* The byte that CopyUp reads is still the one the call found there.
LEMMA CopyUpPreserves == ASSUME IInv, CopyUp PROVE IInv'
<1>1. /\ Size \in Int /\ d \in Int /\ s \in Int /\ call.dest \in Int /\ call.src \in Int
      /\ len \in 1 .. Size /\ call.n \in 0 .. Size /\ len <= call.n
      /\ call.dest \in Addr /\ call.src \in Addr
      /\ call.dest + call.n <= Size /\ call.src + call.n <= Size
      /\ Gone \in 0 .. call.n - 1 /\ Gone \in Int
  BY MemAssumption DEF IInv, CopyUp, TypeOK, Bounds, Fits, Gone, Addr
<1>2. /\ d = call.dest + Gone /\ s = call.src + Gone
      /\ call.dest < call.src \/ call.src + call.n <= call.dest
  BY DEF IInv, CopyUp, UpInv
<1>2a. Moved(call.dest .. call.dest + Gone - 1) /\ call.op \in {"memcpy", "memmove"}
  BY DEF IInv, CopyUp, UpInv
<1>3. /\ d \in Addr /\ s \in Addr
      /\ Gone' = Gone + 1
  <2>1. d \in Addr /\ s \in Addr
    BY <1>1, <1>2 DEF Addr
  <2>2. Gone' = Gone + 1
    BY <1>1 DEF CopyUp, Gone
  <2>3. QED
    BY <2>1, <2>2
<1>4. mem[s] = old[s]
  <2>1. s \notin call.dest .. call.dest + Gone - 1
    BY <1>1, <1>2
  <2>2. QED
    BY <1>2a, <1>3, <2>1 DEF Moved
<1>5. TypeOK' /\ Bounds'
  BY <1>1, <1>3 DEF IInv, CopyUp, TypeOK, Bounds, Fits, Addr
<1>6. Moved(call.dest .. call.dest + Gone - 1)'
  <2>1. mem' = [a \in Addr |-> IF a = d THEN old[s] ELSE mem[a]]
    BY <1>4, <1>3 DEF CopyUp, IInv, TypeOK
  <2>2. \A a \in Addr : a \in call.dest .. call.dest + (Gone + 1) - 1
                        <=> a = d \/ a \in call.dest .. call.dest + Gone - 1
    BY <1>1, <1>2, <1>3 DEF Addr
  <2>3. s = call.src + (d - call.dest)
    BY <1>1, <1>2 DEF Addr
  <2>4. mem' = [a \in Addr |-> IF a \in call.dest .. call.dest + (Gone + 1) - 1
                               THEN old[call.src + (a - call.dest)] ELSE old[a]]
    BY <2>1, <2>2, <2>3, <1>2a DEF Moved
  <2>5. QED
    BY <2>4, <1>3 DEF Moved, CopyUp
<1>7. UpInv'
  <2>1. (/\ d = call.dest + Gone /\ s = call.src + Gone
         /\ call.dest < call.src \/ call.src + call.n <= call.dest)'
    BY <1>1, <1>2, <1>3 DEF CopyUp
  <2>2. call'.op \in {"memcpy", "memmove"}
    BY <1>2a DEF CopyUp
  <2>3. QED
    BY <2>1, <2>2, <1>6 DEF UpInv
<1>8. QED
  BY <1>5, <1>7
  DEF IInv, CopyUp, DownInv, SetInv, CmpInv, MovesExactly, FillsExactly,
      ComparesFirstDifference

\* A round of memmove's loop from the end keeps the invariant.
LEMMA CopyDownPreserves == ASSUME IInv, CopyDown PROVE IInv'
<1>1. /\ Size \in Int /\ d \in Int /\ s \in Int /\ call.dest \in Int /\ call.src \in Int
      /\ len \in 1 .. Size /\ call.n \in 0 .. Size /\ len <= call.n
      /\ call.dest \in Addr /\ call.src \in Addr
      /\ call.dest + call.n <= Size /\ call.src + call.n <= Size
  BY MemAssumption DEF IInv, CopyDown, TypeOK, Bounds, Fits, Addr
<1>2. /\ d = call.dest + len - 1 /\ s = call.src + len - 1
      /\ call.src <= call.dest
  BY DEF IInv, CopyDown, DownInv
<1>2a. Moved(call.dest + len .. call.dest + call.n - 1) /\ call.op = "memmove"
  BY DEF IInv, CopyDown, DownInv
<1>3. d \in Addr /\ s \in Addr
  BY <1>1, <1>2 DEF Addr
<1>4. mem[s] = old[s]
  <2>1. s \notin call.dest + len .. call.dest + call.n - 1
    BY <1>1, <1>2
  <2>2. QED
    BY <1>2a, <1>3, <2>1 DEF Moved
<1>5. TypeOK' /\ Bounds'
  BY <1>1, <1>3 DEF IInv, CopyDown, TypeOK, Bounds, Fits, Addr
<1>6. Moved(call.dest + len .. call.dest + call.n - 1)'
  <2>1. mem' = [a \in Addr |-> IF a = d THEN old[s] ELSE mem[a]]
    BY <1>4, <1>3 DEF CopyDown, IInv, TypeOK
  <2>2. \A a \in Addr : a \in call.dest + (len - 1) .. call.dest + call.n - 1
                        <=> a = d \/ a \in call.dest + len .. call.dest + call.n - 1
    BY <1>1, <1>2, <1>3 DEF Addr
  <2>3. s = call.src + (d - call.dest)
    BY <1>1, <1>2 DEF Addr
  <2>4. mem' = [a \in Addr |-> IF a \in call.dest + (len - 1) .. call.dest + call.n - 1
                               THEN old[call.src + (a - call.dest)] ELSE old[a]]
    BY <2>1, <2>2, <2>3, <1>2a DEF Moved
  <2>5. QED
    BY <2>4 DEF Moved, CopyDown
<1>7. DownInv'
  <2>1. (/\ d = call.dest + len - 1 /\ s = call.src + len - 1
         /\ call.src <= call.dest)'
    BY <1>1, <1>2 DEF CopyDown
  <2>2. call'.op = "memmove"
    BY <1>2a DEF CopyDown
  <2>3. QED
    BY <2>1, <2>2, <1>6 DEF DownInv
<1>8. QED
  BY <1>5, <1>7
  DEF IInv, CopyDown, UpInv, SetInv, CmpInv, MovesExactly, FillsExactly,
      ComparesFirstDifference

\* A round of memset's loop keeps the invariant.
LEMMA FillPreserves == ASSUME IInv, Fill PROVE IInv'
<1>1. /\ Size \in Int /\ d \in Int /\ s \in Int /\ call.dest \in Int /\ call.src \in Int
      /\ len \in 1 .. Size /\ call.n \in 0 .. Size /\ len <= call.n
      /\ call.dest \in Addr /\ call.dest + call.n <= Size
      /\ Gone \in 0 .. call.n - 1 /\ Gone \in Int
  BY MemAssumption DEF IInv, Fill, TypeOK, Bounds, Fits, Gone, Addr
<1>2. d = call.dest + Gone
  BY DEF IInv, Fill, SetInv
<1>2a. /\ call.op = "memset" /\ call.val \in Val
      /\ mem = [a \in Addr |-> IF a \in call.dest .. call.dest + Gone - 1
                               THEN call.val % 256 ELSE old[a]]
  BY DEF IInv, Fill, SetInv
<1>3. /\ d \in Addr
      /\ Gone' = Gone + 1
      /\ call.val % 256 \in Byte
  <2>1. d \in Addr
    BY <1>1, <1>2 DEF Addr
  <2>2. Gone' = Gone + 1
    BY <1>1 DEF Fill, Gone
  <2>3. call.val % 256 \in Byte
    BY <1>2a, MemAssumption
  <2>4. QED
    BY <2>1, <2>2, <2>3
<1>4. TypeOK' /\ Bounds'
  BY <1>1, <1>3, MemAssumption DEF IInv, Fill, TypeOK, Bounds, Fits, Addr
<1>5. mem' = [a \in Addr |-> IF a \in call.dest .. call.dest + (Gone + 1) - 1
                             THEN call.val % 256 ELSE old[a]]
  <2>1. mem' = [a \in Addr |-> IF a = d THEN call.val % 256 ELSE mem[a]]
    BY <1>3 DEF Fill, IInv, TypeOK
  <2>2. \A a \in Addr : a \in call.dest .. call.dest + (Gone + 1) - 1
                        <=> a = d \/ a \in call.dest .. call.dest + Gone - 1
    BY <1>1, <1>2, <1>3 DEF Addr
  <2>3. QED
    BY <2>1, <2>2, <1>2a
<1>6. SetInv'
  <2>1. (d = call.dest + Gone)'
    BY <1>1, <1>2, <1>3 DEF Fill
  <2>2. call'.op = "memset" /\ call'.val \in Val
    BY <1>2a DEF Fill
  <2>3. mem' = [a \in Addr |-> IF a \in call'.dest .. call'.dest + Gone' - 1
                               THEN call'.val % 256 ELSE old'[a]]
    BY <1>5, <1>3 DEF Fill
  <2>4. QED
    BY <2>1, <2>2, <2>3 DEF SetInv
<1>7. QED
  BY <1>4, <1>6
  DEF IInv, Fill, UpInv, DownInv, CmpInv, MovesExactly, FillsExactly,
      ComparesFirstDifference

\* memcmp's return at a difference keeps the invariant.
LEMMA DifferPreserves == ASSUME IInv, Differ PROVE IInv'
<1>1. /\ Size \in Int /\ d \in Int /\ s \in Int /\ call.dest \in Int /\ call.src \in Int
      /\ len \in 1 .. Size /\ call.n \in 0 .. Size /\ len <= call.n
      /\ call.dest \in Addr /\ call.src \in Addr
      /\ call.dest + call.n <= Size /\ call.src + call.n <= Size
      /\ Gone \in 0 .. call.n - 1 /\ Gone \in Int
  BY MemAssumption DEF IInv, Differ, TypeOK, Bounds, Fits, Gone, Addr
<1>2. /\ d = call.dest + Gone /\ s = call.src + Gone
  BY DEF IInv, Differ, CmpInv
<1>2a. /\ call.op = "memcmp" /\ mem = old
      /\ \A i \in 0 .. Gone - 1 : old[call.dest + i] = old[call.src + i]
  BY DEF IInv, Differ, CmpInv
<1>3. TypeOK' /\ Bounds'
  BY <1>1 DEF IInv, Differ, TypeOK, Bounds, Fits
<1>4. ComparesFirstDifference'
  <2> DEFINE differ == {i \in 0 .. call.n - 1 : old[call.dest + i] # old[call.src + i]}
  <2>1. Gone \in differ /\ \A j \in differ : Gone <= j
    BY <1>1, <1>2, <1>2a DEF Differ
  <2>2. result' = IF old[call.dest + Gone] < old[call.src + Gone] THEN -1 ELSE 1
    BY <1>2, <1>2a DEF Differ
  <2>3. \E i \in differ : /\ \A j \in differ : i <= j
                          /\ result' = IF old[call.dest + i] < old[call.src + i]
                                       THEN -1 ELSE 1
    BY <2>1, <2>2
  <2>4. differ # {}
    BY <2>1
  <2>5. QED
    BY <2>3, <2>4, <1>2a DEF ComparesFirstDifference, Differ
<1>5. QED
  BY <1>2a, <1>3, <1>4
  DEF IInv, Differ, UpInv, DownInv, SetInv, CmpInv, MovesExactly, FillsExactly

\* memcmp's step over equal bytes keeps the invariant.
LEMMA SamePreserves == ASSUME IInv, Same PROVE IInv'
<1>1. /\ Size \in Int /\ d \in Int /\ s \in Int /\ call.dest \in Int /\ call.src \in Int
      /\ len \in 1 .. Size /\ call.n \in 0 .. Size /\ len <= call.n
      /\ call.dest \in Addr /\ call.src \in Addr
      /\ Gone \in 0 .. call.n - 1 /\ Gone \in Int
  BY MemAssumption DEF IInv, Same, TypeOK, Bounds, Gone, Addr
<1>2. /\ d = call.dest + Gone /\ s = call.src + Gone
  BY DEF IInv, Same, CmpInv
<1>2a. /\ call.op = "memcmp" /\ mem = old /\ result = 0
      /\ \A i \in 0 .. Gone - 1 : old[call.dest + i] = old[call.src + i]
  BY DEF IInv, Same, CmpInv
<1>3. Gone' = Gone + 1
  BY <1>1 DEF Same, Gone
<1>4. TypeOK' /\ Bounds'
  BY <1>1 DEF IInv, Same, TypeOK, Bounds, Fits
<1>5. \A i \in 0 .. (Gone + 1) - 1 : old[call.dest + i] = old[call.src + i]
  BY <1>1, <1>2, <1>2a DEF Same
<1>6. CmpInv'
  BY <1>1, <1>2, <1>3, <1>5, <1>2a DEF CmpInv, Same
<1>7. QED
  BY <1>4, <1>6
  DEF IInv, Same, UpInv, DownInv, SetInv, MovesExactly, FillsExactly,
      ComparesFirstDifference

-----------------------------------------------------------------------------
(* A call ends                                                             *)

\* With nothing left, what a loop has done is what was asked of it.
LEMMA ReturnPreserves == ASSUME IInv, Return PROVE IInv'
<1>1. /\ len = 0 /\ Gone = call.n /\ call.n \in Int
      /\ call.dest \in Int /\ call.src \in Int
  BY MemAssumption DEF IInv, Return, TypeOK, Gone, Addr
<1>2. TypeOK' /\ Bounds'
  BY DEF IInv, Return, TypeOK, Bounds, Fits
<1>3. CASE pc = "up"
  <2>1. call.op \in {"memcpy", "memmove"} /\ Moved(Target)
    BY <1>1, <1>3 DEF IInv, UpInv, Target
  <2>2. QED
    BY <1>1, <1>2, <2>1
    DEF IInv, Return, UpInv, DownInv, SetInv, CmpInv, MovesExactly, FillsExactly,
        ComparesFirstDifference, Moved, Target
<1>4. CASE pc = "down"
  <2>1. call.op = "memmove" /\ Moved(Target)
    BY <1>1, <1>4 DEF IInv, DownInv, Target, Addr
  <2>2. QED
    BY <1>1, <1>2, <2>1
    DEF IInv, Return, UpInv, DownInv, SetInv, CmpInv, MovesExactly, FillsExactly,
        ComparesFirstDifference, Moved, Target
<1>5. CASE pc = "set"
  <2>1. /\ call.op = "memset"
        /\ mem = [a \in Addr |-> IF a \in Target THEN call.val % 256 ELSE old[a]]
    BY <1>1, <1>5 DEF IInv, SetInv, Target
  <2>2. QED
    BY <1>1, <1>2, <2>1
    DEF IInv, Return, UpInv, DownInv, SetInv, CmpInv, MovesExactly, FillsExactly,
        ComparesFirstDifference, Target
<1>6. CASE pc = "cmp"
  <2>1. /\ call.op = "memcmp" /\ result = 0 /\ mem = old
        /\ \A i \in 0 .. call.n - 1 : old[call.dest + i] = old[call.src + i]
    BY <1>1, <1>6 DEF IInv, CmpInv
  <2>2. QED
    BY <1>1, <1>2, <2>1
    DEF IInv, Return, UpInv, DownInv, SetInv, CmpInv, MovesExactly, FillsExactly,
        ComparesFirstDifference
<1>7. QED
  BY <1>3, <1>4, <1>5, <1>6 DEF IInv, TypeOK, Return

-----------------------------------------------------------------------------

\* Every step keeps the invariant.
LEMMA NextIInv == IInv /\ [Next]_vars => IInv'
<1> SUFFICES ASSUME IInv, [Next]_vars PROVE IInv'
  OBVIOUS
<1>1. CASE \E a, b \in Addr, n \in 0 .. Size :
             \/ Memcpy(a, b, n) \/ Memmove(a, b, n) \/ Memcmp(a, b, n)
             \/ \E v \in Val : Memset(a, v, n)
  <2>1. PICK a \in Addr, b \in Addr, n \in 0 .. Size :
             \/ Memcpy(a, b, n) \/ Memmove(a, b, n) \/ Memcmp(a, b, n)
             \/ \E v \in Val : Memset(a, v, n)
    BY <1>1
  <2>2. CASE \E v \in Val : Memset(a, v, n)
    BY <2>2, MemsetPreserves
  <2>3. QED
    BY <2>1, <2>2, MemcpyPreserves, MemmovePreserves, MemcmpPreserves
<1>2. CASE Loop
  BY <1>2, CopyUpPreserves, CopyDownPreserves, FillPreserves, DifferPreserves,
     SamePreserves, ReturnPreserves
  DEF Loop
<1>3. CASE UNCHANGED vars
  BY <1>3
  DEF vars, IInv, TypeOK, Bounds, UpInv, DownInv, SetInv, CmpInv, Gone, Moved, Target,
      MovesExactly, FillsExactly, ComparesFirstDifference
<1>4. QED
  BY <1>1, <1>2, <1>3 DEF Next

\* Every reachable state satisfies the inductive invariant.
THEOREM Inductive == Spec => []IInv
BY InitIInv, NextIInv, PTL DEF Spec

\* Whatever the arguments, a loop counts len down to 0 and never below, memory holds
\* bytes, and memcmp gives one of three signs.
THEOREM TypeCorrect == Spec => []TypeOK
<1>1. IInv => TypeOK
  BY DEF IInv
<1>2. QED
  BY <1>1, Inductive, PTL

\* For any memory and any arguments, memmove and memcpy put at dest the bytes
\* that were at src, and touch nothing else.
THEOREM MovesExactlyAlways == Spec => []MovesExactly
<1>1. IInv => MovesExactly
  BY DEF IInv
<1>2. QED
  BY <1>1, Inductive, PTL

\* memset fills the bytes it is given, and only these.
THEOREM FillsExactlyAlways == Spec => []FillsExactly
<1>1. IInv => FillsExactly
  BY DEF IInv
<1>2. QED
  BY <1>1, Inductive, PTL

\* memcmp gives the order of the first difference, and writes nothing.
THEOREM ComparesFirstDifferenceAlways == Spec => []ComparesFirstDifference
<1>1. IInv => ComparesFirstDifference
  BY DEF IInv
<1>2. QED
  BY <1>1, Inductive, PTL

-----------------------------------------------------------------------------
(* Sequences, recursion and numbers                                        *)

\* Numbers have a least one.
LEMMA Smallest ==
  ASSUME NEW T, T \subseteq Nat, T # {}
  PROVE  \E n \in T : \A m \in T : n <= m
<1>1. PICK n \in T : \A m \in T : <<m, n>> \notin OpToRel(<, Nat)
  BY NatLessThanWellFounded, WFMin
<1>2. ASSUME NEW m \in T PROVE n <= m
  <2>1. n \in Nat /\ m \in Nat
    OBVIOUS
  <2>2. ~(m < n)
    BY <1>1, <2>1 DEF OpToRel
  <2> QED
    BY <2>1, <2>2
<1> QED
  BY <1>2

\* What holds of the first of some numbers, and of each next one, holds of all: the
\* numbers of which it holds are the set T.
LEMMA Upwards ==
  ASSUME NEW i \in Int, NEW j \in Int, NEW T,
         i \in T, \A k \in i .. j : k # i /\ k - 1 \in T => k \in T
  PROVE  \A k \in i .. j : k \in T
<1> DEFINE bad == {n \in Nat : i + n <= j /\ i + n \notin T}
<1> SUFFICES ASSUME NEW k \in i .. j, k \notin T PROVE FALSE
  OBVIOUS
<1>1. k - i \in bad
  BY i + (k - i) = k
<1>2. PICK n \in bad : \A m \in bad : n <= m
  <2>1. bad \subseteq Nat /\ bad # {}
    BY <1>1
  <2> HIDE DEF bad
  <2> QED
    BY <2>1, Smallest
<1>3. n # 0
  BY <1>2
<1>4. n - 1 \in Nat /\ n - 1 \notin bad /\ i + (n - 1) = (i + n) - 1
  BY <1>2, <1>3
<1>5. (i + n) - 1 \in T
  BY <1>2, <1>4
<1>6. i + n \in i .. j /\ i + n # i
  BY <1>2, <1>3
<1> QED
  BY <1>2, <1>5, <1>6

\* f is what a recursion says: a first value, and each next one from the one before.
RecursiveOn(f, i, j, first, step) ==
  f[i] = first /\ \A k \in i .. j : k = i \/ f[k] = step[<<k, f[k - 1]>>]

\* Functions that are defined by recursion exist.
LEMMA RecursionExists ==
  ASSUME NEW V, NEW first \in V, NEW step \in [Int \X V -> V], NEW i \in Int, NEW j \in Int,
         i <= j
  PROVE  \E f \in [i .. j -> V] : RecursiveOn(f, i, j, first, step)
<1> DEFINE T == {h \in Int : \E f \in [i .. h -> V] :
                   f[i] = first /\ \A k \in i .. h : k = i \/ f[k] = step[<<k, f[k - 1]>>]}
<1>1. i \in T
  <2> DEFINE f == [k \in i .. i |-> first]
  <2>1. f \in [i .. i -> V] /\ f[i] = first
    OBVIOUS
  <2>2. \A k \in i .. i : k = i
    OBVIOUS
  <2> QED
    BY <2>1, <2>2
<1>2. ASSUME NEW h \in i .. j, h # i, h - 1 \in T PROVE h \in T
  <2>1. PICK f \in [i .. h - 1 -> V] :
          f[i] = first /\ \A k \in i .. h - 1 : k = i \/ f[k] = step[<<k, f[k - 1]>>]
    BY <1>2
  <2> DEFINE g == [k \in i .. h |-> IF k = h THEN step[<<h, f[h - 1]>>] ELSE f[k]]
  <2>2. h \in Int /\ h - 1 \in i .. h - 1 /\ h # i /\ h \in i .. h
    BY <1>2
  <2>3. f[h - 1] \in V
    BY <2>1, <2>2
  <2>4. g \in [i .. h -> V]
    <3>1. step[<<h, f[h - 1]>>] \in V
      BY <2>2, <2>3
    <3> QED
      BY <3>1
  <2>5. g[i] = first
    BY <2>1, <2>2
  <2>6. ASSUME NEW k \in i .. h, k # i PROVE g[k] = step[<<k, g[k - 1]>>]
    <3>1. k - 1 \in i .. h /\ k - 1 # h
      BY <2>6
    <3>2. g[k - 1] = f[k - 1]
      BY <3>1
    <3>3. CASE k = h
      BY <3>1, <3>2, <3>3
    <3>4. CASE k # h
      <4>1. k \in i .. h - 1
        BY <3>4
      <4> QED
        BY <2>1, <2>6, <3>2, <3>4, <4>1
    <3> QED
      BY <3>3, <3>4
  <2> HIDE DEF g
  <2> QED
    BY <2>2, <2>4, <2>5, <2>6
<1> HIDE DEF T
<1>3. j \in T
  BY <1>1, <1>2, Upwards
<1> QED
  BY <1>3 DEF T, RecursiveOn

\* The larger of two numbers.
LEMMA MaxOfTwo ==
  ASSUME NEW a \in Int, NEW b \in Int
  PROVE  Max({a, b}) = IF a >= b THEN a ELSE b
BY DEF Max

\* The smaller of two numbers.
LEMMA MinOfTwo ==
  ASSUME NEW a \in Int, NEW b \in Int
  PROVE  Min({a, b}) = IF a <= b THEN a ELSE b
BY DEF Min

\* A set of places that begins at m and has no gaps, counted.
LEMMA CountUpTo ==
  ASSUME NEW i \in Int, NEW j \in Int
  PROVE  Cardinality(i .. j) = IF i > j THEN 0 ELSE j - i + 1
BY FS_Interval

\* Reversing joins in the other order.
LEMMA ReverseType ==
  ASSUME NEW S, NEW a \in Seq(S)
  PROVE  /\ Reverse(a) \in Seq(S) /\ Len(Reverse(a)) = Len(a)
         /\ \A i \in 1 .. Len(a) : Reverse(a)[i] = a[(Len(a) - i) + 1]
<1>1. Len(a) \in Nat
  OBVIOUS
<1>2. \A i \in 1 .. Len(a) : a[(Len(a) - i) + 1] \in S
  <2> TAKE i \in 1 .. Len(a)
  <2>1. (Len(a) - i) + 1 \in 1 .. Len(a)
    OBVIOUS
  <2> QED
    BY <2>1, ElementOfSeq
<1>3. [i \in 1 .. Len(a) |-> a[(Len(a) - i) + 1]] \in Seq(S)
  BY <1>1, <1>2, IsASeq
<1> QED
  BY <1>1, <1>3 DEF Reverse

\* Reversing what is joined reverses the parts and joins them the other way round.
LEMMA ReverseJoined ==
  ASSUME NEW S, NEW a \in Seq(S), NEW b \in Seq(S)
  PROVE  Reverse(a \o b) = Reverse(b) \o Reverse(a)
<1>1. /\ a \o b \in Seq(S) /\ Len(a \o b) = Len(a) + Len(b)
      /\ Len(a) \in Nat /\ Len(b) \in Nat
  BY ConcatProperties
<1>2. /\ Reverse(a \o b) \in Seq(S) /\ Len(Reverse(a \o b)) = Len(a) + Len(b)
      /\ \A i \in 1 .. Len(a) + Len(b) : Reverse(a \o b)[i] = (a \o b)[(Len(a) + Len(b) - i) + 1]
  <2> DEFINE ab == a \o b
  <2>1. ab \in Seq(S) /\ Len(ab) = Len(a) + Len(b)
    BY <1>1
  <2> HIDE DEF ab
  <2>2. /\ Reverse(ab) \in Seq(S) /\ Len(Reverse(ab)) = Len(ab)
        /\ \A i \in 1 .. Len(ab) : Reverse(ab)[i] = ab[(Len(ab) - i) + 1]
    BY <2>1, ReverseType
  <2> QED
    BY <2>1, <2>2 DEF ab
<1>4. Reverse(b) \in Seq(S) /\ Reverse(a) \in Seq(S)
      /\ Len(Reverse(b)) = Len(b) /\ Len(Reverse(a)) = Len(a)
  BY ReverseType
<1>5. /\ Reverse(b) \o Reverse(a) \in Seq(S)
      /\ Len(Reverse(b) \o Reverse(a)) = Len(a) + Len(b)
  <2>1. Len(Reverse(b) \o Reverse(a)) = Len(Reverse(b)) + Len(Reverse(a))
        /\ Reverse(b) \o Reverse(a) \in Seq(S)
    BY <1>4, ConcatProperties
  <2> QED
    BY <1>1, <1>4, <2>1
<1>3. ASSUME NEW i \in 1 .. Len(a) + Len(b)
      PROVE  Reverse(a \o b)[i] = (Reverse(b) \o Reverse(a))[i]
  <2> DEFINE j == (Len(a) + Len(b) - i) + 1
  <2>1. j \in 1 .. Len(a) + Len(b)
    BY <1>1
  <2>2. Reverse(a \o b)[i] = (a \o b)[j]
    BY <1>2
  <2>3. (a \o b)[j] = IF j <= Len(a) THEN a[j] ELSE b[j - Len(a)]
    BY <2>1, ConcatProperties
  <2>5. (Reverse(b) \o Reverse(a))[i] =
           IF i <= Len(b) THEN Reverse(b)[i] ELSE Reverse(a)[i - Len(b)]
    BY <1>1, <1>4, ConcatProperties
  <2>6. CASE i <= Len(b)
    <3>1. i \in 1 .. Len(b) /\ ~(j <= Len(a)) /\ j - Len(a) = (Len(b) - i) + 1
      BY <1>1, <2>6
    <3>2. Reverse(b)[i] = b[(Len(b) - i) + 1]
      BY <3>1, ReverseType
    <3> QED
      BY <2>2, <2>3, <2>5, <2>6, <3>1, <3>2
  <2>7. CASE ~(i <= Len(b))
    <3>1. i - Len(b) \in 1 .. Len(a) /\ j <= Len(a) /\ j = (Len(a) - (i - Len(b))) + 1
      BY <1>1, <2>7
    <3>2. Reverse(a)[i - Len(b)] = a[(Len(a) - (i - Len(b))) + 1]
      BY <3>1, ReverseType
    <3> QED
      BY <2>2, <2>3, <2>5, <2>7, <3>1, <3>2
  <2> QED
    BY <2>6, <2>7
<1> QED
  BY <1>2, <1>3, <1>5, SeqEqual

\* A character, so many times.
LEMMA RepeatType ==
  ASSUME NEW S, NEW char \in S, NEW n \in Nat
  PROVE  /\ Repeat(char, n) \in Seq(S) /\ Len(Repeat(char, n)) = n
         /\ \A i \in 1 .. n : Repeat(char, n)[i] = char
         /\ Reverse(Repeat(char, n)) = Repeat(char, n)
<1>1. Repeat(char, n) \in Seq(S) /\ Len(Repeat(char, n)) = n
  BY IsASeq DEF Repeat
<1>2. \A i \in 1 .. n : Repeat(char, n)[i] = char
  BY DEF Repeat
<1>3. \A i \in 1 .. n : Reverse(Repeat(char, n))[i] = char
  <2> TAKE i \in 1 .. n
  <2>1. (n - i) + 1 \in 1 .. n
    OBVIOUS
  <2> QED
    BY <1>1, <1>2, <2>1, ReverseType
<1> QED
  BY <1>1, <1>2, <1>3, ReverseType, SeqEqual

\* A character no times.
LEMMA RepeatNone == ASSUME NEW char PROVE Repeat(char, 0) = <<>>
BY DEF Repeat

-----------------------------------------------------------------------------
(* Digits                                                                  *)

\* What TLAPS needs to know of the sizes.
LEMMA Sizes ==
  /\ BufSize \in Nat \ {0} /\ Capacity \in Nat /\ Counts \subseteq 0 .. Capacity
  /\ \A n \in {CharBits, ShortBits, Bits} :
       2^(n - 1) \in Nat \ {0} /\ 2^n \in Nat \ {0} /\ 2^n = 2 * 2^(n - 1)
<1>1. \A n \in {CharBits, ShortBits, Bits} :
        2^(n - 1) \in Nat \ {0} /\ 2^n = 2 * 2^(n - 1)
  BY PowersAssumption
<1>2. ASSUME NEW n \in {CharBits, ShortBits, Bits} PROVE 2^n \in Nat \ {0}
  <2> DEFINE h == 2^(n - 1)
  <2>1. h \in Nat \ {0} /\ 2^n = 2 * h
    BY <1>1
  <2> HIDE DEF h
  <2> QED
    BY <2>1
<1> QED
  BY <1>1, <1>2, PrintfAssumption

Bases == {2, 8, 10, 16}
\* Characters: strings, of which TLAPS does not know that these are some.
Chars == STRING \cup {LowerDigits[i] : i \in 1 .. 16} \cup {UpperDigits[i] : i \in 1 .. 16}
         \cup {"%", "-", "+", " ", "#", "*", ".", "i", "l", "h", "t", "j", "z", "x", "X"}
Visible == Chars \ {"NUL"}

\* Quotient and remainder, in the bases that numbers are printed in.
LEMMA Division ==
  ASSUME NEW v \in Nat, NEW base \in Bases
  PROVE  /\ v \div base \in Nat /\ v % base \in 0 .. base - 1
         /\ v = (base * (v \div base)) + (v % base)
         /\ v \div base <= v
         /\ v = 0 => v \div base = 0
         /\ v \div base = 0 => v < base
<1>1. v \div 2 \in Nat /\ v % 2 \in 0 .. 1 /\ v = (2 * (v \div 2)) + (v % 2)
  OBVIOUS
<1>2. v \div 8 \in Nat /\ v % 8 \in 0 .. 7 /\ v = (8 * (v \div 8)) + (v % 8)
  OBVIOUS
<1>3. v \div 10 \in Nat /\ v % 10 \in 0 .. 9 /\ v = (10 * (v \div 10)) + (v % 10)
  OBVIOUS
<1>4. v \div 16 \in Nat /\ v % 16 \in 0 .. 15 /\ v = (16 * (v \div 16)) + (v % 16)
  OBVIOUS
<1> QED
  BY <1>1, <1>2, <1>3, <1>4 DEF Bases

\* What is left of a value, round by round.
LEMMA LeftValues ==
  ASSUME NEW v \in Nat, NEW base \in Bases
  PROVE  /\ Left(v, base) \in [1 .. BufSize -> Nat]
         /\ Left(v, base)[1] = v
         /\ \A i \in 2 .. BufSize : Left(v, base)[i] = Left(v, base)[i - 1] \div base
<1> DEFINE Is(f) == f = [i \in 1 .. BufSize |-> IF i = 1 THEN v ELSE f[i - 1] \div base]
           step == [p \in Int \X Nat |-> p[2] \div base]
<1>0. BufSize \in Nat \ {0}
  BY Sizes
<1>1. step \in [Int \X Nat -> Nat]
  BY Division
<1>2. PICK f \in [1 .. BufSize -> Nat] :
        f[1] = v /\ \A i \in 1 .. BufSize : i = 1 \/ f[i] = step[<<i, f[i - 1]>>]
  <2> DEFINE V == Nat
  <2>1. 1 \in Int /\ BufSize \in Int /\ 1 <= BufSize
    BY <1>0
  <2>2. v \in V /\ step \in [Int \X V -> V]
    BY <1>1
  <2> HIDE DEF step, V
  <2>3. \E f \in [1 .. BufSize -> V] : RecursiveOn(f, 1, BufSize, v, step)
    BY <2>1, <2>2, RecursionExists
  <2> QED
    BY <2>3 DEF V, RecursiveOn
<1>3. Is(f)
  <2> SUFFICES ASSUME NEW i \in 1 .. BufSize
               PROVE  f[i] = IF i = 1 THEN v ELSE f[i - 1] \div base
    OBVIOUS
  <2>1. CASE i # 1
    <3>1. i - 1 \in 1 .. BufSize /\ i \in Int
      BY <1>0, <2>1
    <3>2. <<i, f[i - 1]>> \in Int \X Nat
      BY <3>1
    <3>3. step[<<i, f[i - 1]>>] = f[i - 1] \div base
      BY <3>2
    <3> HIDE DEF step
    <3> QED
      BY <1>2, <2>1, <3>1, <3>3
  <2> QED
    BY <1>2, <2>1
<1>4. Left(v, base) = CHOOSE g : Is(g)
  BY DEF Left
<1> HIDE DEF Is
<1>5. Is(Left(v, base))
  BY <1>3, <1>4
<1> DEFINE l == Left(v, base)
<1>6. l = [i \in 1 .. BufSize |-> IF i = 1 THEN v ELSE l[i - 1] \div base]
  BY <1>5 DEF Is
<1> HIDE DEF l
<1>7. l[1] = v /\ DOMAIN l = 1 .. BufSize /\ \A i \in 2 .. BufSize : l[i] = l[i - 1] \div base
  BY <1>0, <1>6
<1>8. \A i \in 1 .. BufSize : l[i] \in Nat
  <2> DEFINE T == {i \in Int : l[i] \in Nat}
  <2>1. ASSUME NEW k \in 1 .. BufSize, k # 1, k - 1 \in T PROVE k \in T
    <3>1. k \in 2 .. BufSize /\ k \in Int
      BY <1>0, <2>1
    <3>2. l[k - 1] \in Nat /\ l[k] = l[k - 1] \div base
      BY <1>7, <2>1, <3>1
    <3>3. l[k] \in Nat
      BY <3>2, Division
    <3> QED
      BY <3>1, <3>3
  <2>2. 1 \in T
    BY <1>7
  <2> HIDE DEF T
  <2>3. \A k \in 1 .. BufSize : k \in T
    <3>1. 1 \in Int /\ BufSize \in Int
      BY <1>0
    <3> QED
      BY <2>1, <2>2, <3>1, Upwards
  <2> QED
    BY <2>3 DEF T
<1>9. l = [i \in 1 .. BufSize |-> l[i]]
  BY <1>6
<1> QED
  BY <1>7, <1>8, <1>9 DEF l

\* What is left never grows.
LEMMA LeftBounded ==
  ASSUME NEW v \in Nat, NEW base \in Bases, NEW i \in 1 .. BufSize
  PROVE  Left(v, base)[i] <= v
<1> DEFINE l == Left(v, base)
           T == {k \in Int : l[k] <= v}
<1>0. BufSize \in Nat \ {0}
  BY Sizes
<1>1. /\ l \in [1 .. BufSize -> Nat] /\ l[1] = v
      /\ \A k \in 2 .. BufSize : l[k] = l[k - 1] \div base
  BY LeftValues
<1> HIDE DEF l
<1>2. ASSUME NEW k \in 1 .. BufSize, k # 1, k - 1 \in T PROVE k \in T
  <2>1. k - 1 \in 1 .. BufSize /\ k \in 2 .. BufSize /\ k \in Int
    BY <1>0, <1>2
  <2>2. l[k - 1] \in Nat /\ l[k] \in Nat /\ l[k] = l[k - 1] \div base /\ l[k - 1] <= v
    BY <1>1, <1>2, <2>1
  <2>3. l[k - 1] \div base <= l[k - 1]
    BY <2>2, Division
  <2> QED
    BY <2>2, <2>3
<1>3. 1 \in T
  BY <1>1
<1> HIDE DEF T
<1>4. \A k \in 1 .. BufSize : k \in T
  BY <1>0, <1>2, <1>3, Upwards
<1> QED
  BY <1>4 DEF T, l

\* The rounds go on while something is left.
LEMMA RoundsMeaning ==
  ASSUME NEW v \in Nat, NEW base \in Bases
  PROVE  /\ Rounds(v, base) \in 1 .. BufSize
         /\ \A i \in 2 .. Rounds(v, base) : Left(v, base)[i] # 0
         /\ Rounds(v, base) < BufSize => Left(v, base)[Rounds(v, base) + 1] = 0
<1> DEFINE l == Left(v, base)
           written == {i \in 1 .. BufSize : i = 1 \/ l[i] # 0}
           ends == {n \in Nat : n >= 1 /\ n + 1 \notin written}
<1>0. BufSize \in Nat \ {0}
  BY Sizes
<1>1. /\ l \in [1 .. BufSize -> Nat] /\ l[1] = v
      /\ \A k \in 2 .. BufSize : l[k] = l[k - 1] \div base
  BY LeftValues
<1>2. Rounds(v, base) = Cardinality(written)
  BY DEF Rounds
<1> HIDE DEF l
<1>3. PICK n \in ends : \A m \in ends : n <= m
  <2>1. BufSize \in ends
    BY <1>0
  <2>2. ends \subseteq Nat
    OBVIOUS
  <2> HIDE DEF ends
  <2>3. ends # {}
    BY <2>1
  <2> QED
    BY <2>2, <2>3, Smallest
<1>4. n \in 1 .. BufSize
  BY <1>0, <1>3
<1>5. ASSUME NEW i \in 1 .. n PROVE i \in written
  <2>1. CASE i = 1
    BY <1>0, <2>1
  <2>2. CASE i # 1
    <3>1. i - 1 \in Nat /\ i - 1 >= 1 /\ ~(n <= i - 1) /\ (i - 1) + 1 = i
      BY <1>4, <2>2
    <3> QED
      BY <1>3, <3>1
  <2> QED
    BY <2>1, <2>2
<1>6. \A i \in n + 1 .. BufSize : i \notin written
  <2> DEFINE T == {k \in Int : l[k] = 0}
  <2>1. CASE n < BufSize
    <3>1. n + 1 \in T
      BY <1>0, <1>3, <1>4, <2>1
    <3>2. ASSUME NEW k \in n + 1 .. BufSize, k # n + 1, k - 1 \in T PROVE k \in T
      <4>1. k \in 2 .. BufSize /\ l[k - 1] = 0
        BY <1>4, <3>2
      <4>2. l[k] = l[k - 1] \div base
        BY <1>1, <4>1
      <4> QED
        BY <4>1, <4>2, Division
    <3> HIDE DEF T
    <3>3. \A k \in n + 1 .. BufSize : k \in T
      BY <1>0, <1>4, <3>1, <3>2, Upwards
    <3>4. \A k \in n + 1 .. BufSize : l[k] = 0 /\ k # 1
      BY <1>4, <3>3 DEF T
    <3> QED
      BY <3>4
  <2>2. CASE n = BufSize
    BY <1>0, <2>2
  <2> QED
    BY <1>0, <1>4, <2>1, <2>2
<1>7. written = 1 .. n
  <2>1. \A i \in written : i \in 1 .. n
    BY <1>0, <1>4, <1>6
  <2> QED
    BY <1>5, <2>1
<1> HIDE DEF written
<1>8. Rounds(v, base) = n
  BY <1>2, <1>4, <1>7, CountUpTo
<1>9. \A i \in 2 .. n : l[i] # 0
  BY <1>5 DEF written
<1>10. n < BufSize => l[n + 1] = 0
  BY <1>0, <1>3, <1>4 DEF written
<1> QED
  BY <1>4, <1>8, <1>9, <1>10 DEF l

\* A digit is a character.
LEMMA DigitVisible ==
  ASSUME NEW n \in 0 .. 15, NEW upper
  PROVE  Digit(n, upper) \in Visible
<1>1. \A i \in 1 .. 16 : LowerDigits[i] # "NUL" /\ UpperDigits[i] # "NUL"
  BY DEF LowerDigits, UpperDigits
<1>2. n + 1 \in 1 .. 16
  OBVIOUS
<1> QED
  BY <1>1, <1>2 DEF Digit, Visible, Chars

\* The digits: as many as there are rounds, each a character.
LEMMA DigitsType ==
  ASSUME NEW v \in Nat, NEW base \in Bases, NEW upper
  PROVE  /\ Digits(v, base, upper) \in Seq(Visible)
         /\ Len(Digits(v, base, upper)) = Rounds(v, base)
         /\ \A i \in 1 .. Rounds(v, base) :
              Digits(v, base, upper)[i] = Digit(Left(v, base)[i] % base, upper)
<1> DEFINE l == Left(v, base)
           k == Rounds(v, base)
           digits == [i \in 1 .. k |-> Digit(l[i] % base, upper)]
<1>1. l \in [1 .. BufSize -> Nat]
  BY LeftValues
<1>2. k \in 1 .. BufSize
  BY RoundsMeaning
<1>3. digits = Digits(v, base, upper)
  BY DEF Digits
<1> HIDE DEF l, k
<1>4. ASSUME NEW i \in 1 .. k PROVE Digit(l[i] % base, upper) \in Visible
  <2>1. l[i] \in Nat
    BY <1>1, <1>2, Sizes
  <2>2. l[i] % base \in 0 .. base - 1
    BY <2>1, Division
  <2>3. l[i] % base \in 0 .. 15
    BY <2>2 DEF Bases
  <2> QED
    BY <2>3, DigitVisible
<1>5. digits \in Seq(Visible)
  BY <1>2, <1>4, IsASeq, Sizes
<1>6. Len(digits) = k /\ \A i \in 1 .. k : digits[i] = Digit(l[i] % base, upper)
  BY <1>2, <1>5, Sizes
<1> QED
  BY <1>3, <1>5, <1>6 DEF l, k

-----------------------------------------------------------------------------
(* Where digits and flags end, and what number they are                    *)

\* The least number of a set.
LEMMA MinIs ==
  ASSUME NEW T, NEW e \in T, \A j \in T : j \in Int /\ e <= j
  PROVE  Min(T) = e
<1> DEFINE L(x) == x \in T /\ \A y \in T : x <= y
<1>1. L(e)
  OBVIOUS
<1>2. ASSUME NEW x, L(x) PROVE x = e
  <2>1. x \in Int /\ e \in Int /\ x <= e /\ e <= x
    BY <1>2
  <2> QED
    BY <2>1
<1>3. Min(T) = CHOOSE x : L(x)
  BY DEF Min
<1> HIDE DEF L
<1> QED
  BY <1>1, <1>2, <1>3

\* Where the characters of S end.
LEMMA AfterEnds ==
  ASSUME NEW i \in Int, NEW e \in i .. Len(format) + 1, NEW S, format \in Seq(Chars),
         \A j \in i .. e - 1 : Char(j) \in S, Char(e) \notin S
  PROVE  After(i, S) = e
<1> DEFINE T == {j \in i .. Len(format) + 1 : Char(j) \notin S}
<1>1. Len(format) \in Nat
  OBVIOUS
<1>2. e \in T
  OBVIOUS
<1>3. \A j \in T : e <= j
  <2> TAKE j \in T
  <2>1. j \in Int /\ j >= i /\ e \in Int /\ Char(j) \notin S
    BY <1>1
  <2> QED
    BY <2>1
<1>4. \A j \in T : j \in Int
  BY <1>1
<1> HIDE DEF T
<1>5. Min(T) = e
  BY <1>2, <1>3, <1>4, MinIs
<1> QED
  BY <1>5 DEF After, T

\* Decimal digits: characters of numbers, of which no flag but the 0 is one.
LEMMA Figures ==
  /\ DOMAIN DigitValue = {"0", "1", "2", "3", "4", "5", "6", "7", "8", "9"}
  /\ DOMAIN FlagOf = {"0", "-", "+", " ", "#"}
  /\ \A n \in 0 .. 9 : /\ LowerDigits[n + 1] \in DOMAIN DigitValue
                       /\ DigitValue[LowerDigits[n + 1]] = n
                       /\ n # 0 => LowerDigits[n + 1] # "0"
                       /\ LowerDigits[n + 1] \notin {"-", "+", " ", "#", "*", ".", "NUL"}
<1>1. DOMAIN DigitValue = {"0", "1", "2", "3", "4", "5", "6", "7", "8", "9"}
  <2>1. DOMAIN DigitValue = {LowerDigits[n + 1] : n \in 0 .. 9}
    BY DEF DigitValue
  <2>2. 0 .. 9 = {0, 1, 2, 3, 4, 5, 6, 7, 8, 9}
    OBVIOUS
  <2>3. /\ LowerDigits[0 + 1] = "0" /\ LowerDigits[1 + 1] = "1" /\ LowerDigits[2 + 1] = "2"
        /\ LowerDigits[3 + 1] = "3" /\ LowerDigits[4 + 1] = "4" /\ LowerDigits[5 + 1] = "5"
        /\ LowerDigits[6 + 1] = "6" /\ LowerDigits[7 + 1] = "7" /\ LowerDigits[8 + 1] = "8"
        /\ LowerDigits[9 + 1] = "9"
    BY DEF LowerDigits
  <2> QED
    BY <2>1, <2>2, <2>3
<1>2. DOMAIN FlagOf = {"0", "-", "+", " ", "#"}
  BY DEF FlagOf
<1>3. ASSUME NEW n \in 0 .. 9
      PROVE  /\ LowerDigits[n + 1] \in DOMAIN DigitValue
             /\ DigitValue[LowerDigits[n + 1]] = n
  BY DEF DigitValue, LowerDigits
<1>4. ASSUME NEW n \in 0 .. 9
      PROVE  /\ n # 0 => LowerDigits[n + 1] # "0"
             /\ LowerDigits[n + 1] \notin {"-", "+", " ", "#", "*", ".", "NUL"}
  <2>1. LowerDigits[n + 1] \notin {"-", "+", " ", "#", "*", ".", "NUL"}
    BY <1>1, <1>3
  <2>2. DigitValue["0"] = 0
    <3>1. LowerDigits[0 + 1] = "0"
      BY DEF LowerDigits
    <3>2. DigitValue[LowerDigits[0 + 1]] = 0
      BY <1>3
    <3> QED
      BY <3>1, <3>2
  <2> QED
    BY <1>3, <2>1, <2>2
<1> QED
  BY <1>1, <1>2, <1>3, <1>4

\* A number as it is written in a format: what was left of it, backwards, gives its
\* digits.
LEMMA DecimalDigits ==
  ASSUME NEW n \in Nat \ {0}, Rounds(n, 10) < BufSize
  PROVE  /\ Decimal(n) \in Seq(Chars) /\ Len(Decimal(n)) = Rounds(n, 10)
         /\ Rounds(n, 10) \in Nat \ {0}
         /\ \A m \in 1 .. Rounds(n, 10) :
              /\ Decimal(n)[m] \in DOMAIN DigitValue
              /\ DigitValue[Decimal(n)[m]] = Left(n, 10)[(Rounds(n, 10) - m) + 1] % 10
         /\ Decimal(n)[1] \notin DOMAIN FlagOf
<1> DEFINE k == Rounds(n, 10)
           l == Left(n, 10)
           digits == Digits(n, 10, FALSE)
<1>0. BufSize \in Nat /\ 10 \in Bases
  BY Sizes DEF Bases
<1>1. /\ l \in [1 .. BufSize -> Nat] /\ l[1] = n
      /\ \A i \in 2 .. BufSize : l[i] = l[i - 1] \div 10
  BY <1>0, LeftValues
<1>2. k \in 1 .. BufSize /\ (\A i \in 2 .. k : l[i] # 0) /\ l[k + 1] = 0
  BY <1>0, RoundsMeaning
<1>3. /\ digits \in Seq(Visible) /\ Len(digits) = k
      /\ \A i \in 1 .. k : digits[i] = Digit(l[i] % 10, FALSE)
  BY <1>0, DigitsType
<1>4. Decimal(n) = Reverse(digits)
  BY DEF Decimal
<1>5. k < BufSize
  OBVIOUS
<1> HIDE DEF k, l, digits
<1>6. Reverse(digits) \in Seq(Visible) /\ Len(Reverse(digits)) = k
      /\ \A i \in 1 .. k : Reverse(digits)[i] = digits[(k - i) + 1]
  BY <1>3, ReverseType
<1>7. ASSUME NEW m \in 1 .. k
      PROVE  /\ l[(k - m) + 1] % 10 \in 0 .. 9
             /\ Decimal(n)[m] = LowerDigits[(l[(k - m) + 1] % 10) + 1]
  <2> DEFINE j == (k - m) + 1
  <2>1. j \in 1 .. k /\ j \in 1 .. BufSize
    BY <1>0, <1>2
  <2>2. l[j] \in Nat
    BY <1>1, <2>1
  <2>3. l[j] % 10 \in 0 .. 9
    BY <2>2
  <2>4. Decimal(n)[m] = digits[j]
    BY <1>4, <1>6
  <2>5. digits[j] = LowerDigits[(l[j] % 10) + 1]
    BY <1>3, <2>1 DEF Digit
  <2> QED
    BY <2>3, <2>4, <2>5
<1>8. l[k] % 10 # 0
  <2>1. l[k] \in Nat /\ l[k] # 0
    BY <1>0, <1>1, <1>2
  <2>2. l[k + 1] = l[k] \div 10
    BY <1>0, <1>1, <1>2, <1>5
  <2>3. l[k] < 10
    BY <1>0, <1>2, <2>1, <2>2, Division
  <2> QED
    BY <2>1, <2>3
<1>9. Decimal(n)[1] \notin DOMAIN FlagOf
  <2> DEFINE x == l[k] % 10
  <2>1. 1 \in 1 .. k /\ (k - 1) + 1 = k
    BY <1>0, <1>2
  <2>2. x \in 0 .. 9 /\ x # 0 /\ Decimal(n)[1] = LowerDigits[x + 1]
    BY <1>7, <1>8, <2>1
  <2> HIDE DEF x
  <2>3. LowerDigits[x + 1] # "0" /\ LowerDigits[x + 1] \notin {"-", "+", " ", "#"}
    BY <2>2, Figures
  <2> QED
    BY <2>2, <2>3, Figures
<1>10. ASSUME NEW m \in 1 .. k
       PROVE  /\ Decimal(n)[m] \in DOMAIN DigitValue
              /\ DigitValue[Decimal(n)[m]] = l[(k - m) + 1] % 10
  <2> DEFINE x == l[(k - m) + 1] % 10
  <2>1. x \in 0 .. 9 /\ Decimal(n)[m] = LowerDigits[x + 1]
    BY <1>7
  <2> HIDE DEF x
  <2>2. LowerDigits[x + 1] \in DOMAIN DigitValue /\ DigitValue[LowerDigits[x + 1]] = x
    BY <2>1, Figures
  <2> QED
    BY <2>1, <2>2 DEF x
<1>11. Decimal(n) \in Seq(Chars)
  <2>1. Visible \subseteq Chars
    BY DEF Visible
  <2> QED
    BY <1>4, <1>6, <2>1, SeqMonotonic
<1>12. k \in Nat \ {0}
  BY <1>0, <1>2
<1> QED
  BY <1>4, <1>6, <1>9, <1>10, <1>11, <1>12 DEF k, l

\* _atoi reads it back.
LEMMA AtoiReads ==
  ASSUME NEW i \in Int, NEW n \in Word \ {0}, Rounds(n, 10) < BufSize,
         \A m \in 1 .. Rounds(n, 10) : Char(i + m - 1) = Decimal(n)[m]
  PROVE  Atoi(i, i + Rounds(n, 10)) = n
<1> DEFINE k == Rounds(n, 10)
           l == Left(n, 10)
           j == i + k
           W == 2^Bits
           Is(f) == f = [h \in i .. j |->
                           IF h = i THEN 0
                           ELSE (10 * f[h - 1] + DigitValue[Char(h - 1)]) % W]
<1>0. BufSize \in Nat /\ 10 \in Bases /\ W \in Nat \ {0} /\ n \in Nat \ {0} /\ n < W
  BY Sizes DEF Bases, Word
<1>1. /\ l \in [1 .. BufSize -> Nat] /\ l[1] = n
      /\ \A h \in 2 .. BufSize : l[h] = l[h - 1] \div 10
  BY <1>0, LeftValues
<1>2. k \in 1 .. BufSize /\ (\A h \in 2 .. k : l[h] # 0) /\ l[k + 1] = 0
  BY <1>0, RoundsMeaning
<1>3. \A m \in 1 .. k : /\ Char(i + m - 1) \in DOMAIN DigitValue
                        /\ DigitValue[Char(i + m - 1)] = l[(k - m) + 1] % 10
  BY <1>0, DecimalDigits
<1>4. \A h \in 1 .. BufSize : l[h] <= n
  BY <1>0, LeftBounded
<1>5. k < BufSize
  OBVIOUS
<1>6. Atoi(i, j) = (CHOOSE f : Is(f))[j]
  BY DEF Atoi
<1> HIDE DEF k, l, W
\* The value that is read of the first m digits: what was left k - m rounds later.
<1> DEFINE f == [h \in i .. j |-> IF h = i THEN 0 ELSE l[(k - (h - i)) + 1]]
<1>7. ASSUME NEW m \in 1 .. k
      PROVE  /\ l[(k - m) + 1] = (10 * (IF m = 1 THEN 0 ELSE l[(k - (m - 1)) + 1])
                                    + DigitValue[Char(i + m - 1)]) % W
             /\ l[(k - m) + 1] \in Nat
  <2> DEFINE x == l[(k - m) + 1]
             y == IF m = 1 THEN 0 ELSE l[(k - (m - 1)) + 1]
  <2>1. (k - m) + 1 \in 1 .. BufSize /\ (k - (m - 1)) + 1 \in 2 .. BufSize
        /\ ((k - (m - 1)) + 1) - 1 = (k - m) + 1 /\ (m = 1 => (k - (m - 1)) + 1 = k + 1)
    BY <1>0, <1>2, <1>5
  <2>2. x \in Nat /\ x <= n
    BY <1>1, <1>4, <2>1
  <2>3. y = x \div 10
    <3>1. l[(k - (m - 1)) + 1] = x \div 10
      BY <1>1, <2>1
    <3> QED
      BY <1>2, <2>1, <3>1
  <2>4. DigitValue[Char(i + m - 1)] = x % 10
    BY <1>3
  <2> HIDE DEF x, y
  <2>5. x = (10 * y) + (x % 10)
    BY <2>2, <2>3
  <2>6. x < W
    BY <1>0, <2>2
  <2>7. x = x % W
    BY <1>0, <2>2, <2>6
  <2>8. x = ((10 * y) + DigitValue[Char(i + m - 1)]) % W
    BY <2>4, <2>5, <2>7
  <2> QED
    BY <2>2, <2>8 DEF x, y
<1>8. ASSUME NEW g, Is(g) PROVE g[j] = n
  <2> DEFINE T == {h \in Int : h = i \/ g[h] = l[(k - (h - i)) + 1]}
  <2>1. i \in T
    OBVIOUS
  <2>2. ASSUME NEW h \in i .. j, h # i, h - 1 \in T PROVE h \in T
    <3> DEFINE m == h - i
    <3>1. m \in 1 .. k /\ h \in Int /\ i + m - 1 = h - 1 /\ h - 1 \in i .. j
      BY <1>0, <1>2, <2>2
    <3>2. g[h] = (10 * g[h - 1] + DigitValue[Char(h - 1)]) % W
      BY <1>8, <2>2
    <3>3. g[h - 1] = IF m = 1 THEN 0 ELSE l[(k - (m - 1)) + 1]
      <4>1. CASE m = 1
        <5>1. h - 1 = i
          BY <3>1, <4>1
        <5>2. g[i] = 0
          BY <1>0, <1>2, <1>8, <5>1, <3>1
        <5> QED
          BY <4>1, <5>1, <5>2
      <4>2. CASE m # 1
        <5>1. h - 1 # i /\ (h - 1) - i = m - 1
          BY <3>1, <4>2
        <5> QED
          BY <2>2, <4>2, <5>1
      <4> QED
        BY <4>1, <4>2
    <3>4. g[h] = l[(k - m) + 1]
      BY <1>7, <3>1, <3>2, <3>3
    <3> QED
      BY <3>1, <3>4
  <2> HIDE DEF T
  <2>3. \A h \in i .. j : h \in T
    <3>1. i \in Int /\ j \in Int
      BY <1>0, <1>2
    <3> QED
      BY <2>1, <2>2, <3>1, Upwards
  <2>4. j \in i .. j /\ j # i /\ (k - (j - i)) + 1 = 1
    BY <1>0, <1>2
  <2> QED
    BY <1>1, <2>3, <2>4 DEF T
<1>9. Is(f)
  <2> SUFFICES ASSUME NEW h \in i .. j, h # i
               PROVE  f[h] = (10 * f[h - 1] + DigitValue[Char(h - 1)]) % W
    OBVIOUS
  <2> DEFINE m == h - i
  <2>1. m \in 1 .. k /\ i + m - 1 = h - 1 /\ h - 1 \in i .. j /\ h \in Int
    BY <1>0, <1>2
  <2>2. f[h - 1] = IF m = 1 THEN 0 ELSE l[(k - (m - 1)) + 1]
    <3>1. (h - 1) - i = m - 1 /\ (h - 1 = i <=> m = 1)
      BY <2>1
    <3> QED
      BY <2>1, <3>1
  <2>3. f[h] = l[(k - m) + 1]
    OBVIOUS
  <2> HIDE DEF f
  <2> QED
    BY <1>7, <2>1, <2>2, <2>3
<1> HIDE DEF Is
<1>10. Is(CHOOSE g : Is(g))
  BY <1>9
<1> QED
  BY <1>6, <1>8, <1>10 DEF k

-----------------------------------------------------------------------------
(* The format of a call                                                    *)

\* A set that is written down is there, all of it.
LEMMA SetToSeqAll ==
  ASSUME NEW S, IsFiniteSet(S)
  PROVE  /\ SetToSeq(S) \in Seq(S) /\ Len(SetToSeq(S)) \in Nat
         /\ {SetToSeq(S)[i] : i \in 1 .. Len(SetToSeq(S))} = S
<1> DEFINE n == Cardinality(S)
           f == SetToSeq(S)
<1>1. n \in Nat /\ ExistsBijection(1 .. n, S)
  BY FS_CardinalityType
<1>2. PICK g : g \in Injection(1 .. n, S)
  BY <1>1 DEF ExistsBijection, Bijection
<1>3. g \in [1 .. n -> S] /\ IsInjective(g)
  BY <1>2 DEF Injection
<1>4. f \in [1 .. n -> S] /\ IsInjective(f)
  BY <1>3 DEF SetToSeq
<1> HIDE DEF f
<1>5. f \in Injection(1 .. n, S)
  BY <1>4 DEF Injection
<1>6. Cardinality(1 .. n) = n
  BY <1>1, CountUpTo
<1>7. f \in Surjection(1 .. n, S)
  BY <1>5, <1>6, FS_Injection
<1>8. \A c \in S : \E i \in 1 .. n : f[i] = c
  BY <1>7 DEF Surjection
<1> HIDE DEF n
<1>9. f \in Seq(S) /\ Len(f) = n
  BY <1>1, <1>4
<1> QED
  BY <1>1, <1>4, <1>8, <1>9 DEF f

\* part is in whole, after the first o characters.
Within(whole, part, o) ==
  \A m \in 1 .. Len(part) : o + m \in 1 .. Len(whole) /\ whole[o + m] = part[m]

\* What is joined can be found in the whole.
LEMMA WithinJoined ==
  ASSUME NEW S, NEW a \in Seq(S), NEW b \in Seq(S)
  PROVE  /\ a \o b \in Seq(S) /\ Len(a \o b) = Len(a) + Len(b)
         /\ Len(a) \in Nat /\ Len(b) \in Nat
         /\ Within(a \o b, a, 0) /\ Within(a \o b, b, Len(a))
<1>1. /\ a \o b \in Seq(S) /\ Len(a \o b) = Len(a) + Len(b)
      /\ \A i \in 1 .. Len(a) + Len(b) :
           (a \o b)[i] = IF i <= Len(a) THEN a[i] ELSE b[i - Len(a)]
  BY ConcatProperties
<1>2. Len(a) \in Nat /\ Len(b) \in Nat
  OBVIOUS
<1>3. Within(a \o b, a, 0)
  BY <1>1, <1>2 DEF Within
<1>4. Within(a \o b, b, Len(a))
  <2> SUFFICES ASSUME NEW m \in 1 .. Len(b)
               PROVE  Len(a) + m \in 1 .. Len(a \o b) /\ (a \o b)[Len(a) + m] = b[m]
    BY DEF Within
  <2>1. Len(a) + m \in 1 .. Len(a) + Len(b) /\ ~(Len(a) + m <= Len(a))
        /\ (Len(a) + m) - Len(a) = m
    BY <1>2
  <2> QED
    BY <1>1, <2>1
<1> QED
  BY <1>1, <1>2, <1>3, <1>4

\* What is in the first part is in the whole, at the same place.
LEMMA WithinLeft ==
  ASSUME NEW S, NEW a \in Seq(S), NEW b \in Seq(S), NEW part, NEW o \in Nat, Within(a, part, o)
  PROVE  Within(a \o b, part, o)
<1> SUFFICES ASSUME NEW m \in 1 .. Len(part)
             PROVE  o + m \in 1 .. Len(a \o b) /\ (a \o b)[o + m] = part[m]
  BY DEF Within
<1>1. o + m \in 1 .. Len(a) /\ a[o + m] = part[m]
  BY DEF Within
<1>2. /\ Len(a \o b) = Len(a) + Len(b) /\ Len(a) \in Nat /\ Len(b) \in Nat
      /\ \A i \in 1 .. Len(a) + Len(b) :
           (a \o b)[i] = IF i <= Len(a) THEN a[i] ELSE b[i - Len(a)]
  BY ConcatProperties
<1> QED
  BY <1>1, <1>2

\* What is in the second part is in the whole, behind the first.
LEMMA WithinRight ==
  ASSUME NEW S, NEW a \in Seq(S), NEW b \in Seq(S), NEW part \in Seq(S), NEW o \in Nat,
         Within(b, part, o)
  PROVE  Within(a \o b, part, Len(a) + o)
<1> SUFFICES ASSUME NEW m \in 1 .. Len(part)
             PROVE  /\ (Len(a) + o) + m \in 1 .. Len(a \o b)
                    /\ (a \o b)[(Len(a) + o) + m] = part[m]
  BY DEF Within
<1>1. o + m \in 1 .. Len(b) /\ b[o + m] = part[m]
  BY DEF Within
<1>2. /\ Len(a \o b) = Len(a) + Len(b) /\ Len(a) \in Nat /\ Len(b) \in Nat
      /\ Len(part) \in Nat
      /\ \A i \in 1 .. Len(a) + Len(b) :
           (a \o b)[i] = IF i <= Len(a) THEN a[i] ELSE b[i - Len(a)]
  BY ConcatProperties
<1>3. /\ (Len(a) + o) + m \in 1 .. Len(a) + Len(b)
      /\ ~((Len(a) + o) + m <= Len(a))
      /\ ((Len(a) + o) + m) - Len(a) = o + m
  BY <1>1, <1>2
<1> QED
  BY <1>1, <1>2, <1>3

\* The parts of a directive as it is written.
FlagChars(dir) == SetToSeq({c \in DOMAIN FlagOf : FlagOf[c] \in dir.flags})
WidthChars(dir) == IF dir.star THEN <<"*">> ELSE Decimal(dir.width)
PrecDigits(dir) == IF dir.star THEN <<"*">> ELSE Decimal(dir.prec)
PrecChars(dir) == IF dir.hasPrec THEN <<".">> \o PrecDigits(dir) ELSE <<>>

\* The flags are finitely many.
LEMMA FlagSetFinite == IsFiniteSet({"0", "-", "+", " ", "#"})
<1>1. IsFiniteSet({"0"}) /\ IsFiniteSet({"-"}) /\ IsFiniteSet({"+"})
      /\ IsFiniteSet({" "}) /\ IsFiniteSet({"#"})
  BY FS_Singleton
<1>2. IsFiniteSet({"0"} \cup {"-"})
  BY <1>1, FS_Union
<1>3. IsFiniteSet(({"0"} \cup {"-"}) \cup {"+"})
  BY <1>1, <1>2, FS_Union
<1>4. IsFiniteSet((({"0"} \cup {"-"}) \cup {"+"}) \cup {" "})
  BY <1>1, <1>3, FS_Union
<1>5. IsFiniteSet(((({"0"} \cup {"-"}) \cup {"+"}) \cup {" "}) \cup {"#"})
  BY <1>1, <1>4, FS_Union
<1>6. {"0", "-", "+", " ", "#"} = ((({"0"} \cup {"-"}) \cup {"+"}) \cup {" "}) \cup {"#"}
  OBVIOUS
<1> QED
  BY <1>5, <1>6

\* The parts are characters.
LEMMA PartsType ==
  ASSUME NEW dir \in Directives
  PROVE  /\ FlagChars(dir) \in Seq(Chars) /\ WidthChars(dir) \in Seq(Chars)
         /\ PrecDigits(dir) \in Seq(Chars) /\ PrecChars(dir) \in Seq(Chars)
         /\ LengthOf[dir.length] \in Seq(Chars) /\ <<dir.conv>> \in Seq(Chars)
<1>1. FlagChars(dir) \in Seq(Chars)
  <2> DEFINE S == {c \in DOMAIN FlagOf : FlagOf[c] \in dir.flags}
  <2>1. S \subseteq Chars
    <3>1. LowerDigits[1] = "0" /\ 1 \in 1 .. 16
      BY DEF LowerDigits
    <3>2. "0" \in Chars
      BY <3>1 DEF Chars
    <3>3. "-" \in Chars /\ "+" \in Chars /\ " " \in Chars /\ "#" \in Chars
      BY DEF Chars
    <3> QED
      BY <3>2, <3>3, Figures
  <2>2. IsFiniteSet(S)
    <3>1. IsFiniteSet({"0", "-", "+", " ", "#"})
      BY FlagSetFinite
    <3>2. S \subseteq {"0", "-", "+", " ", "#"}
      BY Figures
    <3> QED
      BY <3>1, <3>2, FS_Subset
  <2>3. FlagChars(dir) = SetToSeq(S)
    BY DEF FlagChars
  <2> HIDE DEF S
  <2>4. SetToSeq(S) \in Seq(S)
    BY <2>2, SetToSeqAll
  <2> QED
    BY <2>1, <2>3, <2>4, SeqMonotonic
<1>2. ASSUME NEW n \in {dir.width, dir.prec} PROVE dir.star \/ Decimal(n) \in Seq(Chars)
  <2>1. dir.star \/ (n \in Word /\ Rounds(n, 10) < BufSize)
    BY DirectivesAssumption
  <2>2. CASE n \in Word /\ Rounds(n, 10) < BufSize /\ n # 0
    <3>1. n \in Nat \ {0}
      BY <2>2, Sizes DEF Word
    <3> QED
      BY <2>2, <3>1, DecimalDigits
  <2>3. CASE n = 0
    BY <2>3 DEF Decimal
  <2> QED
    BY <2>1, <2>2, <2>3
<1>3. {"*", "."} \subseteq Chars
  BY DEF Chars
<1>4. WidthChars(dir) \in Seq(Chars) /\ PrecDigits(dir) \in Seq(Chars)
  BY <1>2, <1>3 DEF WidthChars, PrecDigits
<1>5. PrecChars(dir) \in Seq(Chars)
  <2>1. <<".">> \in Seq(Chars) /\ <<>> \in Seq(Chars)
    BY <1>3
  <2> QED
    BY <1>4, <2>1, ConcatProperties DEF PrecChars
<1>6. LengthOf[dir.length] \in Seq(Chars)
  <2>1. dir.length \in {"none", "l", "ll", "h", "hh", "t", "j", "z"}
    BY DirectivesAssumption DEF LengthOf
  <2>2. {"l", "h", "t", "j", "z"} \subseteq Chars
    BY DEF Chars
  <2>3. /\ LengthOf["none"] = <<>> /\ LengthOf["l"] = <<"l">> /\ LengthOf["ll"] = <<"l", "l">>
        /\ LengthOf["h"] = <<"h">> /\ LengthOf["hh"] = <<"h", "h">> /\ LengthOf["t"] = <<"t">>
        /\ LengthOf["j"] = <<"j">> /\ LengthOf["z"] = <<"z">>
    BY DEF LengthOf
  <2>4. /\ <<>> \in Seq(Chars) /\ <<"l">> \in Seq(Chars) /\ <<"l", "l">> \in Seq(Chars)
        /\ <<"h">> \in Seq(Chars) /\ <<"h", "h">> \in Seq(Chars) /\ <<"t">> \in Seq(Chars)
        /\ <<"j">> \in Seq(Chars) /\ <<"z">> \in Seq(Chars)
    BY <2>2
  <2> QED
    BY <2>1, <2>3, <2>4
<1>7. <<dir.conv>> \in Seq(Chars)
  <2>1. dir.conv \in Chars
    BY DirectivesAssumption DEF Chars
  <2> QED
    BY <2>1
<1> QED
  BY <1>1, <1>4, <1>5, <1>6, <1>7

\* The format of a call, and where the parts of its directive are in it.
Written(dir) == <<"a">> \o Spelled(dir) \o <<"%", "i">>
WidthAt(dir) == 3 + Len(FlagChars(dir))
PrecAt(dir) == WidthAt(dir) + Len(WidthChars(dir))
LengthAt(dir) == PrecAt(dir) + Len(PrecChars(dir))
ConvAt(dir) == LengthAt(dir) + Len(LengthOf[dir.length])

\* Where each part of a format is, and what its second directive looks like.
LEMMA Shape ==
  ASSUME NEW dir \in Directives
  PROVE  /\ Written(dir) \in Seq(Chars) /\ Len(Written(dir)) = ConvAt(dir) + 2
         /\ ConvAt(dir) \in Nat /\ LengthAt(dir) \in 3 .. ConvAt(dir)
         /\ PrecAt(dir) \in 3 .. LengthAt(dir) /\ WidthAt(dir) \in 3 .. PrecAt(dir)
         /\ Written(dir)[1] = "a" /\ Written(dir)[2] = "%"
         /\ Within(Written(dir), FlagChars(dir), 2)
         /\ Within(Written(dir), WidthChars(dir), WidthAt(dir) - 1)
         /\ Within(Written(dir), PrecChars(dir), PrecAt(dir) - 1)
         /\ Within(Written(dir), LengthOf[dir.length], LengthAt(dir) - 1)
         /\ Written(dir)[ConvAt(dir)] = dir.conv
         /\ Written(dir)[ConvAt(dir) + 1] = "%" /\ Written(dir)[ConvAt(dir) + 2] = "i"
<1> DEFINE p1 == FlagChars(dir)
           p2 == WidthChars(dir)
           p3 == PrecChars(dir)
           p4 == LengthOf[dir.length]
           p5 == <<dir.conv>>
           percent == <<"%">>
           w1 == percent \o p1
           w2 == w1 \o p2
           w3 == w2 \o p3
           w4 == w3 \o p4
           w5 == w4 \o p5
           first == <<"a">>
           more == first \o w5
           second == <<"%", "i">>
<1>1. /\ p1 \in Seq(Chars) /\ p2 \in Seq(Chars) /\ p3 \in Seq(Chars)
      /\ p4 \in Seq(Chars) /\ p5 \in Seq(Chars) /\ Len(p5) = 1 /\ p5[1] = dir.conv
  BY PartsType
<1>2. Written(dir) = more \o second
  <2>1. Spelled(dir) = w5
    BY DEF Spelled, FlagChars, WidthChars, PrecChars, PrecDigits
  <2> QED
    BY <2>1 DEF Written
<1>3. first \in Seq(Chars) /\ second \in Seq(Chars) /\ percent \in Seq(Chars)
      /\ Len(first) = 1 /\ Len(second) = 2 /\ Len(percent) = 1
      /\ first[1] = "a" /\ second[1] = "%" /\ second[2] = "i" /\ percent[1] = "%"
  <2>1. LowerDigits[11] = "a"
    BY DEF LowerDigits
  <2>2. "a" \in Chars /\ "%" \in Chars /\ "i" \in Chars
    BY <2>1 DEF Chars
  <2> QED
    BY <2>2
<1>4. WidthAt(dir) = 3 + Len(p1) /\ PrecAt(dir) = WidthAt(dir) + Len(p2)
      /\ LengthAt(dir) = PrecAt(dir) + Len(p3) /\ ConvAt(dir) = LengthAt(dir) + Len(p4)
  BY DEF WidthAt, PrecAt, LengthAt, ConvAt
<1> HIDE DEF p1, p2, p3, p4, p5, first, second, percent
<1>5. /\ w1 \in Seq(Chars) /\ Len(w1) = 1 + Len(p1)
      /\ Within(w1, percent, 0) /\ Within(w1, p1, 1)
  <2>1. /\ w1 \in Seq(Chars) /\ Len(w1) = Len(percent) + Len(p1)
        /\ Within(w1, percent, 0) /\ Within(w1, p1, Len(percent))
    BY <1>1, <1>3, WithinJoined
  <2> QED
    BY <1>3, <2>1
<1> HIDE DEF w1
<1>6. /\ w2 \in Seq(Chars) /\ Len(w2) = Len(w1) + Len(p2) /\ Len(p1) \in Nat /\ Len(p2) \in Nat
      /\ Within(w2, w1, 0) /\ Within(w2, p2, Len(w1))
  BY <1>1, <1>5, WithinJoined
<1>7. Within(w2, percent, 0) /\ Within(w2, p1, 1)
  BY <1>1, <1>5, WithinLeft
<1> HIDE DEF w2
<1>8. /\ w3 \in Seq(Chars) /\ Len(w3) = Len(w2) + Len(p3) /\ Len(p3) \in Nat
      /\ Within(w3, p3, Len(w2))
  BY <1>1, <1>6, WithinJoined
<1>9. Within(w3, percent, 0) /\ Within(w3, p1, 1) /\ Within(w3, p2, Len(w1))
  BY <1>1, <1>5, <1>6, <1>7, WithinLeft
<1> HIDE DEF w3
<1>10. /\ w4 \in Seq(Chars) /\ Len(w4) = Len(w3) + Len(p4) /\ Len(p4) \in Nat
       /\ Within(w4, p4, Len(w3))
  BY <1>1, <1>8, WithinJoined
<1>11. /\ Within(w4, percent, 0) /\ Within(w4, p1, 1) /\ Within(w4, p2, Len(w1))
       /\ Within(w4, p3, Len(w2))
  BY <1>1, <1>5, <1>6, <1>8, <1>9, WithinLeft
<1> HIDE DEF w4
<1>12. /\ w5 \in Seq(Chars) /\ Len(w5) = Len(w4) + 1 /\ Within(w5, p5, Len(w4))
  <2>1. /\ w5 \in Seq(Chars) /\ Len(w5) = Len(w4) + Len(p5) /\ Within(w5, p5, Len(w4))
    BY <1>1, <1>10, WithinJoined
  <2> QED
    BY <1>1, <2>1
<1>13. /\ Within(w5, percent, 0) /\ Within(w5, p1, 1) /\ Within(w5, p2, Len(w1))
       /\ Within(w5, p3, Len(w2)) /\ Within(w5, p4, Len(w3))
  BY <1>1, <1>5, <1>6, <1>8, <1>10, <1>11, WithinLeft
<1>14. /\ Len(w1) = 1 + Len(p1) /\ Len(w2) = Len(w1) + Len(p2)
       /\ Len(w3) = Len(w2) + Len(p3) /\ Len(w4) = Len(w3) + Len(p4)
       /\ Len(p1) \in Nat /\ Len(p2) \in Nat /\ Len(p3) \in Nat /\ Len(p4) \in Nat
  BY <1>5, <1>6, <1>8, <1>10
<1> HIDE DEF w5
<1>15. /\ more \in Seq(Chars) /\ Len(more) = 1 + Len(w5) /\ Within(more, first, 0)
       /\ Within(more, percent, 1) /\ Within(more, p1, 2) /\ Within(more, p2, 1 + Len(w1))
       /\ Within(more, p3, 1 + Len(w2)) /\ Within(more, p4, 1 + Len(w3))
       /\ Within(more, p5, 1 + Len(w4))
  <2>1. /\ more \in Seq(Chars) /\ Len(more) = 1 + Len(w5) /\ Within(more, first, 0)
    <3>1. /\ more \in Seq(Chars) /\ Len(more) = Len(first) + Len(w5) /\ Within(more, first, 0)
      BY <1>3, <1>12, WithinJoined
    <3> QED
      BY <1>3, <3>1
  <2>2. ASSUME NEW part \in Seq(Chars), NEW o \in Nat, Within(w5, part, o)
        PROVE  Within(more, part, 1 + o)
    <3>1. Within(more, part, Len(first) + o)
      BY <1>3, <1>12, <2>2, WithinRight
    <3> QED
      BY <1>3, <3>1
  <2>3. percent \in Seq(Chars)
    BY <1>3
  <2>4. Len(w1) \in Nat /\ Len(w2) \in Nat /\ Len(w3) \in Nat /\ Len(w4) \in Nat
    BY <1>14
  <2>5. 1 + 0 = 1 /\ 1 + 1 = 2
    OBVIOUS
  <2> HIDE DEF more
  <2>6. Within(more, percent, 1 + 0) /\ Within(more, p1, 1 + 1)
    BY <1>1, <1>13, <2>2, <2>3
  <2> QED
    BY <1>1, <1>12, <1>13, <2>1, <2>2, <2>4, <2>5, <2>6
<1> HIDE DEF more
<1>16. /\ more \o second \in Seq(Chars) /\ Len(more \o second) = Len(more) + 2
       /\ Within(more \o second, second, Len(more))
       /\ Within(more \o second, first, 0) /\ Within(more \o second, percent, 1)
       /\ Within(more \o second, p1, 2) /\ Within(more \o second, p2, 1 + Len(w1))
       /\ Within(more \o second, p3, 1 + Len(w2)) /\ Within(more \o second, p4, 1 + Len(w3))
       /\ Within(more \o second, p5, 1 + Len(w4))
  <2>1. /\ more \o second \in Seq(Chars) /\ Len(more \o second) = Len(more) + 2
        /\ Within(more \o second, second, Len(more))
    <3>1. /\ more \o second \in Seq(Chars) /\ Len(more \o second) = Len(more) + Len(second)
          /\ Within(more \o second, second, Len(more))
      BY <1>3, <1>15, WithinJoined
    <3> QED
      BY <1>3, <3>1
  <2>2. ASSUME NEW part, NEW o \in Nat, Within(more, part, o)
        PROVE  Within(more \o second, part, o)
    BY <1>3, <1>15, <2>2, WithinLeft
  <2>3. 1 + Len(w1) \in Nat /\ 1 + Len(w2) \in Nat /\ 1 + Len(w3) \in Nat
        /\ 1 + Len(w4) \in Nat
    BY <1>14
  <2> QED
    BY <1>15, <2>1, <2>2, <2>3
<1> DEFINE whole == more \o second
<1> HIDE DEF whole
<1>17. /\ ConvAt(dir) \in Nat /\ LengthAt(dir) \in 3 .. ConvAt(dir)
       /\ PrecAt(dir) \in 3 .. LengthAt(dir) /\ WidthAt(dir) \in 3 .. PrecAt(dir)
       /\ WidthAt(dir) - 1 = 1 + Len(w1) /\ PrecAt(dir) - 1 = 1 + Len(w2)
       /\ LengthAt(dir) - 1 = 1 + Len(w3) /\ ConvAt(dir) - 1 = 1 + Len(w4)
       /\ ConvAt(dir) = Len(more)
  <2>1. WidthAt(dir) = 2 + Len(w1) /\ PrecAt(dir) = 2 + Len(w2)
        /\ LengthAt(dir) = 2 + Len(w3) /\ ConvAt(dir) = 2 + Len(w4)
    BY <1>4, <1>14
  <2>2. Len(more) = 2 + Len(w4) /\ Len(w4) \in Nat
    <3>1. Len(w1) \in Nat /\ Len(w2) \in Nat /\ Len(w3) \in Nat /\ Len(w4) \in Nat
      BY <1>14
    <3>2. Len(more) = 1 + Len(w5) /\ Len(w5) = Len(w4) + 1
      BY <1>12, <1>15
    <3> QED
      BY <3>1, <3>2
  <2>3. /\ Len(w1) \in 1 .. Len(w2) /\ Len(w2) \in 1 .. Len(w3)
        /\ Len(w3) \in 1 .. Len(w4)
    BY <1>14
  <2> HIDE DEF w1, w2, w3, w4, more
  <2> QED
    BY <2>1, <2>2, <2>3
<1>18. whole[1] = "a" /\ whole[2] = "%"
  <2>1. 1 \in 1 .. Len(first) /\ 1 \in 1 .. Len(percent)
    BY <1>3
  <2>2. whole[0 + 1] = first[1] /\ whole[1 + 1] = percent[1]
    BY <1>16, <2>1 DEF Within, whole
  <2> QED
    BY <1>3, <2>2
<1>19. whole[ConvAt(dir)] = dir.conv
  <2>1. whole[(1 + Len(w4)) + 1] = p5[1]
    BY <1>1, <1>16 DEF Within, whole
  <2>2. (1 + Len(w4)) + 1 = ConvAt(dir)
    BY <1>17, <1>14
  <2> QED
    BY <1>1, <2>1, <2>2
<1>20. whole[ConvAt(dir) + 1] = "%" /\ whole[ConvAt(dir) + 2] = "i"
  <2>1. 1 \in 1 .. Len(second) /\ 2 \in 1 .. Len(second)
    BY <1>3
  <2>2. whole[Len(more) + 1] = second[1] /\ whole[Len(more) + 2] = second[2]
    BY <1>16, <2>1 DEF Within, whole
  <2> QED
    BY <1>3, <1>17, <2>2
<1> QED
  BY <1>2, <1>16, <1>17, <1>18, <1>19, <1>20 DEF whole, p1, p2, p3, p4

-----------------------------------------------------------------------------
(* Its arguments                                                           *)

\* A first element, taken off.
LEMMA HeadAndTail ==
  ASSUME NEW S, NEW a \in S, NEW rest \in Seq(S)
  PROVE  Head(<<a>> \o rest) = a /\ Tail(<<a>> \o rest) = rest /\ <<a>> \o rest \in Seq(S)
<1>1. <<a>> \in Seq(S) /\ Len(<<a>>) = 1
  OBVIOUS
<1> DEFINE q == <<a>> \o rest
<1>2. q \in Seq(S) /\ Len(q) = 1 + Len(rest) /\ q # <<>> /\ Len(rest) \in Nat /\ Head(q) = a
  BY <1>1, ConcatProperties
<1>3. \A i \in 1 .. Len(rest) : q[i + 1] = rest[i]
  BY <1>1, ConcatProperties
<1> HIDE DEF q
<1>4. /\ Tail(q) \in Seq(S) /\ Len(Tail(q)) = Len(rest)
      /\ \A i \in 1 .. Len(rest) : Tail(q)[i] = q[i + 1]
  BY <1>2, HeadTailProperties
<1>5. Tail(q) = rest
  BY <1>3, <1>4, SeqEqual
<1> QED
  BY <1>2, <1>5 DEF q

\* The arguments that are left at the specifier, at the precision and at the width.
ArgsAtConv(dir) == IF TakesArgument(dir) THEN <<dir.arg>> \o << 7 >> ELSE << 7 >>
ArgsAtPrec(dir) == IF dir.star /\ dir.hasPrec THEN <<dir.prec % 2^Bits>> \o ArgsAtConv(dir)
                   ELSE ArgsAtConv(dir)
ArgsAtWidth(dir) == IF dir.star THEN <<dir.width % 2^Bits>> \o ArgsAtPrec(dir)
                    ELSE ArgsAtPrec(dir)

\* va_arg takes the width, the precision and the argument in this order.
LEMMA ArgsTaken ==
  ASSUME NEW dir \in Directives
  PROVE  /\ Arguments(dir) \o << 7 >> = ArgsAtWidth(dir)
         /\ dir.star => /\ Head(ArgsAtWidth(dir)) = dir.width % 2^Bits
                        /\ Tail(ArgsAtWidth(dir)) = ArgsAtPrec(dir)
         /\ ~dir.star => ArgsAtWidth(dir) = ArgsAtPrec(dir)
         /\ dir.star /\ dir.hasPrec => /\ Head(ArgsAtPrec(dir)) = dir.prec % 2^Bits
                                       /\ Tail(ArgsAtPrec(dir)) = ArgsAtConv(dir)
         /\ ~(dir.star /\ dir.hasPrec) => ArgsAtPrec(dir) = ArgsAtConv(dir)
         /\ TakesArgument(dir) => Head(ArgsAtConv(dir)) = dir.arg /\ Tail(ArgsAtConv(dir)) = << 7 >>
         /\ ~TakesArgument(dir) => ArgsAtConv(dir) = << 7 >>
<1> DEFINE w == dir.width % 2^Bits
           q == dir.prec % 2^Bits
           S == {w, q, dir.arg, 7}
           x == IF dir.star THEN <<w>> ELSE <<>>
           y == IF dir.star /\ dir.hasPrec THEN <<q>> ELSE <<>>
           z == IF TakesArgument(dir) THEN <<dir.arg>> ELSE <<>>
           t == << 7 >>
<1> HIDE DEF w, q
<1>1. /\ x \in Seq(S) /\ y \in Seq(S) /\ z \in Seq(S) /\ t \in Seq(S)
      /\ w \in S /\ q \in S /\ dir.arg \in S
  <2>1. w \in S /\ q \in S /\ dir.arg \in S /\ 7 \in S
    OBVIOUS
  <2> HIDE DEF S
  <2>2. /\ <<w>> \in Seq(S) /\ <<q>> \in Seq(S) /\ <<dir.arg>> \in Seq(S) /\ << 7 >> \in Seq(S)
        /\ <<>> \in Seq(S)
    BY <2>1
  <2> QED
    BY <2>1, <2>2
<1>2. Arguments(dir) \o << 7 >> = ((x \o y) \o z) \o t
  BY DEF Arguments, w, q
<1>3. ArgsAtConv(dir) = z \o t
  <2>1. <<>> \o t = t
    BY <1>1, ConcatEmptySeq
  <2> QED
    BY <2>1 DEF ArgsAtConv
<1> HIDE DEF t, S, z
<1>4. z \o t \in Seq(S)
  BY <1>1, ConcatProperties
<1>5. ArgsAtPrec(dir) = y \o (z \o t)
  <2>1. <<>> \o (z \o t) = z \o t
    BY <1>4, ConcatEmptySeq
  <2> QED
    BY <1>3, <2>1 DEF ArgsAtPrec, q
<1> HIDE DEF y
<1>6. y \o (z \o t) \in Seq(S)
  BY <1>1, <1>4, ConcatProperties
<1>7. ArgsAtWidth(dir) = x \o (y \o (z \o t))
  <2>1. <<>> \o (y \o (z \o t)) = y \o (z \o t)
    BY <1>6, ConcatEmptySeq
  <2> QED
    BY <1>5, <2>1 DEF ArgsAtWidth, w
<1> HIDE DEF x
<1>8. ((x \o y) \o z) \o t = x \o (y \o (z \o t))
  <2>1. x \o y \in Seq(S)
    BY <1>1, ConcatProperties
  <2> DEFINE xy == x \o y
  <2> HIDE DEF xy
  <2>2. (xy \o z) \o t = xy \o (z \o t)
    <3>1. xy \in Seq(S)
      BY <2>1 DEF xy
    <3> QED
      BY <1>1, <3>1, ConcatAssociative
  <2>3. (x \o y) \o (z \o t) = x \o (y \o (z \o t))
    BY <1>1, <1>4, ConcatAssociative
  <2> QED
    BY <2>2, <2>3 DEF xy
<1>9. Arguments(dir) \o << 7 >> = ArgsAtWidth(dir)
  BY <1>2, <1>7, <1>8
<1>10. ArgsAtPrec(dir) \in Seq(S) /\ ArgsAtConv(dir) \in Seq(S) /\ << 7 >> \in Seq(S)
  BY <1>1, <1>3, <1>4, <1>5, <1>6 DEF t
<1>11. dir.star => Head(ArgsAtWidth(dir)) = w /\ Tail(ArgsAtWidth(dir)) = ArgsAtPrec(dir)
  BY <1>1, <1>10, HeadAndTail DEF ArgsAtWidth, w
<1>12. dir.star /\ dir.hasPrec =>
         Head(ArgsAtPrec(dir)) = q /\ Tail(ArgsAtPrec(dir)) = ArgsAtConv(dir)
  BY <1>1, <1>10, HeadAndTail DEF ArgsAtPrec, q
<1>13. TakesArgument(dir) => Head(ArgsAtConv(dir)) = dir.arg /\ Tail(ArgsAtConv(dir)) = << 7 >>
  BY <1>1, <1>10, HeadAndTail DEF ArgsAtConv
<1> QED
  BY <1>9, <1>11, <1>12, <1>13 DEF w, q, ArgsAtWidth, ArgsAtPrec, ArgsAtConv

\* A signed number comes through an argument as it is.
LEMMA SignedThrough ==
  ASSUME NEW x \in SignedWord
  PROVE  ToSigned(x % 2^Bits, Bits) = x
<1> DEFINE h == 2^(Bits - 1)
           W == 2^Bits
<1>1. h \in Nat \ {0} /\ W = 2 * h /\ W \in Nat \ {0}
  BY Sizes
<1>2. x \in -h .. h - 1
  BY DEF SignedWord
<1>3. ToSigned(x % W, Bits) = IF x % W >= h THEN (x % W) - W ELSE x % W
  BY DEF ToSigned
<1> HIDE DEF h, W
<1>4. CASE x >= 0
  <2>1. x \in Nat /\ x < W
    BY <1>1, <1>2, <1>4
  <2>2. x % W = x
    BY <1>1, <2>1
  <2> QED
    BY <1>1, <1>2, <1>3, <2>2, <1>4 DEF W
<1>5. CASE x < 0
  <2>1. x \in Int /\ x >= -W
    BY <1>1, <1>2, <1>5
  <2>2. x % W = x + W
    BY <1>1, <1>5, <2>1
  <2>3. x + W >= h
    BY <1>1, <1>2
  <2>4. (x + W) - W = x
    BY <1>1, <2>1
  <2> QED
    BY <1>3, <2>2, <2>3, <2>4 DEF W
<1> QED
  BY <1>2, <1>4, <1>5, <1>1

\* The characters behind each part: none of them could belong to the part.
LEMMA Borders ==
  ASSUME NEW dir \in Directives, format = Written(dir)
  PROVE  /\ Char(ConvAt(dir)) = dir.conv
         /\ Char(LengthAt(dir)) \notin DOMAIN FlagOf \cup DOMAIN DigitValue \cup {"*", "."}
         /\ Char(PrecAt(dir)) \notin DOMAIN FlagOf \cup DOMAIN DigitValue \cup {"*"}
         /\ Char(PrecAt(dir)) = "." <=> dir.hasPrec
         /\ Char(WidthAt(dir)) \notin DOMAIN FlagOf
         /\ \A m \in 1 .. Len(FlagChars(dir)) : Char(2 + m) = FlagChars(dir)[m]
         /\ \A m \in 1 .. Len(WidthChars(dir)) :
              Char(WidthAt(dir) + m - 1) = WidthChars(dir)[m]
         /\ dir.hasPrec => \A m \in 1 .. Len(PrecDigits(dir)) :
                             Char(PrecAt(dir) + m) = PrecDigits(dir)[m]
         /\ dir.hasPrec => LengthAt(dir) = PrecAt(dir) + 1 + Len(PrecDigits(dir))
         /\ ~dir.hasPrec => LengthAt(dir) = PrecAt(dir)
         /\ \A m \in 1 .. Len(LengthOf[dir.length]) :
              Char(LengthAt(dir) + m - 1) = LengthOf[dir.length][m]
<1> DEFINE n == Len(format)
<1>1. /\ format \in Seq(Chars) /\ n = ConvAt(dir) + 2
      /\ ConvAt(dir) \in Nat /\ LengthAt(dir) \in 3 .. ConvAt(dir)
      /\ PrecAt(dir) \in 3 .. LengthAt(dir) /\ WidthAt(dir) \in 3 .. PrecAt(dir)
      /\ Within(format, FlagChars(dir), 2)
      /\ Within(format, WidthChars(dir), WidthAt(dir) - 1)
      /\ Within(format, PrecChars(dir), PrecAt(dir) - 1)
      /\ Within(format, LengthOf[dir.length], LengthAt(dir) - 1)
      /\ format[ConvAt(dir)] = dir.conv
  BY Shape
<1>2. \A i \in 1 .. n : Char(i) = format[i]
  BY <1>1 DEF Char
<1>3. ASSUME NEW part, NEW o \in Nat, Within(format, part, o), NEW m \in 1 .. Len(part)
      PROVE  Char(o + m) = part[m]
  BY <1>2, <1>3 DEF Within
<1>4. /\ FlagChars(dir) \in Seq(Chars) /\ WidthChars(dir) \in Seq(Chars)
      /\ PrecDigits(dir) \in Seq(Chars) /\ PrecChars(dir) \in Seq(Chars)
      /\ LengthOf[dir.length] \in Seq(Chars)
  BY PartsType
<1>5. Char(ConvAt(dir)) = dir.conv /\ dir.conv \notin Syntax
  <2>1. ConvAt(dir) \in 1 .. n
    BY <1>1
  <2> QED
    BY <1>1, <1>2, <2>1, DirectivesAssumption
<1>6. \A m \in 1 .. Len(FlagChars(dir)) : Char(2 + m) = FlagChars(dir)[m]
  BY <1>1, <1>3
<1>7. \A m \in 1 .. Len(WidthChars(dir)) : Char(WidthAt(dir) + m - 1) = WidthChars(dir)[m]
  <2> TAKE m \in 1 .. Len(WidthChars(dir))
  <2>1. WidthAt(dir) - 1 \in Nat /\ (WidthAt(dir) - 1) + m = WidthAt(dir) + m - 1
    <3>1. WidthAt(dir) \in Nat /\ WidthAt(dir) >= 3 /\ m \in Int
      BY <1>1, <1>4
    <3> QED
      BY <3>1
  <2>2. Char((WidthAt(dir) - 1) + m) = WidthChars(dir)[m]
    BY <1>1, <1>3, <2>1
  <2> QED
    BY <2>1, <2>2
<1>8. \A m \in 1 .. Len(PrecChars(dir)) : Char(PrecAt(dir) + m - 1) = PrecChars(dir)[m]
  <2> TAKE m \in 1 .. Len(PrecChars(dir))
  <2>1. PrecAt(dir) - 1 \in Nat /\ (PrecAt(dir) - 1) + m = PrecAt(dir) + m - 1
    BY <1>1, <1>4
  <2>2. Char((PrecAt(dir) - 1) + m) = PrecChars(dir)[m]
    BY <1>1, <1>3, <2>1
  <2> QED
    BY <2>1, <2>2
<1>9. \A m \in 1 .. Len(LengthOf[dir.length]) :
        Char(LengthAt(dir) + m - 1) = LengthOf[dir.length][m]
  <2> TAKE m \in 1 .. Len(LengthOf[dir.length])
  <2>1. LengthAt(dir) - 1 \in Nat /\ (LengthAt(dir) - 1) + m = LengthAt(dir) + m - 1
    BY <1>1, <1>4
  <2>2. Char((LengthAt(dir) - 1) + m) = LengthOf[dir.length][m]
    BY <1>1, <1>3, <2>1
  <2> QED
    BY <2>1, <2>2
<1>10. LengthAt(dir) = PrecAt(dir) + Len(PrecChars(dir))
       /\ PrecAt(dir) = WidthAt(dir) + Len(WidthChars(dir))
       /\ ConvAt(dir) = LengthAt(dir) + Len(LengthOf[dir.length])
  BY DEF LengthAt, PrecAt, ConvAt
<1>11. Char(LengthAt(dir)) \notin DOMAIN FlagOf \cup DOMAIN DigitValue \cup {"*", "."}
  <2>1. dir.length \in {"none", "l", "ll", "h", "hh", "t", "j", "z"}
    BY DirectivesAssumption DEF LengthOf
  <2>2. CASE dir.length = "none"
    <3>1. Len(LengthOf[dir.length]) = 0
      BY <2>2 DEF LengthOf
    <3>2. LengthAt(dir) = ConvAt(dir)
      BY <1>1, <1>10, <3>1
    <3> QED
      BY <1>5, <3>2 DEF Syntax
  <2>3. CASE dir.length # "none"
    <3>1. /\ LengthOf["l"] = <<"l">> /\ LengthOf["ll"] = <<"l", "l">>
          /\ LengthOf["h"] = <<"h">> /\ LengthOf["hh"] = <<"h", "h">>
          /\ LengthOf["t"] = <<"t">> /\ LengthOf["j"] = <<"j">> /\ LengthOf["z"] = <<"z">>
      BY DEF LengthOf
    <3>2. 1 \in 1 .. Len(LengthOf[dir.length])
          /\ LengthOf[dir.length][1] \in {"l", "h", "t", "j", "z"}
      BY <2>1, <2>3, <3>1
    <3>3. LengthAt(dir) + 1 - 1 = LengthAt(dir)
      BY <1>1
    <3>4. Char(LengthAt(dir)) \in {"l", "h", "t", "j", "z"}
      BY <1>9, <3>2, <3>3
    <3> QED
      BY <3>4, Figures
  <2> QED
    BY <2>2, <2>3
<1>12. ASSUME dir.hasPrec
       PROVE  /\ Char(PrecAt(dir)) = "."
              /\ \A m \in 1 .. Len(PrecDigits(dir)) : Char(PrecAt(dir) + m) = PrecDigits(dir)[m]
              /\ LengthAt(dir) = PrecAt(dir) + 1 + Len(PrecDigits(dir))
  <2>1. PrecChars(dir) = <<".">> \o PrecDigits(dir)
    BY <1>12 DEF PrecChars
  <2>2. <<".">> \in Seq(Chars) /\ Len(<<".">>) = 1 /\ <<".">>[1] = "."
    BY DEF Chars
  <2>3. /\ Len(PrecChars(dir)) = 1 + Len(PrecDigits(dir)) /\ Len(PrecDigits(dir)) \in Nat
        /\ \A i \in 1 .. 1 + Len(PrecDigits(dir)) :
             PrecChars(dir)[i] = IF i <= 1 THEN "." ELSE PrecDigits(dir)[i - 1]
    BY <1>4, <2>1, <2>2, ConcatProperties
  <2>4. Char(PrecAt(dir)) = "."
    <3>1. 1 \in 1 .. Len(PrecChars(dir)) /\ PrecAt(dir) + 1 - 1 = PrecAt(dir)
      BY <1>1, <2>3
    <3> QED
      BY <1>8, <2>3, <3>1
  <2>5. \A m \in 1 .. Len(PrecDigits(dir)) : Char(PrecAt(dir) + m) = PrecDigits(dir)[m]
    <3> TAKE m \in 1 .. Len(PrecDigits(dir))
    <3>1. m + 1 \in 1 .. Len(PrecChars(dir)) /\ PrecAt(dir) + (m + 1) - 1 = PrecAt(dir) + m
          /\ ~(m + 1 <= 1) /\ (m + 1) - 1 = m
      BY <1>1, <2>3
    <3>2. PrecChars(dir)[m + 1] = PrecDigits(dir)[m]
      BY <2>3, <3>1
    <3> QED
      BY <1>8, <3>1, <3>2
  <2>6. LengthAt(dir) = PrecAt(dir) + 1 + Len(PrecDigits(dir))
    BY <1>1, <1>10, <2>3
  <2> QED
    BY <2>4, <2>5, <2>6
<1>13. ASSUME ~dir.hasPrec PROVE PrecAt(dir) = LengthAt(dir)
  <2>1. PrecChars(dir) = <<>>
    BY <1>13 DEF PrecChars
  <2>2. LengthAt(dir) = PrecAt(dir)
    BY <1>1, <1>10, <2>1
  <2> QED
    BY <2>2
<1>14. /\ Char(PrecAt(dir)) \notin DOMAIN FlagOf \cup DOMAIN DigitValue \cup {"*"}
       /\ Char(PrecAt(dir)) = "." <=> dir.hasPrec
  <2>1. "." \notin DOMAIN FlagOf \cup DOMAIN DigitValue \cup {"*"}
    BY Figures
  <2>2. CASE dir.hasPrec
    BY <1>12, <2>1, <2>2
  <2>3. CASE ~dir.hasPrec
    BY <1>11, <1>13, <2>3
  <2> QED
    BY <2>2, <2>3
<1>15. Char(WidthAt(dir)) \notin DOMAIN FlagOf
  <2>1. CASE Len(WidthChars(dir)) = 0
    BY <1>1, <1>10, <1>14, <2>1
  <2>2. CASE Len(WidthChars(dir)) # 0
    <3>1. 1 \in 1 .. Len(WidthChars(dir)) /\ WidthAt(dir) + 1 - 1 = WidthAt(dir)
      BY <1>1, <1>4, <2>2
    <3>2. Char(WidthAt(dir)) = WidthChars(dir)[1]
      BY <1>7, <3>1
    <3>3. CASE dir.star
      <4>1. WidthChars(dir)[1] = "*"
        BY <3>3 DEF WidthChars
      <4> QED
        BY <3>2, <4>1, Figures
    <3>4. CASE ~dir.star
      <4>1. WidthChars(dir) = Decimal(dir.width)
        BY <3>4 DEF WidthChars
      <4>2. dir.width # 0
        BY <2>2, <4>1 DEF Decimal
      <4>3. dir.width \in Nat \ {0} /\ Rounds(dir.width, 10) < BufSize
        <5>1. dir.width \in Word /\ Rounds(dir.width, 10) < BufSize
          BY <3>4, DirectivesAssumption
        <5> QED
          BY <4>2, <5>1, Sizes DEF Word
      <4> QED
        BY <3>2, <4>1, <4>3, DecimalDigits
    <3> QED
      BY <3>3, <3>4
  <2> QED
    BY <2>1, <2>2
<1> QED
  BY <1>5, <1>6, <1>7, <1>9, <1>11, <1>12, <1>13, <1>14, <1>15

-----------------------------------------------------------------------------
(* From the format to the fields of a directive                            *)

\* What has been evaluated of a directive.
Fields == {"at", "args", "flags", "width", "hasPrec", "prec", "length", "conv", "arg"}
Evaluation(p, i, rest, flags, width, hasPrec, prec, length) ==
  /\ DOMAIN p = Fields
  /\ p.at = i /\ p.args = rest /\ p.flags = flags /\ p.width = width
  /\ p.hasPrec = hasPrec /\ p.prec = prec /\ p.length = length

ParsedFlags(dir) == dir.flags \cup (IF dir.star /\ dir.width < 0 THEN {"left"} ELSE {})
ParsedPrec(dir) == IF dir.prec < 0 THEN 0 ELSE dir.prec
ParsedLength(dir) == IF dir.length \in {"none", "h", "hh"} THEN dir.length
                     ELSE IF dir.length \in LongLong THEN "ll" ELSE "l"

\* The flags.
LEMMA FlagsEvaluated ==
  ASSUME NEW dir \in Directives, format = Written(dir)
  PROVE  Evaluation(EvalFlags(Unevaluated(3)), WidthAt(dir), args, dir.flags, 0, FALSE, 0, "none")
<1> DEFINE S == {c \in DOMAIN FlagOf : FlagOf[c] \in dir.flags}
           p == Unevaluated(3)
<1>1. /\ DOMAIN p = Fields /\ p.at = 3 /\ p.args = args /\ p.width = 0
      /\ p.hasPrec = FALSE /\ p.prec = 0 /\ p.length = "none"
  BY DEF Unevaluated, Fields
<1>2. /\ FlagChars(dir) \in Seq(S) /\ Len(FlagChars(dir)) \in Nat
      /\ {FlagChars(dir)[i] : i \in 1 .. Len(FlagChars(dir))} = S
  <2>1. IsFiniteSet(S)
    <3>1. IsFiniteSet({"0", "-", "+", " ", "#"})
      BY FlagSetFinite
    <3>2. S \subseteq {"0", "-", "+", " ", "#"}
      BY Figures
    <3> HIDE DEF S
    <3> QED
      BY <3>1, <3>2, FS_Subset
  <2>2. FlagChars(dir) = SetToSeq(S)
    BY DEF FlagChars
  <2> HIDE DEF S
  <2> QED
    BY <2>1, <2>2, SetToSeqAll
<1>3. /\ \A m \in 1 .. Len(FlagChars(dir)) : Char(2 + m) = FlagChars(dir)[m]
      /\ Char(WidthAt(dir)) \notin DOMAIN FlagOf
  BY Borders
<1>4. /\ format \in Seq(Chars) /\ Len(format) = ConvAt(dir) + 2
      /\ WidthAt(dir) \in 3 .. ConvAt(dir) /\ ConvAt(dir) \in Nat
      /\ WidthAt(dir) = 3 + Len(FlagChars(dir))
      /\ Within(format, FlagChars(dir), 2)
  BY Shape DEF WidthAt
<1>5. ASSUME NEW j \in 3 .. WidthAt(dir) - 1
      PROVE  j - 2 \in 1 .. Len(FlagChars(dir)) /\ 2 + (j - 2) = j
  BY <1>2, <1>4
<1>6. \A j \in 3 .. WidthAt(dir) - 1 : Char(j) \in DOMAIN FlagOf
  <2> TAKE j \in 3 .. WidthAt(dir) - 1
  <2>1. Char(j) = FlagChars(dir)[j - 2]
    BY <1>3, <1>5
  <2>2. FlagChars(dir)[j - 2] \in S
    BY <1>2, <1>5
  <2> QED
    BY <2>1, <2>2
<1>7. After(3, DOMAIN FlagOf) = WidthAt(dir)
  <2>1. 3 \in Int /\ WidthAt(dir) \in 3 .. Len(format) + 1
    BY <1>4
  <2> QED
    BY <1>3, <1>4, <1>6, <2>1, AfterEnds
<1>8. {FlagOf[format[i]] : i \in 3 .. WidthAt(dir) - 1} = dir.flags
  <2>1. ASSUME NEW i \in 3 .. WidthAt(dir) - 1 PROVE FlagOf[format[i]] \in dir.flags
    <3>1. format[i] = FlagChars(dir)[i - 2] /\ FlagChars(dir)[i - 2] \in S
      BY <1>2, <1>4, <1>5 DEF Within
    <3> QED
      BY <3>1
  <2>2. ASSUME NEW f \in dir.flags
        PROVE  \E i \in 3 .. WidthAt(dir) - 1 : FlagOf[format[i]] = f
    <3>1. PICK c \in DOMAIN FlagOf : FlagOf[c] = f
      BY DirectivesAssumption
    <3>2. c \in S
      BY <3>1
    <3>3. PICK m \in 1 .. Len(FlagChars(dir)) : FlagChars(dir)[m] = c
      BY <1>2, <3>2
    <3>4. 2 + m \in 3 .. WidthAt(dir) - 1 /\ format[2 + m] = c
      <4>1. format[2 + m] = FlagChars(dir)[m]
        BY <1>4 DEF Within
      <4>2. 2 + m \in 3 .. WidthAt(dir) - 1
        BY <1>2, <1>4
      <4> QED
        BY <3>3, <4>1, <4>2
    <3> QED
      BY <3>1, <3>4
  <2> QED
    BY <2>1, <2>2
<1>9. EvalFlags(p) = [p EXCEPT !.flags = dir.flags, !.at = WidthAt(dir)]
  BY <1>1, <1>7, <1>8 DEF EvalFlags
<1> HIDE DEF p
<1>10. DOMAIN [p EXCEPT !.flags = dir.flags, !.at = WidthAt(dir)] = Fields
  BY <1>1
<1> QED
  BY <1>1, <1>9, <1>10 DEF Evaluation, Fields, p

\* The width: from the format, from an argument, or none.
LEMMA WidthEvaluated ==
  ASSUME NEW dir \in Directives, format = Written(dir), NEW p,
         Evaluation(p, WidthAt(dir), ArgsAtWidth(dir), dir.flags, 0, FALSE, 0, "none")
  PROVE  Evaluation(EvalWidth(p), PrecAt(dir), ArgsAtPrec(dir), ParsedFlags(dir), Abs(dir.width),
                    FALSE, 0, "none")
<1> DEFINE i == WidthAt(dir)
           e == PrecAt(dir)
           w == ToSigned(Head(p.args), Bits)
<1>1. /\ DOMAIN p = Fields /\ p.at = i /\ p.args = ArgsAtWidth(dir) /\ p.flags = dir.flags
      /\ p.width = 0 /\ p.hasPrec = FALSE /\ p.prec = 0 /\ p.length = "none"
  BY DEF Evaluation
<1>2. /\ Char(e) \notin DOMAIN FlagOf \cup DOMAIN DigitValue \cup {"*"}
      /\ \A m \in 1 .. Len(WidthChars(dir)) : Char(i + m - 1) = WidthChars(dir)[m]
  BY Borders
<1>3. /\ format \in Seq(Chars) /\ Len(format) = ConvAt(dir) + 2 /\ ConvAt(dir) \in Nat
      /\ i \in 3 .. e /\ e \in 3 .. ConvAt(dir)
      /\ e = i + Len(WidthChars(dir))
  BY Shape DEF PrecAt
<1>4. CASE dir.star
  <2>1. WidthChars(dir) = <<"*">>
    BY <1>4 DEF WidthChars
  <2>2. e = i + 1 /\ Char(i) = "*"
    <3>1. 1 \in 1 .. Len(WidthChars(dir)) /\ i + 1 - 1 = i /\ WidthChars(dir)[1] = "*"
          /\ Len(WidthChars(dir)) = 1
      BY <1>3, <2>1
    <3>2. Char(i + 1 - 1) = "*"
      BY <1>2, <3>1
    <3> QED
      BY <1>3, <3>1, <3>2
  <2>3. After(i, DOMAIN DigitValue) = i
    <3>1. Char(i) \notin DOMAIN DigitValue
      BY <2>2, Figures
    <3>2. i \in Int /\ i \in i .. Len(format) + 1 /\ \A j \in i .. i - 1 : FALSE
      BY <1>3
    <3> QED
      BY <1>3, <3>1, <3>2, AfterEnds
  <2>4. ~(i > i)
    BY <1>3
  <2>5. EvalWidth(p) = [Star(p) EXCEPT !.width = Abs(w),
                          !.flags = @ \cup (IF w < 0 THEN {"left"} ELSE {})]
    BY <1>1, <2>2, <2>3, <2>4 DEF EvalWidth
  <2>6. w = dir.width
    <3>1. Head(p.args) = dir.width % 2^Bits
      BY <1>1, <1>4, ArgsTaken
    <3>2. dir.width \in SignedWord
      BY <1>4, DirectivesAssumption
    <3> QED
      BY <3>1, <3>2, SignedThrough
  <2>7. Tail(p.args) = ArgsAtPrec(dir)
    BY <1>1, <1>4, ArgsTaken
  <2> HIDE DEF w
  <2>8. /\ DOMAIN Star(p) = Fields /\ Star(p).at = e /\ Star(p).args = ArgsAtPrec(dir)
        /\ Star(p).flags = dir.flags /\ Star(p).hasPrec = FALSE /\ Star(p).prec = 0
        /\ Star(p).length = "none"
    BY <1>1, <2>2, <2>7 DEF Star, Fields
  <2>9. ParsedFlags(dir) = dir.flags \cup (IF w < 0 THEN {"left"} ELSE {})
    BY <1>4, <2>6 DEF ParsedFlags
  <2> QED
    BY <2>5, <2>6, <2>8, <2>9 DEF Evaluation, Fields
<1>5. CASE ~dir.star
  <2>1. WidthChars(dir) = Decimal(dir.width) /\ ParsedFlags(dir) = dir.flags
    BY <1>5 DEF WidthChars, ParsedFlags
  <2>2. ArgsAtPrec(dir) = ArgsAtWidth(dir)
    BY <1>5, ArgsTaken
  <2>3. dir.width \in Word /\ Rounds(dir.width, 10) < BufSize
    BY <1>5, DirectivesAssumption
  <2>4. dir.width \in Nat /\ Abs(dir.width) = dir.width
    BY <2>3, Sizes DEF Word, Abs
  <2>5. CASE dir.width = 0
    <3>1. Len(WidthChars(dir)) = 0
      BY <2>1, <2>5 DEF Decimal
    <3>2. e = i
      BY <1>3, <3>1
    <3>3. After(i, DOMAIN DigitValue) = i
      <4>1. i \in Int /\ i \in i .. Len(format) + 1 /\ \A j \in i .. i - 1 : FALSE
        BY <1>3
      <4> QED
        BY <1>2, <1>3, <3>2, <4>1, AfterEnds
    <3>4. ~(i > i)
      BY <1>3
    <3>5. EvalWidth(p) = p
      BY <1>1, <1>2, <3>2, <3>3, <3>4 DEF EvalWidth
    <3> QED
      BY <1>1, <2>1, <2>2, <2>4, <2>5, <3>2, <3>5 DEF Evaluation
  <2>6. CASE dir.width # 0
    <3> DEFINE k == Rounds(dir.width, 10)
    <3>1. /\ Len(WidthChars(dir)) = k /\ k \in Nat \ {0}
          /\ \A m \in 1 .. k : WidthChars(dir)[m] \in DOMAIN DigitValue
      BY <2>1, <2>3, <2>4, <2>6, DecimalDigits
    <3>2. \A m \in 1 .. k : Char(i + m - 1) = Decimal(dir.width)[m]
      BY <1>2, <2>1, <3>1
    <3> HIDE DEF k
    <3>3. e = i + k /\ e > i /\ i \in Int
      BY <1>3, <3>1
    <3>4. \A j \in i .. e - 1 : Char(j) \in DOMAIN DigitValue
      <4> TAKE j \in i .. e - 1
      <4>1. (j - i) + 1 \in 1 .. k /\ i + ((j - i) + 1) - 1 = j
        BY <3>1, <3>3
      <4> QED
        BY <1>2, <3>1, <4>1
    <3>5. After(i, DOMAIN DigitValue) = e
      <4>1. e \in i .. Len(format) + 1
        BY <1>3
      <4> QED
        BY <1>2, <1>3, <3>3, <3>4, <4>1, AfterEnds
    <3>6. Char(i) # "*"
      <4>1. i \in i .. e - 1
        BY <3>3, <1>3
      <4>2. Char(i) \in DOMAIN DigitValue
        BY <3>4, <4>1
      <4> QED
        BY <4>2, Figures
    <3>7. EvalWidth(p) = [p EXCEPT !.width = Atoi(i, e), !.at = e]
      BY <1>1, <3>3, <3>5, <3>6 DEF EvalWidth
    <3>8. Atoi(i, e) = dir.width
      <4>1. dir.width \in Word \ {0}
        BY <2>3, <2>6
      <4> QED
        BY <2>3, <3>2, <3>3, <4>1, AtoiReads DEF k
    <3> QED
      BY <1>1, <2>1, <2>2, <2>4, <3>7, <3>8 DEF Evaluation, Fields
  <2> QED
    BY <2>5, <2>6
<1> QED
  BY <1>4, <1>5

\* The precision, which an argument below 0 makes 0.
LEMMA PrecEvaluated ==
  ASSUME NEW dir \in Directives, format = Written(dir), NEW p, NEW flags, NEW width,
         Evaluation(p, PrecAt(dir), ArgsAtPrec(dir), flags, width, FALSE, 0, "none")
  PROVE  Evaluation(EvalPrecision(p), LengthAt(dir), ArgsAtConv(dir), flags, width, dir.hasPrec,
                    ParsedPrec(dir), "none")
<1> DEFINE i == PrecAt(dir)
           e == LengthAt(dir)
           q == [p EXCEPT !.hasPrec = TRUE, !.at = @ + 1]
<1>1. /\ DOMAIN p = Fields /\ p.at = i /\ p.args = ArgsAtPrec(dir) /\ p.flags = flags
      /\ p.width = width /\ p.hasPrec = FALSE /\ p.prec = 0 /\ p.length = "none"
  BY DEF Evaluation
<1>2. /\ Char(e) \notin DOMAIN FlagOf \cup DOMAIN DigitValue \cup {"*", "."}
      /\ Char(i) = "." <=> dir.hasPrec
      /\ dir.hasPrec => \A m \in 1 .. Len(PrecDigits(dir)) : Char(i + m) = PrecDigits(dir)[m]
      /\ dir.hasPrec => e = i + 1 + Len(PrecDigits(dir))
      /\ ~dir.hasPrec => e = i
  BY Borders
<1>3. /\ format \in Seq(Chars) /\ Len(format) = ConvAt(dir) + 2 /\ ConvAt(dir) \in Nat
      /\ i \in 3 .. e /\ e \in 3 .. ConvAt(dir)
  BY Shape
<1>4. /\ DOMAIN q = Fields /\ q.at = i + 1 /\ q.args = ArgsAtPrec(dir) /\ q.flags = flags
      /\ q.width = width /\ q.hasPrec = TRUE /\ q.prec = 0 /\ q.length = "none"
  BY <1>1 DEF Fields
<1>5. CASE ~dir.hasPrec
  <2>1. EvalPrecision(p) = p
    BY <1>1, <1>2, <1>5 DEF EvalPrecision
  <2>2. dir.prec = 0
    BY <1>5, DirectivesAssumption
  <2>3. ParsedPrec(dir) = 0
    BY <2>2 DEF ParsedPrec
  <2>4. ArgsAtPrec(dir) = ArgsAtConv(dir) /\ dir.hasPrec = FALSE
    BY <1>5, ArgsTaken, DirectivesAssumption
  <2> QED
    BY <1>1, <1>2, <1>5, <2>1, <2>3, <2>4 DEF Evaluation
<1>6. CASE dir.hasPrec
  <2>0. dir.hasPrec = TRUE
    BY <1>6, DirectivesAssumption
  <2>1. /\ EvalPrecision(p) =
             CASE Char(i) # "." -> p
               [] Char(i) = "." /\ After(q.at, DOMAIN DigitValue) > q.at ->
                    [q EXCEPT !.prec = Atoi(q.at, After(q.at, DOMAIN DigitValue)),
                              !.at = After(q.at, DOMAIN DigitValue)]
               [] Char(i) = "." /\ Char(q.at) = "*" ->
                    [Star(q) EXCEPT !.prec = Max({ToSigned(Head(q.args), Bits), 0})]
               [] OTHER -> q
        /\ Char(i) = "."
    BY <1>1, <1>2, <1>6 DEF EvalPrecision
  <2> HIDE DEF q
  <2>2. CASE dir.star
    <3>1. PrecDigits(dir) = <<"*">>
      BY <2>2 DEF PrecDigits
    <3>2. e = i + 2 /\ Char(i + 1) = "*"
      <4>1. 1 \in 1 .. Len(PrecDigits(dir)) /\ PrecDigits(dir)[1] = "*"
            /\ Len(PrecDigits(dir)) = 1
        BY <3>1
      <4> QED
        BY <1>2, <1>3, <1>6, <4>1
    <3>3. After(i + 1, DOMAIN DigitValue) = i + 1
      <4>1. Char(i + 1) \notin DOMAIN DigitValue
        BY <3>2, Figures
      <4>2. i + 1 \in Int /\ i + 1 \in i + 1 .. Len(format) + 1
            /\ \A j \in i + 1 .. (i + 1) - 1 : FALSE
        BY <1>3, <3>2
      <4> QED
        BY <1>3, <4>1, <4>2, AfterEnds
    <3>4. ~(i + 1 > i + 1)
      BY <1>3
    <3>5. EvalPrecision(p) = [Star(q) EXCEPT !.prec = Max({ToSigned(Head(q.args), Bits), 0})]
      BY <1>4, <2>1, <3>2, <3>3, <3>4
    <3>6. ToSigned(Head(q.args), Bits) = dir.prec
      <4>1. Head(q.args) = dir.prec % 2^Bits
        BY <1>4, <1>6, <2>2, ArgsTaken
      <4>2. dir.prec \in SignedWord
        BY <2>2, DirectivesAssumption
      <4> QED
        BY <4>1, <4>2, SignedThrough
    <3>7. Max({dir.prec, 0}) = ParsedPrec(dir)
      <4>1. dir.prec \in SignedWord
        BY <2>2, DirectivesAssumption
      <4>2. dir.prec \in Int
        <5> DEFINE h == 2^(Bits - 1)
        <5>1. h \in Nat /\ dir.prec \in -h .. h - 1
          BY <4>1, Sizes DEF SignedWord
        <5> HIDE DEF h
        <5> QED
          BY <5>1
      <4>3. Max({dir.prec, 0}) = IF dir.prec >= 0 THEN dir.prec ELSE 0
        BY <4>2, MaxOfTwo
      <4> QED
        BY <4>2, <4>3 DEF ParsedPrec
    <3>8. Tail(q.args) = ArgsAtConv(dir)
      BY <1>4, <1>6, <2>2, ArgsTaken
    <3>9. /\ DOMAIN Star(q) = Fields /\ Star(q).at = e /\ Star(q).args = ArgsAtConv(dir)
          /\ Star(q).flags = flags /\ Star(q).width = width /\ Star(q).hasPrec = TRUE
          /\ Star(q).length = "none"
      <4>1. (i + 1) + 1 = e
        BY <1>3, <3>2
      <4> QED
        BY <1>4, <3>8, <4>1 DEF Star, Fields
    <3>10. EvalPrecision(p) = [Star(q) EXCEPT !.prec = ParsedPrec(dir)]
      BY <3>5, <3>6, <3>7
    <3> QED
      BY <2>0, <3>9, <3>10 DEF Evaluation, Fields
  <2>3. CASE ~dir.star
    <3>1. PrecDigits(dir) = Decimal(dir.prec)
      BY <2>3 DEF PrecDigits
    <3>2. ArgsAtPrec(dir) = ArgsAtConv(dir)
      BY <2>3, ArgsTaken
    <3>3. dir.prec \in Word /\ Rounds(dir.prec, 10) < BufSize
      BY <2>3, DirectivesAssumption
    <3>4. dir.prec \in Nat /\ ParsedPrec(dir) = dir.prec
      BY <3>3, Sizes DEF Word, ParsedPrec
    <3>5. CASE dir.prec = 0
      <4>1. Len(PrecDigits(dir)) = 0
        BY <3>1, <3>5 DEF Decimal
      <4>2. e = i + 1
        BY <1>2, <1>3, <1>6, <4>1
      <4>3. After(i + 1, DOMAIN DigitValue) = i + 1
        <5>1. /\ i + 1 \in Int /\ i + 1 \in i + 1 .. Len(format) + 1
              /\ \A j \in i + 1 .. (i + 1) - 1 : FALSE
          BY <1>3, <4>2
        <5> QED
          BY <1>2, <1>3, <4>2, <5>1, AfterEnds
      <4>4. ~(i + 1 > i + 1) /\ Char(i + 1) # "*"
        BY <1>2, <1>3, <4>2
      <4>5. EvalPrecision(p) = q
        BY <1>4, <2>1, <4>3, <4>4
      <4> QED
        BY <1>4, <2>0, <3>2, <3>4, <3>5, <4>2, <4>5 DEF Evaluation
    <3>6. CASE dir.prec # 0
      <4> DEFINE k == Rounds(dir.prec, 10)
      <4>1. /\ Len(PrecDigits(dir)) = k /\ k \in Nat \ {0}
            /\ \A m \in 1 .. k : PrecDigits(dir)[m] \in DOMAIN DigitValue
        BY <3>1, <3>3, <3>4, <3>6, DecimalDigits
      <4>2. \A m \in 1 .. k : Char((i + 1) + m - 1) = Decimal(dir.prec)[m]
        <5> TAKE m \in 1 .. k
        <5>1. (i + 1) + m - 1 = i + m
          BY <1>3, <4>1
        <5> QED
          BY <1>2, <1>6, <3>1, <4>1, <5>1
      <4> HIDE DEF k
      <4>3. e = (i + 1) + k /\ e > i + 1 /\ i \in Int /\ i + 1 \in Int
        BY <1>2, <1>3, <1>6, <4>1
      <4>4. \A j \in i + 1 .. e - 1 : Char(j) \in DOMAIN DigitValue
        <5> TAKE j \in i + 1 .. e - 1
        <5>1. j - i \in 1 .. k /\ (i + 1) + (j - i) - 1 = j
          BY <4>1, <4>3
        <5>2. Char(j) = Decimal(dir.prec)[j - i]
          BY <4>2, <5>1
        <5> QED
          BY <3>1, <4>1, <5>1, <5>2
      <4>5. After(i + 1, DOMAIN DigitValue) = e
        <5>1. e \in i + 1 .. Len(format) + 1
          BY <1>3, <4>3
        <5> QED
          BY <1>2, <1>3, <4>3, <4>4, <5>1, AfterEnds
      <4>6. Char(i + 1) # "*"
        <5>1. i + 1 \in i + 1 .. e - 1
          BY <4>3, <1>3
        <5>2. Char(i + 1) \in DOMAIN DigitValue
          BY <4>4, <5>1
        <5> QED
          BY <5>2, Figures
      <4>7. EvalPrecision(p) = [q EXCEPT !.prec = Atoi(i + 1, e), !.at = e]
        BY <1>4, <2>1, <4>3, <4>5, <4>6
      <4>8. Atoi(i + 1, e) = dir.prec
        <5>1. dir.prec \in Word \ {0}
          BY <3>3, <3>6
        <5> QED
          BY <3>3, <4>2, <4>3, <5>1, AtoiReads DEF k
      <4> QED
        BY <1>4, <2>0, <3>2, <3>4, <4>7, <4>8 DEF Evaluation, Fields
    <3> QED
      BY <3>5, <3>6
  <2> QED
    BY <2>2, <2>3
<1> QED
  BY <1>5, <1>6

\* The length, of which the wide ones are all one.
LEMMA LengthEvaluated ==
  ASSUME NEW dir \in Directives, format = Written(dir), NEW p, NEW flags, NEW width, NEW prec,
         Evaluation(p, LengthAt(dir), ArgsAtConv(dir), flags, width, dir.hasPrec, prec, "none")
  PROVE  Evaluation(EvalLength(p), ConvAt(dir), ArgsAtConv(dir), flags, width, dir.hasPrec,
                    prec, ParsedLength(dir))
<1> DEFINE i == LengthAt(dir)
           L == LengthOf[dir.length]
<1>1. /\ DOMAIN p = Fields /\ p.at = i /\ p.args = ArgsAtConv(dir) /\ p.flags = flags
      /\ p.width = width /\ p.hasPrec = dir.hasPrec /\ p.prec = prec /\ p.length = "none"
  BY DEF Evaluation
<1>2. /\ Char(ConvAt(dir)) = dir.conv
      /\ \A m \in 1 .. Len(L) : Char(i + m - 1) = L[m]
  BY Borders
<1>3. i \in Int /\ ConvAt(dir) = i + Len(L)
  BY Shape DEF ConvAt
<1>4. dir.conv \notin {"l", "h", "t", "j", "z"}
  BY DirectivesAssumption DEF Syntax
<1>5. dir.length \in {"none", "l", "ll", "h", "hh", "t", "j", "z"}
  BY DirectivesAssumption DEF LengthOf
<1>6. CASE dir.length = "none"
  <2>1. Len(L) = 0
    BY <1>6 DEF LengthOf
  <2>2. Char(i) = dir.conv /\ ConvAt(dir) = i
    BY <1>2, <1>3, <2>1
  <2>3. EvalLength(p) = p
    BY <1>1, <1>4, <2>2 DEF EvalLength
  <2> QED
    BY <1>1, <1>6, <2>2, <2>3 DEF Evaluation, ParsedLength
<1>7. CASE dir.length \in {"l", "h", "t", "j", "z"}
  <2>1. L = <<dir.length>>
    BY <1>7 DEF LengthOf
  <2>2. Char(i) = dir.length /\ ConvAt(dir) = i + 1 /\ Char(i + 1) = dir.conv
    <3>1. 1 \in 1 .. Len(L) /\ L[1] = dir.length /\ Len(L) = 1 /\ i + 1 - 1 = i
      BY <1>3, <2>1
    <3> HIDE DEF L
    <3>2. Char(i + 1 - 1) = L[1]
      BY <1>2, <3>1
    <3> QED
      BY <1>2, <1>3, <3>1, <3>2
  <2>3. dir.conv # dir.length
    BY <1>4, <1>7
  <2>4. EvalLength(p) = [p EXCEPT !.at = @ + 1,
                       !.length = CASE dir.length = "h" -> "h" [] dir.length = "j" -> "ll"
                                    [] OTHER -> "l"]
    BY <1>1, <1>7, <2>2, <2>3 DEF EvalLength
  <2>5. ParsedLength(dir) = CASE dir.length = "h" -> "h" [] dir.length = "j" -> "ll"
                              [] OTHER -> "l"
    BY <1>7 DEF ParsedLength, LongLong
  <2> QED
    BY <1>1, <2>2, <2>4, <2>5 DEF Evaluation, Fields
<1>8. CASE dir.length \in {"ll", "hh"}
  <2> DEFINE c == IF dir.length = "ll" THEN "l" ELSE "h"
  <2>1. L = <<c, c>> /\ c \in {"l", "h"}
    BY <1>8 DEF LengthOf
  <2>2. Char(i) = c /\ Char(i + 1) = c /\ ConvAt(dir) = i + 2
    <3>1. 1 \in 1 .. Len(L) /\ 2 \in 1 .. Len(L) /\ L[1] = c /\ L[2] = c /\ Len(L) = 2
          /\ i + 1 - 1 = i /\ i + 2 - 1 = i + 1
      BY <1>3, <2>1
    <3> HIDE DEF L, c
    <3>2. Char(i + 1 - 1) = L[1] /\ Char(i + 2 - 1) = L[2]
      BY <1>2, <3>1
    <3> QED
      BY <1>3, <3>1, <3>2
  <2>3. EvalLength(p) = [p EXCEPT !.at = @ + 2, !.length = IF c = "l" THEN "ll" ELSE "hh"]
    <3> HIDE DEF c
    <3> QED
      BY <1>1, <2>1, <2>2 DEF EvalLength
  <2>4. ParsedLength(dir) = IF c = "l" THEN "ll" ELSE "hh"
    BY <1>8 DEF ParsedLength, LongLong
  <2> QED
    BY <1>1, <2>2, <2>3, <2>4 DEF Evaluation, Fields
<1> QED
  BY <1>5, <1>6, <1>7, <1>8

\* f is what the first directive of the format is evaluated to.
Parsed(f, dir) ==
  /\ Evaluation(f, ConvAt(dir) + 1, << 7 >>, ParsedFlags(dir), Abs(dir.width), dir.hasPrec,
                ParsedPrec(dir), ParsedLength(dir))
  /\ f.conv = dir.conv
  /\ TakesArgument(f) <=> TakesArgument(dir)
  /\ TakesArgument(f) => f.arg = dir.arg

\* The first directive is evaluated to the fields it was written with, and has taken
\* its arguments and no more.
LEMMA FirstEvaluated ==
  ASSUME NEW dir \in Directives, format = Written(dir), args = Arguments(dir) \o << 7 >>
  PROVE  Parsed(Evaluated(3), dir)
<1> DEFINE p1 == EvalFlags(Unevaluated(3))
           p2 == EvalWidth(p1)
           p3 == EvalPrecision(p2)
           p4 == EvalLength(p3)
           g == [p4 EXCEPT !.conv = Char(p4.at), !.at = @ + 1]
<1>1. args = ArgsAtWidth(dir)
  BY ArgsTaken
<1>2. Evaluation(p1, WidthAt(dir), ArgsAtWidth(dir), dir.flags, 0, FALSE, 0, "none")
  BY <1>1, FlagsEvaluated
<1> HIDE DEF p1
<1>3. Evaluation(p2, PrecAt(dir), ArgsAtPrec(dir), ParsedFlags(dir), Abs(dir.width),
                 FALSE, 0, "none")
  BY <1>2, WidthEvaluated
<1> HIDE DEF p2
<1>4. Evaluation(p3, LengthAt(dir), ArgsAtConv(dir), ParsedFlags(dir), Abs(dir.width),
                 dir.hasPrec, ParsedPrec(dir), "none")
  BY <1>3, PrecEvaluated
<1> HIDE DEF p3
<1>5. Evaluation(p4, ConvAt(dir), ArgsAtConv(dir), ParsedFlags(dir), Abs(dir.width),
                 dir.hasPrec, ParsedPrec(dir), ParsedLength(dir))
  BY <1>4, LengthEvaluated
<1> HIDE DEF p4
<1>6. /\ Evaluation(g, ConvAt(dir) + 1, ArgsAtConv(dir), ParsedFlags(dir), Abs(dir.width),
                    dir.hasPrec, ParsedPrec(dir), ParsedLength(dir))
      /\ g.conv = dir.conv
  <2>1. Char(ConvAt(dir)) = dir.conv
    BY Borders
  <2> QED
    BY <1>5, <2>1 DEF Evaluation, Fields
<1>7. Evaluated(3) = IF TakesArgument(g) THEN [g EXCEPT !.arg = Head(g.args), !.args = Tail(@)]
                     ELSE g
  BY DEF Evaluated, EvalSpecifier, p1, p2, p3, p4
<1> HIDE DEF g
<1>8. g.length \in LongLong <=> dir.length \in LongLong
  <2>1. g.length = ParsedLength(dir)
    BY <1>6 DEF Evaluation
  <2> QED
    BY <2>1 DEF ParsedLength, LongLong
<1>9. TakesArgument(g) <=> TakesArgument(dir)
  BY <1>6, <1>8 DEF TakesArgument
<1>10. CASE TakesArgument(g)
  <2>1. Head(g.args) = dir.arg /\ Tail(g.args) = << 7 >>
    BY <1>6, <1>9, <1>10, ArgsTaken DEF Evaluation
  <2> DEFINE f == [g EXCEPT !.arg = Head(g.args), !.args = Tail(@)]
  <2>2. /\ Evaluation(f, ConvAt(dir) + 1, << 7 >>, ParsedFlags(dir), Abs(dir.width),
                      dir.hasPrec, ParsedPrec(dir), ParsedLength(dir))
        /\ f.conv = dir.conv /\ f.arg = dir.arg /\ f.length = g.length /\ g.conv = dir.conv
    BY <1>6, <2>1 DEF Evaluation, Fields
  <2>3. Evaluated(3) = f
    BY <1>7, <1>10
  <2> HIDE DEF f
  <2>4. TakesArgument(f) <=> TakesArgument(g)
    BY <2>2 DEF TakesArgument
  <2> QED
    BY <1>9, <2>2, <2>3, <2>4 DEF Parsed
<1>11. CASE ~TakesArgument(g)
  <2>1. ArgsAtConv(dir) = << 7 >>
    BY <1>9, <1>11, ArgsTaken
  <2> QED
    BY <1>6, <1>7, <1>9, <1>11, <2>1 DEF Parsed
<1> QED
  BY <1>10, <1>11

\* %i has nothing but its specifier, and takes the 7.
LEMMA SecondEvaluated ==
  ASSUME NEW dir \in Directives, format = Written(dir), args = << 7 >>
  PROVE  LET f == Evaluated(ConvAt(dir) + 2)
         IN /\ Evaluation(f, ConvAt(dir) + 3, <<>>, {}, 0, FALSE, 0, "none")
            /\ f.conv = "i" /\ f.arg = 7
<1> DEFINE i == ConvAt(dir) + 2
           p == Unevaluated(i)
           g == [p EXCEPT !.conv = Char(p.at), !.at = @ + 1]
<1>1. format \in Seq(Chars) /\ Len(format) = i /\ i \in Int /\ i >= 1 /\ format[i] = "i"
      /\ i + 1 = ConvAt(dir) + 3
  BY Shape
<1>2. Char(i) = "i"
  BY <1>1 DEF Char
<1>3. /\ DOMAIN p = Fields /\ p.at = i /\ p.args = << 7 >> /\ p.flags = {}
      /\ p.width = 0 /\ p.hasPrec = FALSE /\ p.prec = 0 /\ p.length = "none"
  BY DEF Unevaluated, Fields
<1> HIDE DEF p, i
<1>4. "i" \notin DOMAIN FlagOf /\ "i" \notin DOMAIN DigitValue
  BY Figures
<1>5. After(i, DOMAIN FlagOf) = i /\ After(i, DOMAIN DigitValue) = i
  <2>1. i \in Int /\ i \in i .. Len(format) + 1 /\ \A j \in i .. i - 1 : FALSE
    BY <1>1
  <2> QED
    BY <1>1, <1>2, <1>4, <2>1, AfterEnds
<1> DEFINE p1 == EvalFlags(p)
<1>6. /\ DOMAIN p1 = Fields /\ p1.at = i /\ p1.args = << 7 >> /\ p1.flags = {}
      /\ p1.width = 0 /\ p1.hasPrec = FALSE /\ p1.prec = 0 /\ p1.length = "none"
  <2>1. {FlagOf[format[j]] : j \in i .. i - 1} = {}
    BY <1>1
  <2>2. p1 = [p EXCEPT !.flags = {}, !.at = i]
    BY <1>3, <1>5, <2>1 DEF EvalFlags
  <2> HIDE DEF p1
  <2> QED
    BY <1>3, <2>2 DEF Fields
<1> HIDE DEF p1
<1>7. ~(i > i)
  BY <1>1
<1>8. EvalWidth(p1) = p1
  BY <1>2, <1>5, <1>6, <1>7 DEF EvalWidth
<1>9. EvalPrecision(p1) = p1
  BY <1>2, <1>6 DEF EvalPrecision
<1>10. EvalLength(p1) = p1
  BY <1>2, <1>6 DEF EvalLength
<1> DEFINE h == [p1 EXCEPT !.conv = Char(p1.at), !.at = @ + 1]
           f == [h EXCEPT !.arg = Head(h.args), !.args = Tail(@)]
<1>11. /\ DOMAIN h = Fields /\ h.at = i + 1 /\ h.args = << 7 >> /\ h.flags = {}
       /\ h.width = 0 /\ h.hasPrec = FALSE /\ h.prec = 0 /\ h.length = "none" /\ h.conv = "i"
  BY <1>2, <1>6 DEF Fields
<1>12. EvalSpecifier(p1) = IF TakesArgument(h) THEN f ELSE h
  BY DEF EvalSpecifier
<1> HIDE DEF h
<1>13. TakesArgument(h)
  BY <1>11 DEF TakesArgument, LongLong, IntegerConversions, Integers10
<1>14. Head(h.args) = 7 /\ Tail(h.args) = <<>>
  BY <1>11
<1>15. /\ DOMAIN f = Fields /\ f.at = i + 1 /\ f.args = <<>> /\ f.flags = {}
       /\ f.width = 0 /\ f.hasPrec = FALSE /\ f.prec = 0 /\ f.length = "none" /\ f.conv = "i"
       /\ f.arg = 7
  BY <1>11, <1>14 DEF Fields
<1> HIDE DEF f
<1>16. Evaluated(i) = f
  BY <1>8, <1>9, <1>10, <1>12, <1>13 DEF Evaluated, p, p1
<1> QED
  BY <1>1, <1>15, <1>16 DEF Evaluation, i

-----------------------------------------------------------------------------
(* The conversion buffer                                                   *)

\* A text that the conversion buffer has room for.
InBuf(buf) == buf \in Seq(Visible) /\ Len(buf) <= BufSize

\* The characters that numbers are printed with.
LEMMA NumberChars == {"0", "-", "+", " ", "x", "X", "b"} \subseteq Visible
<1>1. LowerDigits[1] = "0" /\ LowerDigits[12] = "b" /\ 1 \in 1 .. 16 /\ 12 \in 1 .. 16
  BY DEF LowerDigits
<1>2. "0" \in Chars /\ "b" \in Chars
  BY <1>1 DEF Chars
<1>3. {"-", "+", " ", "x", "X"} \subseteq Chars
  BY DEF Chars
<1> QED
  BY <1>2, <1>3 DEF Visible

\* A character is put into buf only while there is room.
LEMMA PushFits ==
  ASSUME NEW buf, InBuf(buf), NEW char \in Visible
  PROVE  InBuf(Push(buf, char)) /\ (Len(buf) < BufSize => Push(buf, char) = buf \o <<char>>)
<1>1. /\ Append(buf, char) \in Seq(Visible) /\ Len(Append(buf, char)) = Len(buf) + 1
      /\ Len(buf) \in Nat /\ Append(buf, char) = buf \o <<char>>
  BY AppendProperties, AppendIsConcat DEF InBuf
<1>2. BufSize \in Nat
  BY Sizes
<1> QED
  BY <1>1, <1>2 DEF Push, InBuf

\* Zeros up to the place n, or to the buffer's end.
LEMMA ZeroPadFits ==
  ASSUME NEW buf, InBuf(buf), NEW n \in Int
  PROVE  /\ InBuf(ZeroPad(buf, n))
         /\ n <= BufSize => ZeroPad(buf, n) = buf \o Zeros(n - Len(buf))
<1> DEFINE end == IF n <= BufSize THEN n ELSE BufSize
           places == {i \in Len(buf) .. BufSize - 1 : i < n}
           k == IF end > Len(buf) THEN end - Len(buf) ELSE 0
<1>1. BufSize \in Nat /\ Len(buf) \in Nat /\ Len(buf) <= BufSize
  BY Sizes DEF InBuf
<1>2. places = Len(buf) .. end - 1
  BY <1>1
<1>3. Cardinality(places) = k
  <2>1. Len(buf) \in Int /\ end - 1 \in Int
    BY <1>1
  <2>2. Cardinality(Len(buf) .. end - 1) =
          IF Len(buf) > end - 1 THEN 0 ELSE (end - 1) - Len(buf) + 1
    BY <2>1, CountUpTo
  <2>3. end \in Int
    BY <1>1
  <2> HIDE DEF end, places
  <2> QED
    BY <1>1, <1>2, <2>2, <2>3
<1>4. ZeroPad(buf, n) = buf \o Repeat("0", k)
  BY <1>3 DEF ZeroPad
<1>5. k \in Nat /\ Len(buf) + k <= BufSize
  BY <1>1
<1>6. n <= BufSize => Max({n - Len(buf), 0}) = k
  <2>1. n - Len(buf) \in Int
    BY <1>1
  <2>2. Max({n - Len(buf), 0}) = IF n - Len(buf) >= 0 THEN n - Len(buf) ELSE 0
    BY <2>1, MaxOfTwo
  <2> QED
    BY <1>1, <2>2
<1> HIDE DEF k
<1>7. Repeat("0", k) \in Seq(Visible) /\ Len(Repeat("0", k)) = k
  BY <1>5, NumberChars, RepeatType
<1>8. /\ buf \o Repeat("0", k) \in Seq(Visible)
      /\ Len(buf \o Repeat("0", k)) = Len(buf) + Len(Repeat("0", k))
  BY <1>7, ConcatProperties DEF InBuf
<1>9. InBuf(buf \o Repeat("0", k))
  BY <1>5, <1>7, <1>8 DEF InBuf
<1> QED
  BY <1>4, <1>6, <1>9 DEF Zeros

\* The prefix replaces what is cut off.
LEMMA HashFits ==
  ASSUME NEW buf, InBuf(buf), NEW f, NEW width
  PROVE  InBuf(Hash(f, buf, width))
<1> DEFINE c == IF Base(f) = 16 THEN 2 ELSE 1
           cut == IF ~f.hasPrec /\ buf # <<>> /\ (Len(buf) = f.prec \/ Len(buf) = width)
                  THEN Max({Len(buf) - c, 0})
                  ELSE Len(buf)
           kept == SubSeq(buf, 1, cut)
           letter == IF Base(f) = 16 THEN Push(kept, IF Upper(f) THEN "X" ELSE "x")
                     ELSE IF Base(f) = 2 THEN Push(kept, "b")
                     ELSE kept
<1>1. Len(buf) \in Nat /\ buf \in Seq(Visible) /\ Len(buf) <= BufSize /\ BufSize \in Nat
  BY Sizes DEF InBuf
<1>2. cut \in 0 .. Len(buf)
  <2>1. c \in Nat /\ Len(buf) - c \in Int
    BY <1>1
  <2> HIDE DEF c
  <2>2. Max({Len(buf) - c, 0}) = IF Len(buf) - c >= 0 THEN Len(buf) - c ELSE 0
    BY <2>1, MaxOfTwo
  <2> QED
    BY <1>1, <2>1, <2>2
<1> HIDE DEF cut
<1>3. InBuf(kept)
  <2>1. \A i \in 1 .. cut : buf[i] \in Visible
    BY <1>1, <1>2
  <2>2. kept \in Seq(Visible) /\ Len(kept) = IF 1 <= cut THEN cut - 1 + 1 ELSE 0
    BY <1>2, <2>1, SubSeqProperties
  <2> HIDE DEF kept
  <2> QED
    BY <1>1, <1>2, <2>2 DEF InBuf
<1> HIDE DEF kept
<1>4. InBuf(letter)
  BY <1>3, PushFits, NumberChars
<1>5. Hash(f, buf, width) = Push(letter, "0")
  BY DEF Hash, cut, kept
<1> HIDE DEF letter
<1> QED
  BY <1>4, <1>5, PushFits, NumberChars

\* The value of an argument.
LEMMA ValueType ==
  ASSUME NEW f, f.arg \in Word
  PROVE  Value(f) \in Int /\ (~IsSigned(f) => Value(f) \in Nat) /\ Base(f) \in Bases
<1> DEFINE c == 2^CharBits
           h == 2^ShortBits
           w == 2^Bits
<1>1. /\ c \in Nat \ {0} /\ h \in Nat \ {0} /\ w \in Nat \ {0}
  BY Sizes
<1>2. f.arg \in 0 .. w - 1
  BY DEF Word
<1> HIDE DEF c, h, w
<1>3. f.arg \in Nat /\ f.arg % c \in Nat /\ f.arg % h \in Nat
  BY <1>1, <1>2
<1>4. ToSigned(f.arg, Bits) \in Int
  BY <1>1, <1>3 DEF ToSigned, w
<1>5. ToSigned(f.arg % h, ShortBits) \in Int
  BY <1>1, <1>3 DEF ToSigned, h
<1>6. Value(f) = CASE f.length = "hh" /\ f.conv # "p" -> f.arg % c
                  [] f.length = "h" /\ f.conv # "p" ->
                       IF IsSigned(f) THEN ToSigned(f.arg % h, ShortBits) ELSE f.arg % h
                  [] OTHER -> IF IsSigned(f) THEN ToSigned(f.arg, Bits) ELSE f.arg
  BY DEF Value, c, h
<1>7. Base(f) \in Bases
  BY DEF Base, Bases
<1> QED
  BY <1>3, <1>4, <1>5, <1>6, <1>7

\* An absolute value.
LEMMA AbsType == ASSUME NEW v \in Int PROVE Abs(v) \in Nat
BY DEF Abs

\* Digits, zeros, prefix and sign of any number.
LEMMA FormatFits ==
  ASSUME NEW f, f.width \in Int, f.prec \in Int, NEW digits, InBuf(digits), NEW negative, NEW hash
  PROVE  InBuf(NtoaFormat(f, digits, negative, hash))
<1> DEFINE flags == Flags(f)
           width == PadWidth(f, negative)
           until == IF "zero" \in flags THEN width ELSE 0
           zeros == IF "left" \in flags THEN digits ELSE ZeroPad(ZeroPad(digits, f.prec), until)
           prefixed == IF hash THEN Hash(f, zeros, width) ELSE zeros
<1>1. until \in Int
  BY DEF PadWidth
<1> HIDE DEF until
<1>2. InBuf(zeros)
  <2>1. InBuf(ZeroPad(digits, f.prec))
    BY ZeroPadFits
  <2> QED
    BY <1>1, <2>1, ZeroPadFits
<1> HIDE DEF zeros
<1>3. InBuf(prefixed)
  BY <1>2, HashFits
<1>4. NtoaFormat(f, digits, negative, hash) =
        IF negative THEN Push(prefixed, "-")
        ELSE IF "plus" \in flags THEN Push(prefixed, "+")
        ELSE IF "space" \in flags THEN Push(prefixed, " ")
        ELSE prefixed
  BY DEF NtoaFormat, zeros, until
<1> HIDE DEF prefixed, flags
<1> QED
  BY <1>3, <1>4, PushFits, NumberChars

\* An integer that is converted stays inside buf.
LEMMA NtoaFits ==
  ASSUME NEW f, f.width \in Int, f.prec \in Int, f.arg \in Word
  PROVE  InBuf(NtoaLong(f))
<1> DEFINE v == Value(f)
           digits == IF f.hasPrec /\ v = 0 THEN <<>> ELSE Digits(Abs(v), Base(f), Upper(f))
<1>1. Abs(v) \in Nat /\ Base(f) \in Bases
  BY ValueType, AbsType
<1>2. InBuf(digits)
  <2>1. InBuf(<<>>)
    BY Sizes DEF InBuf
  <2>2. InBuf(Digits(Abs(v), Base(f), Upper(f)))
    <3>1. /\ Digits(Abs(v), Base(f), Upper(f)) \in Seq(Visible)
          /\ Len(Digits(Abs(v), Base(f), Upper(f))) = Rounds(Abs(v), Base(f))
          /\ Rounds(Abs(v), Base(f)) \in 1 .. BufSize
      BY <1>1, DigitsType, RoundsMeaning
    <3> QED
      BY <3>1, Sizes DEF InBuf
  <2> QED
    BY <2>1, <2>2
<1>3. NtoaLong(f) = NtoaFormat(f, digits, v < 0, "hash" \in Flags(f) /\ v # 0)
  BY DEF NtoaLong
<1> HIDE DEF digits, v
<1> QED
  BY <1>2, <1>3, FormatFits

\* What _out_rev gives on.
LEMMA OutRevType ==
  ASSUME NEW buf \in Seq(Visible), NEW width \in Int, NEW flags
  PROVE  OutRev(buf, width, flags) \in Seq(Visible)
<1>1. Max({width - Len(buf), 0}) \in Nat
  <2>1. width - Len(buf) \in Int
    OBVIOUS
  <2> QED
    BY <2>1, MaxOfTwo
<1>2. Repeat(" ", Max({width - Len(buf), 0})) \in Seq(Visible)
  BY <1>1, NumberChars, RepeatType
<1>3. Reverse(buf) \in Seq(Visible)
  BY ReverseType
<1> QED
  BY <1>2, <1>3, ConcatProperties DEF OutRev

-----------------------------------------------------------------------------
(* The number in the buffer: digits, zeros, and its sign or prefix         *)

\* Zeros and blanks: none, where the number is not above 0.
LEMMA FillType ==
  ASSUME NEW n \in Int
  PROVE  /\ Zeros(n) = Repeat("0", IF n > 0 THEN n ELSE 0)
         /\ Blank(n) = Repeat(" ", IF n > 0 THEN n ELSE 0)
         /\ Zeros(n) \in Seq(Visible) /\ Len(Zeros(n)) = (IF n > 0 THEN n ELSE 0)
         /\ Blank(n) \in Seq(Visible) /\ Len(Blank(n)) = (IF n > 0 THEN n ELSE 0)
         /\ n <= 0 => Zeros(n) = <<>> /\ Blank(n) = <<>>
         /\ Reverse(Zeros(n)) = Zeros(n)
<1> DEFINE k == IF n > 0 THEN n ELSE 0
<1>1. Max({n, 0}) = k /\ k \in Nat
  BY MaxOfTwo
<1>2. n <= 0 => k = 0
  OBVIOUS
<1> HIDE DEF k
<1>3. /\ Repeat("0", k) \in Seq(Visible) /\ Len(Repeat("0", k)) = k
      /\ Reverse(Repeat("0", k)) = Repeat("0", k)
      /\ Repeat(" ", k) \in Seq(Visible) /\ Len(Repeat(" ", k)) = k
  BY <1>1, NumberChars, RepeatType
<1>4. k = 0 => Repeat("0", k) = <<>> /\ Repeat(" ", k) = <<>>
  BY RepeatNone
<1> QED
  BY <1>1, <1>2, <1>3, <1>4 DEF Zeros, Blank, k

\* The sign or the prefix of a number.
Prefix(f, negative, hash) ==
  CASE negative -> <<"-">>
    [] ~negative /\ "plus" \in Flags(f) -> <<"+">>
    [] ~negative /\ "plus" \notin Flags(f) /\ "space" \in Flags(f) -> <<" ">>
    [] ~negative /\ Flags(f) \cap {"plus", "space"} = {} /\ hash ->
         IF Base(f) = 16 THEN <<"0", IF Upper(f) THEN "X" ELSE "x">> ELSE <<"0">>
    [] OTHER -> <<>>

\* A number is filled with zeros up to its field, or up to its precision.
Filled(f) == "left" \notin Flags(f) /\ "zero" \in Flags(f)
ZerosOf(f, n, c) ==
  IF "left" \in Flags(f) THEN 0 ELSE IF Filled(f) THEN f.width - c - n ELSE f.prec - n

\* What a conversion can be asked for so that nothing of the number gets lost.
Printable(f, n, c, negative, hash) ==
  /\ f.width \in Nat /\ f.prec \in Nat /\ f.hasPrec \in BOOLEAN
  /\ negative \in BOOLEAN /\ hash \in BOOLEAN
  /\ ~f.hasPrec => f.prec = 0
  /\ f.hasPrec => "zero" \notin Flags(f) /\ "left" \notin Flags(f)
  /\ hash => /\ ~negative /\ Flags(f) \cap {"plus", "space"} = {} /\ Base(f) \in {8, 16}
             /\ n >= 1
             /\ ~f.hasPrec => IF Filled(f) THEN n <= f.width - c \/ n > f.width
                              ELSE n # f.width
  /\ n + c <= BufSize /\ f.prec + c <= BufSize
  /\ Filled(f) => f.width + c <= BufSize

\* How long it is.
LEMMA PrefixType ==
  ASSUME NEW f, NEW negative \in BOOLEAN, NEW hash \in BOOLEAN
  PROVE  LET pre == Prefix(f, negative, hash)
             signs == negative \/ Flags(f) \cap {"plus", "space"} # {}
         IN /\ pre \in Seq(Visible)
            /\ signs => Len(pre) = 1
            /\ ~signs /\ ~hash => pre = <<>> /\ Len(pre) = 0
            /\ ~signs /\ hash => Len(pre) = IF Base(f) = 16 THEN 2 ELSE 1
<1>1. /\ <<"-">> \in Seq(Visible) /\ <<"+">> \in Seq(Visible) /\ <<" ">> \in Seq(Visible)
      /\ <<"0">> \in Seq(Visible) /\ <<"0", "X">> \in Seq(Visible)
      /\ <<"0", "x">> \in Seq(Visible) /\ <<>> \in Seq(Visible)
  <2>1. "-" \in Visible /\ "+" \in Visible /\ " " \in Visible /\ "0" \in Visible
        /\ "X" \in Visible /\ "x" \in Visible
    BY NumberChars
  <2>2. ASSUME NEW S, NEW a \in S, NEW b \in S
        PROVE  <<a>> \in Seq(S) /\ <<a, b>> \in Seq(S) /\ <<>> \in Seq(S)
    OBVIOUS
  <2> QED
    BY <2>1, <2>2
<1>2. CASE negative
  BY <1>1, <1>2 DEF Prefix
<1>3. CASE ~negative /\ "plus" \in Flags(f)
  BY <1>1, <1>3 DEF Prefix
<1>4. CASE ~negative /\ "plus" \notin Flags(f) /\ "space" \in Flags(f)
  BY <1>1, <1>4 DEF Prefix
<1>5. CASE ~negative /\ "plus" \notin Flags(f) /\ "space" \notin Flags(f)
  <2>1. Flags(f) \cap {"plus", "space"} = {}
    BY <1>5
  <2> QED
    BY <1>1, <1>5, <2>1 DEF Prefix
<1> QED
  BY <1>2, <1>3, <1>4, <1>5

\* The digits with the zeros in front of them, before a prefix that there is no
\* sign next to.
LEMMA ZerosAre ==
  ASSUME NEW f, NEW digits, InBuf(digits), NEW negative, NEW hash,
         Printable(f, Len(digits), Len(Prefix(f, negative, hash)), negative, hash)
  PROVE  LET n == Len(digits)
             c == Len(Prefix(f, negative, hash))
             width == PadWidth(f, negative)
             zeros == IF "left" \in Flags(f) THEN digits
                      ELSE ZeroPad(ZeroPad(digits, f.prec),
                                   IF "zero" \in Flags(f) THEN width ELSE 0)
         IN /\ ~hash => zeros = digits \o Zeros(ZerosOf(f, n, c))
            /\ hash => width = f.width /\ zeros = digits \o Zeros(ZerosOf(f, n, 0))
<1> DEFINE n == Len(digits)
           c == Len(Prefix(f, negative, hash))
           width == PadWidth(f, negative)
           signs == negative \/ Flags(f) \cap {"plus", "space"} # {}
<1>1. /\ f.width \in Nat /\ f.prec \in Nat /\ f.hasPrec \in BOOLEAN
      /\ negative \in BOOLEAN /\ hash \in BOOLEAN
      /\ ~f.hasPrec => f.prec = 0
      /\ f.hasPrec => "zero" \notin Flags(f) /\ "left" \notin Flags(f)
      /\ hash => ~negative /\ Flags(f) \cap {"plus", "space"} = {}
      /\ n + c <= BufSize /\ f.prec + c <= BufSize
      /\ Filled(f) => f.width + c <= BufSize
  BY DEF Printable
<1>2. n \in Nat /\ BufSize \in Nat /\ digits \in Seq(Visible)
  BY Sizes DEF InBuf
<1>3. /\ signs => c = 1
      /\ ~signs /\ ~hash => c = 0
      /\ c \in Nat
  <2> DEFINE pre == Prefix(f, negative, hash)
  <2>1. /\ pre \in Seq(Visible)
        /\ signs => Len(pre) = 1
        /\ ~signs /\ ~hash => Len(pre) = 0
    BY <1>1, PrefixType
  <2> HIDE DEF pre
  <2>2. Len(pre) \in Nat
    BY <2>1
  <2> QED
    BY <2>1, <2>2 DEF pre
<1>4. width = IF Filled(f) /\ f.width > 0 /\ signs THEN f.width - 1 ELSE f.width
  BY DEF PadWidth, Filled
<1>5. hash => width = f.width
  BY <1>1, <1>4
<1> HIDE DEF c, width, n
<1>6. digits \o Zeros(0) = digits /\ ZeroPad(digits, 0) = digits
  <2>1. Zeros(0) = <<>> /\ Zeros(0 - n) = <<>>
    <3>1. 0 - n \in Int /\ 0 - n <= 0 /\ 0 \in Int /\ 0 <= 0
      BY <1>2
    <3> QED
      BY <3>1, FillType
  <2>2. ZeroPad(digits, 0) = digits \o Zeros(0 - n)
    <3>1. 0 \in Int /\ 0 <= BufSize
      BY <1>2
    <3> QED
      BY <3>1, ZeroPadFits DEF n
  <2> QED
    BY <1>2, <2>1, <2>2, ConcatEmptySeq
<1>7. CASE "left" \in Flags(f)
  BY <1>1, <1>5, <1>6, <1>7 DEF ZerosOf, n, c, width
<1>8. CASE Filled(f)
  <2>1. f.prec = 0 /\ "left" \notin Flags(f) /\ "zero" \in Flags(f)
    BY <1>1, <1>8 DEF Filled
  <2>2. width \in Int /\ width <= BufSize
    BY <1>1, <1>2, <1>3, <1>4, <1>8
  <2>3. ZeroPad(digits, width) = digits \o Zeros(width - n)
    BY <2>2, ZeroPadFits DEF n
  <2>4. ~hash => Zeros(width - n) = Zeros(f.width - c - n)
    <3>1. CASE f.width > 0 \/ ~signs
      <4>1. ~hash => width = f.width - c
        BY <1>1, <1>3, <1>4, <1>8, <3>1
      <4> QED
        BY <4>1
    <3>2. CASE ~(f.width > 0) /\ signs
      <4>1. width - n <= 0 /\ f.width - c - n <= 0 /\ width - n \in Int /\ f.width - c - n \in Int
        BY <1>1, <1>2, <1>3, <1>4, <3>2
      <4> QED
        BY <4>1, FillType
    <3> QED
      BY <3>1, <3>2
  <2>5. hash => Zeros(width - n) = Zeros(f.width - 0 - n)
    BY <1>1, <1>5
  <2> QED
    BY <1>5, <1>6, <1>8, <2>1, <2>3, <2>4, <2>5 DEF ZerosOf, Filled, n, c, width
<1>9. CASE "left" \notin Flags(f) /\ "zero" \notin Flags(f)
  <2> DEFINE buf == ZeroPad(digits, f.prec)
  <2>1. f.prec \in Int /\ f.prec <= BufSize
    BY <1>1, <1>2, <1>3
  <2>2. InBuf(buf) /\ buf = digits \o Zeros(f.prec - n)
    BY <2>1, ZeroPadFits DEF n
  <2> HIDE DEF buf
  <2>3. ZeroPad(buf, 0) = buf
    <3>1. Len(buf) \in Nat /\ buf \in Seq(Visible)
      BY <2>2 DEF InBuf
    <3>2. Zeros(0 - Len(buf)) = <<>>
      <4>1. 0 - Len(buf) \in Int /\ 0 - Len(buf) <= 0
        BY <3>1
      <4> QED
        BY <4>1, FillType
    <3>3. ZeroPad(buf, 0) = buf \o Zeros(0 - Len(buf))
      <4>1. 0 \in Int /\ 0 <= BufSize
        BY <1>2
      <4> QED
        BY <2>2, <4>1, ZeroPadFits
    <3> QED
      BY <3>1, <3>2, <3>3, ConcatEmptySeq
  <2> QED
    BY <1>5, <1>9, <2>2, <2>3 DEF ZerosOf, Filled, n, c, width, buf
<1> QED
  BY <1>7, <1>8, <1>9 DEF Filled

\* Reversing one character, two, and none.
LEMMA ReverseFew ==
  ASSUME NEW S, NEW a \in S, NEW b \in S
  PROVE  /\ Reverse(<<a>>) = <<a>> /\ Reverse(<<>>) = <<>>
         /\ Reverse(<<a, b>>) = <<b>> \o <<a>>
<1>1. <<a>> \in Seq(S) /\ <<b>> \in Seq(S) /\ <<a, b>> \in Seq(S) /\ <<>> \in Seq(S)
  OBVIOUS
<1>2. Reverse(<<a>>) = <<a>>
  <2> DEFINE q == <<a>>
  <2>1. q \in Seq(S) /\ Len(q) = 1 /\ q[1] = a
    OBVIOUS
  <2> HIDE DEF q
  <2>2. Reverse(q) \in Seq(S) /\ Len(Reverse(q)) = 1 /\ Reverse(q)[1] = q[1]
    BY <2>1, ReverseType
  <2>3. Reverse(q) = q
    BY <2>1, <2>2, SeqEqual
  <2> QED
    BY <2>3 DEF q
<1>3. Reverse(<<>>) = <<>>
  <2> DEFINE q == <<>>
  <2>1. q \in Seq(S) /\ Len(q) = 0
    OBVIOUS
  <2> HIDE DEF q
  <2>2. Reverse(q) \in Seq(S) /\ Len(Reverse(q)) = Len(q)
    BY <2>1, ReverseType
  <2>3. Reverse(q) = q
    BY <2>1, <2>2, SeqEqual
  <2> QED
    BY <2>3 DEF q
<1>4. Reverse(<<a, b>>) = <<b>> \o <<a>>
  <2> DEFINE q == <<a, b>>
             r == <<b>> \o <<a>>
  <2>1. q \in Seq(S) /\ Len(q) = 2 /\ q[1] = a /\ q[2] = b
    OBVIOUS
  <2>2. r \in Seq(S) /\ Len(r) = 2 /\ r[1] = b /\ r[2] = a
    BY <1>1
  <2> HIDE DEF q, r
  <2>3. Reverse(q) \in Seq(S) /\ Len(Reverse(q)) = 2 /\ Reverse(q)[1] = q[2]
        /\ Reverse(q)[2] = q[1]
    <3>1. /\ Reverse(q) \in Seq(S) /\ Len(Reverse(q)) = Len(q)
          /\ \A i \in 1 .. Len(q) : Reverse(q)[i] = q[(Len(q) - i) + 1]
      BY <2>1, ReverseType
    <3>2. Len(q) = 2 /\ 1 \in 1 .. 2 /\ 2 \in 1 .. 2 /\ (2 - 1) + 1 = 2 /\ (2 - 2) + 1 = 1
      BY <2>1
    <3> QED
      BY <3>1, <3>2
  <2>4. Reverse(q) = r
    BY <2>1, <2>2, <2>3, SeqEqual
  <2> QED
    BY <2>4 DEF q, r
<1> QED
  BY <1>2, <1>3, <1>4

\* Zeros cut off at the end.
LEMMA CutZeros ==
  ASSUME NEW digits \in Seq(Visible), NEW k \in Nat, NEW m \in Len(digits) .. Len(digits) + k
  PROVE  SubSeq(digits \o Zeros(k), 1, m) = digits \o Zeros(m - Len(digits))
<1> DEFINE n == Len(digits)
           a == digits \o Zeros(k)
           b == digits \o Zeros(m - n)
<1>1. n \in Nat /\ m \in Nat /\ n <= m /\ m <= n + k /\ m - n \in Nat
  OBVIOUS
<1>2. /\ Zeros(k) \in Seq(Visible) /\ Len(Zeros(k)) = k
      /\ Zeros(m - n) \in Seq(Visible) /\ Len(Zeros(m - n)) = m - n
      /\ Zeros(k) = Repeat("0", k) /\ Zeros(m - n) = Repeat("0", m - n)
  <2>1. ASSUME NEW i \in Nat
        PROVE  Zeros(i) \in Seq(Visible) /\ Len(Zeros(i)) = i /\ Zeros(i) = Repeat("0", i)
    <3>1. i \in Int /\ (IF i > 0 THEN i ELSE 0) = i
      OBVIOUS
    <3> QED
      BY <3>1, FillType
  <2> HIDE DEF n
  <2> QED
    BY <1>1, <2>1
<1>3. /\ \A i \in 1 .. k : Zeros(k)[i] = "0"
      /\ \A i \in 1 .. m - n : Zeros(m - n)[i] = "0"
  <2> HIDE DEF n
  <2> QED
    BY <1>1, <1>2 DEF Repeat
<1>4. /\ a \in Seq(Visible) /\ Len(a) = n + k
      /\ \A i \in 1 .. n + k : a[i] = IF i <= n THEN digits[i] ELSE Zeros(k)[i - n]
  BY <1>2, ConcatProperties
<1>5. /\ b \in Seq(Visible) /\ Len(b) = n + (m - n)
      /\ \A i \in 1 .. n + (m - n) : b[i] = IF i <= n THEN digits[i] ELSE Zeros(m - n)[i - n]
  BY <1>2, ConcatProperties
<1> HIDE DEF a, b, n
<1>6. /\ SubSeq(a, 1, m) \in Seq(Visible) /\ Len(SubSeq(a, 1, m)) = m
      /\ \A i \in 1 .. m : SubSeq(a, 1, m)[i] = a[i]
  <2>1. \A i \in 1 .. m : a[i] \in Visible
    <3> TAKE i \in 1 .. m
    <3>1. i \in 1 .. Len(a)
      BY <1>1, <1>4
    <3> QED
      BY <1>4, <3>1, ElementOfSeq
  <2>2. /\ SubSeq(a, 1, m) \in Seq(Visible)
        /\ Len(SubSeq(a, 1, m)) = IF 1 <= m THEN m - 1 + 1 ELSE 0
        /\ \A i \in 1 .. m - 1 + 1 : SubSeq(a, 1, m)[i] = a[1 + i - 1]
    BY <1>1, <2>1, SubSeqProperties
  <2>3. m - 1 + 1 = m /\ \A i \in 1 .. m : 1 + i - 1 = i
    BY <1>1
  <2> QED
    BY <1>1, <2>2, <2>3
<1>7. ASSUME NEW i \in 1 .. m PROVE a[i] = b[i]
  <2>1. i \in 1 .. n + k /\ i \in 1 .. n + (m - n)
    BY <1>1
  <2>2. CASE i <= n
    BY <1>4, <1>5, <2>1, <2>2
  <2>3. CASE ~(i <= n)
    <3>1. i - n \in 1 .. k /\ i - n \in 1 .. m - n
      BY <1>1, <2>3
    <3> QED
      BY <1>3, <1>4, <1>5, <2>1, <2>3, <3>1
  <2> QED
    BY <2>2, <2>3
<1>8. Len(b) = m
  BY <1>1, <1>5
<1>9. SubSeq(a, 1, m) = b
  BY <1>5, <1>6, <1>7, <1>8, SeqEqual
<1> QED
  BY <1>9 DEF a, b, n

\* How much room the digits with their zeros take.
LEMMA RoomLeft ==
  ASSUME NEW f, NEW digits, InBuf(digits), NEW negative, NEW hash,
         Printable(f, Len(digits), Len(Prefix(f, negative, hash)), negative, hash)
  PROVE  LET n == Len(digits)
             c == Len(Prefix(f, negative, hash))
             body == digits \o Zeros(ZerosOf(f, n, c))
         IN /\ ZerosOf(f, n, c) \in Int /\ c \in Nat /\ n \in Nat
            /\ body \in Seq(Visible) /\ Len(body) + c <= BufSize
            /\ Len(body) = IF ZerosOf(f, n, c) > 0 THEN n + ZerosOf(f, n, c) ELSE n
<1> DEFINE n == Len(digits)
           c == Len(Prefix(f, negative, hash))
           z == ZerosOf(f, n, c)
           body == digits \o Zeros(z)
<1>1. /\ f.width \in Nat /\ f.prec \in Nat /\ negative \in BOOLEAN /\ hash \in BOOLEAN
      /\ n + c <= BufSize /\ f.prec + c <= BufSize
      /\ Filled(f) => f.width + c <= BufSize
  BY DEF Printable
<1>2. n \in Nat /\ c \in Nat /\ digits \in Seq(Visible) /\ BufSize \in Nat
  <2>1. Prefix(f, negative, hash) \in Seq(Visible)
    BY <1>1, PrefixType
  <2> QED
    BY <2>1, Sizes DEF InBuf
<1> HIDE DEF n, c
<1>3. /\ z \in Int
      /\ n + z + c <= BufSize
  <2>1. \/ ZerosOf(f, n, c) = 0
        \/ ZerosOf(f, n, c) = f.prec - n
        \/ Filled(f) /\ ZerosOf(f, n, c) = f.width - c - n
    BY DEF ZerosOf
  <2>2. CASE z = 0
    BY <1>1, <1>2, <2>2
  <2>3. CASE z = f.prec - n
    BY <1>1, <1>2, <2>3
  <2>4. CASE Filled(f) /\ z = f.width - c - n
    <3>1. f.width + c <= BufSize /\ f.width \in Nat
      BY <1>1, <2>4
    <3> HIDE DEF z
    <3> QED
      BY <1>2, <2>4, <3>1
  <2> QED
    BY <2>1, <2>2, <2>3, <2>4
<1> HIDE DEF z
<1>4. Zeros(z) \in Seq(Visible) /\ Len(Zeros(z)) = IF z > 0 THEN z ELSE 0
  BY <1>3, FillType
<1>5. body \in Seq(Visible) /\ Len(body) = n + Len(Zeros(z))
  BY <1>2, <1>4, ConcatProperties DEF n
<1> HIDE DEF body
<1>6. Len(body) = IF z > 0 THEN n + z ELSE n
  BY <1>2, <1>3, <1>4, <1>5
<1>7. Len(body) + c <= BufSize
  BY <1>1, <1>2, <1>3, <1>6
<1> QED
  BY <1>2, <1>3, <1>5, <1>6, <1>7 DEF n, c, z, body

\* What is left of the zeros when they have made way for the prefix.
LEMMA KeptIs ==
  ASSUME NEW f, NEW digits, InBuf(digits), NEW negative, NEW hash, hash,
         Printable(f, Len(digits), Len(Prefix(f, negative, hash)), negative, hash)
  PROVE  LET n == Len(digits)
             c == Len(Prefix(f, negative, hash))
             buf == digits \o Zeros(ZerosOf(f, n, 0))
             cut == IF ~f.hasPrec /\ buf # <<>> /\ (Len(buf) = f.prec \/ Len(buf) = f.width)
                    THEN Max({Len(buf) - (IF Base(f) = 16 THEN 2 ELSE 1), 0})
                    ELSE Len(buf)
         IN SubSeq(buf, 1, cut) = digits \o Zeros(ZerosOf(f, n, c))
<1> DEFINE n == Len(digits)
           c == Len(Prefix(f, negative, hash))
           z == ZerosOf(f, n, 0)
           k == IF z > 0 THEN z ELSE 0
           buf == digits \o Zeros(z)
           cut == IF ~f.hasPrec /\ buf # <<>> /\ (Len(buf) = f.prec \/ Len(buf) = f.width)
                  THEN Max({Len(buf) - (IF Base(f) = 16 THEN 2 ELSE 1), 0})
                  ELSE Len(buf)
           zc == ZerosOf(f, n, c)
           kc == IF zc > 0 THEN zc ELSE 0
<1>1. /\ f.width \in Nat /\ f.prec \in Nat /\ f.hasPrec \in BOOLEAN
      /\ ~negative /\ Flags(f) \cap {"plus", "space"} = {}
      /\ ~f.hasPrec => f.prec = 0
      /\ f.hasPrec => "zero" \notin Flags(f) /\ "left" \notin Flags(f)
      /\ n >= 1
      /\ ~f.hasPrec => IF Filled(f) THEN n <= f.width - c \/ n > f.width ELSE n # f.width
  BY DEF Printable
<1>2. n \in Nat /\ digits \in Seq(Visible)
  BY DEF InBuf
<1>3. c = IF Base(f) = 16 THEN 2 ELSE 1
  <2>1. negative \in BOOLEAN /\ hash \in BOOLEAN
    BY DEF Printable
  <2> QED
    BY <1>1, <2>1, PrefixType
<1> HIDE DEF n, c
<1>4. /\ z = IF "left" \in Flags(f) THEN 0 ELSE IF Filled(f) THEN f.width - n ELSE f.prec - n
      /\ zc = IF "left" \in Flags(f) THEN 0 ELSE IF Filled(f) THEN f.width - c - n
                                                 ELSE f.prec - n
  <2>1. f.width - 0 - n = f.width - n
    BY <1>1, <1>2
  <2> QED
    BY <2>1 DEF ZerosOf
<1>5. z \in Int /\ zc \in Int /\ c \in Nat
  <2> HIDE DEF z, zc
  <2> QED
    BY <1>1, <1>2, <1>3, <1>4
<1>6. Zeros(z) = Zeros(k) /\ Zeros(zc) = Zeros(kc) /\ k \in Nat /\ kc \in Nat
  <2>1. ASSUME NEW i \in Int PROVE Zeros(i) = Zeros(IF i > 0 THEN i ELSE 0)
    <3>1. CASE i > 0
      BY <3>1
    <3>2. CASE ~(i > 0)
      <4>1. 0 \in Int /\ 0 <= 0 /\ i <= 0
        BY <3>2
      <4>2. Zeros(i) = <<>> /\ Zeros(0) = <<>>
        BY <4>1, FillType
      <4> QED
        BY <3>2, <4>2
    <3> QED
      BY <3>1, <3>2
  <2> HIDE DEF z, zc
  <2> QED
    BY <1>5, <2>1
<1>7. buf \in Seq(Visible) /\ Len(buf) = n + k /\ buf # <<>>
  <2> HIDE DEF k, z
  <2>1. Zeros(z) \in Seq(Visible) /\ Len(Zeros(z)) = IF z > 0 THEN z ELSE 0
    BY <1>5, FillType
  <2>2. buf \in Seq(Visible) /\ Len(buf) = n + Len(Zeros(z))
    BY <1>2, <2>1, ConcatProperties DEF n
  <2> HIDE DEF buf
  <2>3. Len(buf) = n + k
    BY <2>1, <2>2 DEF k
  <2>4. Len(buf) # 0
    BY <1>1, <1>2, <1>6, <2>3
  <2> QED
    BY <2>2, <2>3, <2>4
<1>8. cut = IF ~f.hasPrec /\ n + k = f.width THEN IF f.width >= c THEN f.width - c ELSE 0
            ELSE n + k
  <2>1. ~f.hasPrec => n + k # f.prec
    BY <1>1, <1>2, <1>6
  <2>2. f.width - c \in Int
    BY <1>1, <1>5
  <2>3. Max({f.width - c, 0}) = IF f.width - c >= 0 THEN f.width - c ELSE 0
    BY <2>2, MaxOfTwo
  <2>4. cut = IF ~f.hasPrec /\ n + k = f.width THEN Max({f.width - c, 0}) ELSE n + k
    <3> HIDE DEF buf, k
    <3> QED
      BY <1>3, <1>7, <2>1
  <2> HIDE DEF cut
  <2> QED
    BY <1>1, <1>5, <2>3, <2>4
<1>9. cut = n + kc /\ cut \in n .. n + k
  <2> HIDE DEF buf, cut, z, zc
  <2>1. CASE Filled(f)
    <3>1. ~f.hasPrec /\ z = f.width - n /\ zc = f.width - c - n
          /\ (n <= f.width - c \/ n > f.width)
      BY <1>1, <1>4, <2>1 DEF Filled
    <3>2. CASE n <= f.width - c
      <4>1. k = f.width - n /\ f.width >= c
        BY <1>1, <1>2, <1>3, <1>5, <3>1, <3>2
      <4>2. kc = f.width - c - n
        BY <1>1, <1>2, <1>5, <3>1, <3>2
      <4> HIDE DEF k, kc
      <4>3. n + k = f.width /\ n + kc = f.width - c /\ f.width - c \in n .. n + k
        BY <1>1, <1>2, <1>3, <1>5, <3>2, <4>1, <4>2
      <4> QED
        BY <1>8, <3>1, <4>1, <4>3
    <3>3. CASE n > f.width
      BY <1>1, <1>2, <1>3, <1>5, <1>8, <3>1, <3>3
    <3> QED
      BY <3>1, <3>2, <3>3
  <2>2. CASE ~Filled(f)
    <3>1. z = zc /\ k = kc
      BY <1>4, <2>2
    <3>2. ~f.hasPrec => z = 0 \/ z = 0 - n
      BY <1>1, <1>4, <2>2
    <3>3. ~f.hasPrec => k = 0 /\ n # f.width
      BY <1>1, <1>2, <2>2, <3>2
    <3> HIDE DEF k, kc
    <3>4. cut = n + k
      BY <1>2, <1>8, <3>3
    <3> QED
      BY <1>2, <1>6, <3>1, <3>4
  <2> QED
    BY <2>1, <2>2
<1>10. SubSeq(buf, 1, cut) = digits \o Zeros(zc)
  <2> HIDE DEF k, kc, z, zc, cut
  <2>1. cut \in Len(digits) .. Len(digits) + k
    BY <1>9 DEF n
  <2>2. SubSeq(digits \o Zeros(k), 1, cut) = digits \o Zeros(cut - Len(digits))
    BY <1>2, <1>6, <2>1, CutZeros
  <2>3. cut - n = kc
    BY <1>2, <1>6, <1>9
  <2> QED
    BY <1>6, <2>2, <2>3 DEF n
<1> QED
  BY <1>10 DEF n, c, cut, buf, z, zc

\* buf at the end of _ntoa_format: the number's digits, last one first, its zeros and
\* its sign or prefix.
LEMMA NumberIs ==
  ASSUME NEW f, NEW digits, InBuf(digits), NEW negative, NEW hash,
         Printable(f, Len(digits), Len(Prefix(f, negative, hash)), negative, hash)
  PROVE  LET n == Len(digits)
             c == Len(Prefix(f, negative, hash))
         IN NtoaFormat(f, digits, negative, hash) =
              (digits \o Zeros(ZerosOf(f, n, c))) \o Reverse(Prefix(f, negative, hash))
<1> DEFINE n == Len(digits)
           pre == Prefix(f, negative, hash)
           c == Len(pre)
           body == digits \o Zeros(ZerosOf(f, n, c))
           flags == Flags(f)
           width == PadWidth(f, negative)
           zeros == IF "left" \in flags THEN digits
                    ELSE ZeroPad(ZeroPad(digits, f.prec), IF "zero" \in flags THEN width ELSE 0)
           prefixed == IF hash THEN Hash(f, zeros, width) ELSE zeros
           number == NtoaFormat(f, digits, negative, hash)
<1>1. number = IF negative THEN Push(prefixed, "-")
               ELSE IF "plus" \in flags THEN Push(prefixed, "+")
               ELSE IF "space" \in flags THEN Push(prefixed, " ")
               ELSE prefixed
  BY DEF NtoaFormat
<1>2. negative \in BOOLEAN /\ hash \in BOOLEAN
      /\ (hash => ~negative /\ flags \cap {"plus", "space"} = {} /\ Base(f) \in {8, 16})
  BY DEF Printable
<1>3. /\ ~hash => zeros = body
      /\ hash => width = f.width /\ zeros = digits \o Zeros(ZerosOf(f, n, 0))
  BY ZerosAre
<1>4. body \in Seq(Visible) /\ Len(body) + c <= BufSize /\ c \in Nat
  BY RoomLeft
<1> HIDE DEF zeros, body, width, number, flags, c, n
<1>5. ASSUME NEW a \in Visible, c = 1, pre = <<a>>
      PROVE  Push(body, a) = body \o Reverse(pre)
  <2>1. InBuf(body) /\ Len(body) < BufSize
    BY <1>4, <1>5, Sizes DEF InBuf
  <2>2. Reverse(<<a>>) = <<a>>
    BY ReverseFew
  <2> QED
    BY <1>5, <2>1, <2>2, PushFits
<1>6. ASSUME NEW a \in Visible, NEW b \in Visible, c = 2, pre = <<b, a>>
      PROVE  Push(Push(body, a), b) = body \o Reverse(pre)
  <2>1. InBuf(body) /\ Len(body) < BufSize /\ Len(body) \in Nat
    BY <1>4, <1>6, Sizes DEF InBuf
  <2>2. Push(body, a) = body \o <<a>>
    BY <2>1, PushFits
  <2> DEFINE q == body \o <<a>>
  <2>3. InBuf(q) /\ Len(q) < BufSize
    <3>1. <<a>> \in Seq(Visible) /\ Len(<<a>>) = 1
      OBVIOUS
    <3>2. q \in Seq(Visible) /\ Len(q) = Len(body) + Len(<<a>>)
      BY <1>4, <3>1, ConcatProperties
    <3> HIDE DEF q
    <3>3. Len(q) = Len(body) + 1
      BY <3>1, <3>2
    <3> QED
      BY <1>4, <1>6, <2>1, <3>2, <3>3, Sizes DEF InBuf
  <2>4. Push(q, b) = q \o <<b>>
    <3> HIDE DEF q
    <3> QED
      BY <2>3, PushFits
  <2>5. q \o <<b>> = body \o (<<a>> \o <<b>>)
    <3>1. <<a>> \in Seq(Visible) /\ <<b>> \in Seq(Visible)
      OBVIOUS
    <3> QED
      BY <1>4, <3>1, ConcatAssociative
  <2>6. Reverse(pre) = <<a>> \o <<b>>
    BY <1>6, ReverseFew
  <2> QED
    BY <2>2, <2>4, <2>5, <2>6
<1>7. ASSUME ~hash PROVE number = body \o Reverse(pre)
  <2>1. prefixed = body
    BY <1>3, <1>7
  <2> HIDE DEF prefixed
  <2>2. CASE negative
    <3>1. pre = <<"-">> /\ c = 1
      BY <2>2 DEF Prefix, c
    <3> HIDE DEF pre
    <3> QED
      BY <1>1, <1>5, <2>1, <2>2, <3>1, NumberChars
  <2>3. CASE ~negative /\ "plus" \in flags
    <3>1. pre = <<"+">> /\ c = 1
      BY <2>3 DEF Prefix, c, flags
    <3> HIDE DEF pre
    <3> QED
      BY <1>1, <1>5, <2>1, <2>3, <3>1, NumberChars
  <2>4. CASE ~negative /\ "plus" \notin flags /\ "space" \in flags
    <3>1. pre = <<" ">> /\ c = 1
      BY <2>4 DEF Prefix, c, flags
    <3> HIDE DEF pre
    <3> QED
      BY <1>1, <1>5, <2>1, <2>4, <3>1, NumberChars
  <2>5. CASE ~negative /\ "plus" \notin flags /\ "space" \notin flags
    <3>1. pre = <<>>
      BY <1>7, <2>5 DEF Prefix, flags
    <3>2. Reverse(<<>>) = <<>>
      BY NumberChars, ReverseFew
    <3>3. body \o <<>> = body
      BY <1>4, ConcatEmptySeq
    <3> HIDE DEF pre
    <3> QED
      BY <1>1, <2>1, <2>5, <3>1, <3>2, <3>3
  <2> QED
    BY <2>2, <2>3, <2>4, <2>5
<1>8. ASSUME hash PROVE number = body \o Reverse(pre)
  <2>1. number = Hash(f, zeros, f.width)
    <3>1. ~negative /\ "plus" \notin flags /\ "space" \notin flags
      BY <1>2, <1>8
    <3> QED
      BY <1>1, <1>3, <1>8, <3>1
  <2> DEFINE buf == digits \o Zeros(ZerosOf(f, n, 0))
             cut == IF ~f.hasPrec /\ buf # <<>> /\ (Len(buf) = f.prec \/ Len(buf) = f.width)
                    THEN Max({Len(buf) - (IF Base(f) = 16 THEN 2 ELSE 1), 0})
                    ELSE Len(buf)
             kept == SubSeq(buf, 1, cut)
  <2>2. kept = body
    BY <1>8, KeptIs DEF n, c, body, pre
  <2>3. Hash(f, buf, f.width) =
          Push(IF Base(f) = 16 THEN Push(kept, IF Upper(f) THEN "X" ELSE "x")
               ELSE IF Base(f) = 2 THEN Push(kept, "b")
               ELSE kept, "0")
    BY DEF Hash
  <2>4. zeros = buf
    BY <1>3, <1>8
  <2> HIDE DEF kept, buf
  <2>5. ~negative /\ "plus" \notin Flags(f) /\ "space" \notin Flags(f)
        /\ Flags(f) \cap {"plus", "space"} = {}
    BY <1>2, <1>8 DEF flags
  <2>6. CASE Base(f) = 16
    <3> DEFINE x == IF Upper(f) THEN "X" ELSE "x"
    <3>1. x \in Visible /\ "0" \in Visible
      BY NumberChars
    <3>2. pre = <<"0", x>>
      BY <1>8, <2>5, <2>6 DEF Prefix
    <3> HIDE DEF x, pre
    <3>3. c = 2
      BY <3>2 DEF c
    <3>4. number = Push(Push(body, x), "0")
      BY <2>1, <2>2, <2>3, <2>4, <2>6 DEF x
    <3> QED
      BY <1>6, <3>1, <3>2, <3>3, <3>4
  <2>7. CASE Base(f) = 8
    <3>1. pre = <<"0">>
      BY <1>8, <2>5, <2>7 DEF Prefix
    <3> HIDE DEF pre
    <3>2. c = 1 /\ "0" \in Visible
      BY <3>1, NumberChars DEF c
    <3>3. number = Push(body, "0")
      BY <2>1, <2>2, <2>3, <2>4, <2>7
    <3> QED
      BY <1>5, <3>1, <3>2, <3>3
  <2> QED
    BY <1>2, <1>8, <2>6, <2>7
<1> QED
  BY <1>2, <1>7, <1>8 DEF number, body, c, n, pre

-----------------------------------------------------------------------------
(* The evaluated directive and C's                                         *)

\* The conversions of integers that C has.
CIntegers == {"d", "i", "u", "x", "X", "o"}

\* What Plain says of such a one.
LEMMA PlainInteger ==
  ASSUME NEW dir \in Directives, dir.conv \in CIntegers, Plain(dir)
  PROVE  /\ dir.prec \in Nat /\ dir.hasPrec \in BOOLEAN /\ (~dir.hasPrec => dir.prec = 0)
         /\ Width(dir) \in Nat /\ dir.arg \in Word /\ dir.length \notin LongLong
         /\ LeftJustified(dir) <=> "left" \in ParsedFlags(dir)
         /\ dir.hasPrec => ~LeftJustified(dir)
         /\ dir.hasPrec /\ dir.conv = "o" => "hash" \notin dir.flags
         /\ Len(CDigits(dir)) \in Nat /\ Len(CPrefix(dir)) \in Nat =>
              /\ dir.prec + Len(CPrefix(dir)) <= BufSize
              /\ ZeroFilled(dir) => Width(dir) + Len(CPrefix(dir)) <= BufSize
              /\ Len(CDigits(dir)) + Len(CPrefix(dir)) <= BufSize
         /\ ~LosesDigits(dir)
<1>1. /\ dir.star \in BOOLEAN /\ dir.hasPrec \in BOOLEAN /\ (dir.hasPrec \/ dir.prec = 0)
      /\ dir.arg \in Word
      /\ IF dir.star THEN dir.width \in SignedWord /\ dir.prec \in SignedWord
         ELSE dir.width \in Word /\ dir.prec \in Word
  BY DirectivesAssumption DEF CIntegers, IntegerConversions, Integers10
<1>2. /\ ~(dir.hasPrec /\ dir.prec < 0)
      /\ ~(dir.hasPrec /\ LeftJustified(dir))
      /\ ~(dir.hasPrec /\ dir.conv = "o" /\ "hash" \in dir.flags)
      /\ dir.length \notin LongLong
      /\ Max({dir.prec, IF ZeroFilled(dir) THEN Width(dir) ELSE 0, Len(CDigits(dir))})
            + Len(CPrefix(dir)) <= BufSize
      /\ ~LosesDigits(dir)
  BY DEF Plain, CIntegers
<1>3. dir.width \in Int /\ dir.prec \in Int /\ (~dir.star => dir.width >= 0)
  <2> DEFINE h == 2^(Bits - 1)
             W == 2^Bits
  <2>1. h \in Nat /\ W \in Nat
    BY Sizes
  <2>2. SignedWord = -h .. h - 1 /\ Word = 0 .. W - 1
    BY DEF SignedWord, Word
  <2> HIDE DEF h, W
  <2> QED
    BY <1>1, <2>1, <2>2
<1>4. dir.prec \in Nat /\ Width(dir) \in Nat
  BY <1>1, <1>2, <1>3 DEF Width, Abs
<1>5. LeftJustified(dir) <=> "left" \in ParsedFlags(dir)
  BY <1>1, <1>3 DEF LeftJustified, ParsedFlags
<1>6. ASSUME Len(CDigits(dir)) \in Nat, Len(CPrefix(dir)) \in Nat
      PROVE  /\ dir.prec + Len(CPrefix(dir)) <= BufSize
             /\ ZeroFilled(dir) => Width(dir) + Len(CPrefix(dir)) <= BufSize
             /\ Len(CDigits(dir)) + Len(CPrefix(dir)) <= BufSize
  <2> DEFINE a == dir.prec
             b == IF ZeroFilled(dir) THEN Width(dir) ELSE 0
             c == Len(CDigits(dir))
             m == Max({a, b, c})
  <2>1. a \in Nat /\ b \in Nat /\ c \in Nat
    BY <1>4, <1>6
  <2>2. m + Len(CPrefix(dir)) <= BufSize
    BY <1>2
  <2>3. ZeroFilled(dir) => b = Width(dir)
    OBVIOUS
  <2> HIDE DEF a, b, c
  <2>4. \E x \in {a, b, c} : \A y \in {a, b, c} : x >= y
    BY <2>1
  <2>5. m \in {a, b, c} /\ \A y \in {a, b, c} : m >= y
    BY <2>1, <2>4 DEF Max
  <2>6. m \in Nat /\ m >= a /\ m >= b /\ m >= c
    BY <2>1, <2>5
  <2> HIDE DEF m
  <2>7. BufSize \in Nat
    BY Sizes
  <2>8. /\ a + Len(CPrefix(dir)) <= BufSize /\ b + Len(CPrefix(dir)) <= BufSize
        /\ c + Len(CPrefix(dir)) <= BufSize
    BY <1>6, <2>1, <2>2, <2>6, <2>7
  <2> QED
    BY <2>3, <2>8 DEF a, c
<1> QED
  BY <1>1, <1>2, <1>4, <1>5, <1>6

\* The evaluated directive has what C says of the one in the format.
LEMMA FieldsAgree ==
  ASSUME NEW dir \in Directives, dir.conv \in CIntegers, Plain(dir), NEW f, Parsed(f, dir)
  PROVE  /\ Value(f) = Value(dir) /\ Base(f) = Base(dir) /\ Upper(f) = Upper(dir)
         /\ IsSigned(f) = IsSigned(dir) /\ Sized(f) = f /\ f.arg \in Word
         /\ TakesArgument(f) /\ f.conv = dir.conv
         /\ f.width = Width(dir) /\ f.hasPrec = dir.hasPrec /\ f.prec = dir.prec
         /\ "left" \in Flags(f) <=> LeftJustified(dir)
         /\ "zero" \in Flags(f) <=> "zero" \in dir.flags /\ ~dir.hasPrec
         /\ "plus" \in Flags(f) <=> "plus" \in dir.flags /\ IsSigned(dir)
         /\ "space" \in Flags(f) <=> "space" \in dir.flags /\ IsSigned(dir)
         /\ "hash" \in Flags(f) <=> "hash" \in dir.flags /\ dir.conv \in {"x", "X", "o"}
<1>1. /\ f.flags = ParsedFlags(dir) /\ f.width = Abs(dir.width) /\ f.hasPrec = dir.hasPrec
      /\ f.prec = ParsedPrec(dir) /\ f.length = ParsedLength(dir) /\ f.conv = dir.conv
      /\ TakesArgument(f) <=> TakesArgument(dir)
      /\ TakesArgument(f) => f.arg = dir.arg
  BY DEF Parsed, Evaluation
<1>2. /\ dir.prec \in Nat /\ dir.hasPrec \in BOOLEAN /\ dir.arg \in Word
      /\ dir.length \notin LongLong
      /\ LeftJustified(dir) <=> "left" \in ParsedFlags(dir)
  BY PlainInteger
<1>3. TakesArgument(f) /\ f.arg = dir.arg
  BY <1>1, <1>2 DEF TakesArgument, CIntegers, IntegerConversions, Integers10
<1>4. Base(f) = Base(dir) /\ Upper(f) = Upper(dir) /\ IsSigned(f) = IsSigned(dir)
  BY <1>1 DEF Base, Upper, IsSigned
<1>5. (f.length = "hh" <=> dir.length = "hh") /\ (f.length = "h" <=> dir.length = "h")
  BY <1>1 DEF ParsedLength, LongLong
<1>6. Value(f) = Value(dir)
  BY <1>1, <1>3, <1>4, <1>5 DEF Value
<1>7. f.conv \in IntegerConversions /\ f.conv # "p"
  BY <1>1 DEF CIntegers, IntegerConversions, Integers10
<1>8. Sized(f) = f
  BY <1>7 DEF Sized
<1>9. f.width = Width(dir) /\ f.prec = dir.prec
  BY <1>1, <1>2 DEF Width, ParsedPrec
<1>10. Ignored(f) = (IF f.conv \in Integers10 THEN {"hash"} ELSE {})
                    \cup (IF IsSigned(f) THEN {} ELSE {"plus", "space"})
                    \cup (IF f.hasPrec THEN {"zero"} ELSE {})
  BY <1>7 DEF Ignored
<1>11. /\ "left" \notin Ignored(f) /\ ("zero" \in Ignored(f) <=> f.hasPrec)
       /\ ("plus" \in Ignored(f) <=> ~IsSigned(f)) /\ ("space" \in Ignored(f) <=> ~IsSigned(f))
       /\ ("hash" \in Ignored(f) <=> f.conv \in Integers10)
  BY <1>1, <1>2, <1>10
<1>12. \A x \in {"zero", "plus", "space", "hash"} : x \in f.flags <=> x \in dir.flags
  BY <1>1 DEF ParsedFlags
<1>13. f.conv \in Integers10 <=> dir.conv \notin {"x", "X", "o"}
  BY <1>1 DEF CIntegers, Integers10
<1> QED
  BY <1>1, <1>2, <1>3, <1>4, <1>6, <1>8, <1>9, <1>11, <1>12, <1>13 DEF Flags

\* What is in front of the number is what C puts there.
LEMMA PrefixIsC ==
  ASSUME NEW dir \in Directives, dir.conv \in CIntegers, Plain(dir), NEW f, Parsed(f, dir)
  PROVE  Prefix(f, Value(f) < 0, "hash" \in Flags(f) /\ Value(f) # 0) = CPrefix(dir)
<1> DEFINE v == Value(f)
           hash == "hash" \in Flags(f) /\ v # 0
<1>1. /\ v = Value(dir) /\ f.conv = dir.conv /\ f.arg \in Word
      /\ IsSigned(f) = IsSigned(dir)
      /\ "plus" \in Flags(f) <=> "plus" \in dir.flags /\ IsSigned(dir)
      /\ "space" \in Flags(f) <=> "space" \in dir.flags /\ IsSigned(dir)
      /\ "hash" \in Flags(f) <=> "hash" \in dir.flags /\ dir.conv \in {"x", "X", "o"}
  BY FieldsAgree
<1>2. v \in Int /\ (~IsSigned(f) => v \in Nat)
  BY <1>1, ValueType
<1>3. /\ IsSigned(dir) <=> dir.conv \in {"d", "i"}
      /\ Base(f) = IF dir.conv \in {"x", "X"} THEN 16 ELSE IF dir.conv = "o" THEN 8 ELSE 10
      /\ Upper(f) <=> dir.conv = "X"
  BY <1>1 DEF IsSigned, Base, Upper, CIntegers
<1> HIDE DEF v
<1>4. CASE v < 0
  <2>1. Prefix(f, TRUE, hash) = <<"-">>
    BY DEF Prefix
  <2>2. CPrefix(dir) = <<"-">>
    <3>1. Value(dir) < 0 /\ ~(Value(dir) >= 0) /\ ~(Value(dir) > 0)
      BY <1>1, <1>2, <1>4
    <3> QED
      BY <3>1 DEF CPrefix
  <2> QED
    BY <1>4, <2>1, <2>2 DEF v
<1>5. CASE v >= 0 /\ IsSigned(dir)
  <2>1. ~hash /\ dir.conv \notin {"x", "X", "o"}
    BY <1>1, <1>3, <1>5
  <2>2. Prefix(f, FALSE, FALSE) = IF "plus" \in Flags(f) THEN <<"+">>
                                  ELSE IF "space" \in Flags(f) THEN <<" ">> ELSE <<>>
    BY DEF Prefix
  <2>3. CPrefix(dir) = IF "plus" \in dir.flags THEN <<"+">>
                       ELSE IF "space" \in dir.flags THEN <<" ">> ELSE <<>>
    <3>1. ~(Value(dir) < 0) /\ Value(dir) >= 0
      BY <1>1, <1>2, <1>5
    <3> QED
      BY <1>5, <2>1, <3>1 DEF CPrefix
  <2>4. (v < 0) = FALSE /\ hash = FALSE
    BY <1>2, <1>5, <2>1
  <2> QED
    BY <1>1, <1>5, <2>2, <2>3, <2>4 DEF v
<1>6. CASE v >= 0 /\ ~IsSigned(dir)
  <2>1. "plus" \notin Flags(f) /\ "space" \notin Flags(f)
        /\ Flags(f) \cap {"plus", "space"} = {}
    BY <1>1, <1>6
  <2>2. hash <=> "hash" \in dir.flags /\ dir.conv \in {"x", "X", "o"} /\ Value(dir) > 0
    BY <1>1, <1>2, <1>6
  <2>3. (v < 0) = FALSE /\ ~(Value(dir) < 0)
    BY <1>1, <1>2, <1>6
  <2> HIDE DEF hash
  <2>4. CASE hash
    <3> DEFINE t == IF Base(f) = 16 THEN <<"0", IF Upper(f) THEN "X" ELSE "x">> ELSE <<"0">>
    <3>1. Prefix(f, FALSE, hash) = t
      BY <2>1, <2>4 DEF Prefix
    <3>2. CPrefix(dir) = IF dir.conv = "o" THEN <<"0">> ELSE <<"0", dir.conv>>
      BY <1>6, <2>2, <2>3, <2>4 DEF CPrefix
    <3>3. dir.conv \in {"x", "X", "o"}
      BY <2>2, <2>4
    <3>4. CPrefix(dir) = t
      <4>1. CASE dir.conv = "o"
        BY <1>3, <3>2, <4>1
      <4>2. CASE dir.conv = "x"
        BY <1>3, <3>2, <4>2
      <4>3. CASE dir.conv = "X"
        BY <1>3, <3>2, <4>3
      <4> QED
        BY <3>3, <4>1, <4>2, <4>3
    <3> HIDE DEF t
    <3>5. Prefix(f, FALSE, hash) = CPrefix(dir)
      BY <3>1, <3>4
    <3> QED
      BY <2>3, <3>5 DEF v, hash
  <2>5. CASE ~hash
    <3>1. Prefix(f, FALSE, hash) = <<>>
      BY <2>1, <2>5 DEF Prefix
    <3>2. CPrefix(dir) = <<>>
      BY <1>6, <2>2, <2>3, <2>5 DEF CPrefix
    <3> QED
      BY <2>3, <3>1, <3>2 DEF v, hash
  <2> QED
    BY <2>4, <2>5
<1> QED
  BY <1>2, <1>4, <1>5, <1>6

\* Reversing twice.
LEMMA ReverseTwice ==
  ASSUME NEW S, NEW a \in Seq(S)
  PROVE  Reverse(Reverse(a)) = a
<1> DEFINE b == Reverse(a)
<1>1. /\ b \in Seq(S) /\ Len(b) = Len(a) /\ Len(a) \in Nat
      /\ \A i \in 1 .. Len(a) : b[i] = a[(Len(a) - i) + 1]
  BY ReverseType
<1> HIDE DEF b
<1>2. /\ Reverse(b) \in Seq(S) /\ Len(Reverse(b)) = Len(a)
      /\ \A i \in 1 .. Len(b) : Reverse(b)[i] = b[(Len(b) - i) + 1]
  BY <1>1, ReverseType
<1>3. ASSUME NEW i \in 1 .. Len(a) PROVE Reverse(b)[i] = a[i]
  <2>1. (Len(a) - i) + 1 \in 1 .. Len(a) /\ (Len(a) - ((Len(a) - i) + 1)) + 1 = i
    BY <1>1
  <2>2. Reverse(b)[i] = b[(Len(a) - i) + 1]
    BY <1>1, <1>2
  <2>3. b[(Len(a) - i) + 1] = a[(Len(a) - ((Len(a) - i) + 1)) + 1]
    BY <1>1, <2>1
  <2> QED
    BY <2>1, <2>2, <2>3
<1> QED
  BY <1>2, <1>3, SeqEqual DEF b

\* The digits of an integer conversion, last one first.
DigitsOf(f) == IF f.hasPrec /\ Value(f) = 0 THEN <<>>
               ELSE Digits(Abs(Value(f)), Base(f), Upper(f))

\* They fit into buf, and a number that is not 0 has some.
LEMMA DigitsOfType ==
  ASSUME NEW f, f.arg \in Word
  PROVE  /\ InBuf(DigitsOf(f)) /\ Len(DigitsOf(f)) \in Nat
         /\ Value(f) # 0 => Len(DigitsOf(f)) >= 1
<1> DEFINE q == Digits(Abs(Value(f)), Base(f), Upper(f))
<1>1. Abs(Value(f)) \in Nat /\ Base(f) \in Bases
  BY ValueType, AbsType
<1>2. q \in Seq(Visible) /\ Len(q) = Rounds(Abs(Value(f)), Base(f))
      /\ Rounds(Abs(Value(f)), Base(f)) \in 1 .. BufSize
  BY <1>1, DigitsType, RoundsMeaning
<1>3. BufSize \in Nat
  BY Sizes
<1> HIDE DEF q
<1>4. InBuf(q) /\ Len(q) \in Nat /\ Len(q) >= 1
  BY <1>2, <1>3 DEF InBuf
<1>5. InBuf(<<>>) /\ Len(<<>>) = 0
  BY <1>3 DEF InBuf
<1> QED
  BY <1>4, <1>5 DEF DigitsOf, q

\* They are those of C in the other direction.
LEMMA DigitsAreC ==
  ASSUME NEW dir \in Directives, dir.conv \in CIntegers, Plain(dir), NEW f, Parsed(f, dir)
  PROVE  /\ CDigits(dir) = Reverse(DigitsOf(f)) /\ CDigits(dir) \in Seq(Visible)
         /\ Len(CDigits(dir)) = Len(DigitsOf(f))
<1>1. /\ Value(f) = Value(dir) /\ Base(f) = Base(dir) /\ Upper(f) = Upper(dir)
      /\ f.hasPrec = dir.hasPrec /\ f.arg \in Word
  BY FieldsAgree
<1>2. DigitsOf(f) \in Seq(Visible)
  BY <1>1, DigitsOfType DEF InBuf
<1>3. Reverse(<<>>) = <<>>
  BY NumberChars, ReverseFew
<1>4. CDigits(dir) = Reverse(DigitsOf(f))
  BY <1>1, <1>3 DEF CDigits, DigitsOf
<1> QED
  BY <1>2, <1>4, ReverseType

\* What C asks for fits.
LEMMA PlainIsPrintable ==
  ASSUME NEW dir \in Directives, dir.conv \in CIntegers, Plain(dir), NEW f, Parsed(f, dir)
  PROVE  LET negative == Value(f) < 0
             hash == "hash" \in Flags(f) /\ Value(f) # 0
         IN Printable(f, Len(DigitsOf(f)), Len(Prefix(f, negative, hash)), negative, hash)
<1> DEFINE negative == Value(f) < 0
           hash == "hash" \in Flags(f) /\ Value(f) # 0
           n == Len(DigitsOf(f))
           c == Len(CPrefix(dir))
<1>1. /\ Value(f) = Value(dir) /\ Base(f) = Base(dir) /\ f.conv = dir.conv
      /\ IsSigned(f) = IsSigned(dir) /\ f.arg \in Word
      /\ f.width = Width(dir) /\ f.hasPrec = dir.hasPrec /\ f.prec = dir.prec
      /\ "left" \in Flags(f) <=> LeftJustified(dir)
      /\ "zero" \in Flags(f) <=> "zero" \in dir.flags /\ ~dir.hasPrec
      /\ "plus" \in Flags(f) <=> "plus" \in dir.flags /\ IsSigned(dir)
      /\ "space" \in Flags(f) <=> "space" \in dir.flags /\ IsSigned(dir)
      /\ "hash" \in Flags(f) <=> "hash" \in dir.flags /\ dir.conv \in {"x", "X", "o"}
  BY FieldsAgree
<1>2. Prefix(f, negative, hash) = CPrefix(dir)
  BY PrefixIsC
<1>3. negative \in BOOLEAN /\ hash \in BOOLEAN
  OBVIOUS
<1>4. c \in Nat
  <2>1. Prefix(f, negative, hash) \in Seq(Visible)
    <3> HIDE DEF negative, hash
    <3> QED
      BY <1>3, PrefixType
  <2> QED
    BY <1>2, <2>1
<1>5. n \in Nat /\ Len(CDigits(dir)) = n /\ (Value(f) # 0 => n >= 1)
  BY <1>1, DigitsOfType, DigitsAreC
<1>6. /\ dir.prec \in Nat /\ dir.hasPrec \in BOOLEAN /\ (~dir.hasPrec => dir.prec = 0)
      /\ Width(dir) \in Nat
      /\ dir.hasPrec => ~LeftJustified(dir)
      /\ dir.hasPrec /\ dir.conv = "o" => "hash" \notin dir.flags
      /\ dir.prec + c <= BufSize
      /\ ZeroFilled(dir) => Width(dir) + c <= BufSize
      /\ n + c <= BufSize
      /\ ~LosesDigits(dir)
  BY <1>4, <1>5, PlainInteger
<1>7. Filled(f) <=> ZeroFilled(dir)
  BY <1>1 DEF Filled, ZeroFilled
<1>8. Value(f) \in Int /\ (~IsSigned(f) => Value(f) \in Nat)
  BY <1>1, ValueType
<1>9. ASSUME hash
      PROVE  /\ ~negative /\ Flags(f) \cap {"plus", "space"} = {} /\ Base(f) \in {8, 16}
             /\ n >= 1
             /\ ~f.hasPrec => IF Filled(f) THEN n <= f.width - c \/ n > f.width
                              ELSE n # f.width
  <2>1. dir.conv \in {"x", "X", "o"} /\ "hash" \in dir.flags
    BY <1>1, <1>9
  <2>2. ~IsSigned(dir)
    BY <2>1 DEF IsSigned
  <2>3. ~negative
    BY <1>1, <1>8, <2>2
  <2>4. Flags(f) \cap {"plus", "space"} = {}
    BY <1>1, <2>2
  <2>5. Base(f) \in {8, 16}
    BY <1>1, <2>1 DEF Base
  <2>6. n >= 1
    BY <1>5, <1>9
  <2>7. c > 0
    <3>1. Value(dir) > 0 /\ ~(Value(dir) < 0)
      BY <1>1, <1>8, <1>9, <2>2
    <3>2. CPrefix(dir) = IF dir.conv = "o" THEN <<"0">> ELSE <<"0", dir.conv>>
      BY <2>1, <2>2, <3>1 DEF CPrefix
    <3> QED
      BY <3>2
  <2>8. ASSUME ~f.hasPrec
        PROVE  IF Filled(f) THEN n <= f.width - c \/ n > f.width ELSE n # f.width
    <3>1. ~(IF ZeroFilled(dir) THEN n > Width(dir) - c /\ n <= Width(dir) ELSE n = Width(dir))
      BY <1>1, <1>5, <1>6, <2>1, <2>2, <2>7, <2>8 DEF LosesDigits
    <3> HIDE DEF n, c
    <3> QED
      BY <1>1, <1>4, <1>5, <1>6, <1>7, <3>1
  <2> QED
    BY <2>3, <2>4, <2>5, <2>6, <2>8
<1> HIDE DEF n, negative, hash
<1>10. /\ f.width \in Nat /\ f.prec \in Nat /\ f.hasPrec \in BOOLEAN
       /\ ~f.hasPrec => f.prec = 0
       /\ f.hasPrec => "zero" \notin Flags(f) /\ "left" \notin Flags(f)
       /\ n + c <= BufSize /\ f.prec + c <= BufSize
       /\ Filled(f) => f.width + c <= BufSize
  BY <1>1, <1>6, <1>7
<1> HIDE DEF c
<1>11. Printable(f, n, c, negative, hash)
  BY <1>3, <1>9, <1>10 DEF Printable
<1> QED
  BY <1>2, <1>11 DEF n, c, negative, hash

\* Plain directives of integers print what C says.
LEMMA IntegerIsC ==
  ASSUME NEW dir \in Directives, dir.conv \in CIntegers, Plain(dir), NEW f, Parsed(f, dir)
  PROVE  Integer(f) = CInteger(dir)
<1> DEFINE negative == Value(f) < 0
           hash == "hash" \in Flags(f) /\ Value(f) # 0
           digits == DigitsOf(f)
           n == Len(digits)
           pre == CPrefix(dir)
           c == Len(pre)
           z == ZerosOf(f, n, c)
           buf == (digits \o Zeros(z)) \o Reverse(pre)
           number == Zeros(dir.prec - n) \o CDigits(dir)
           w == Width(dir)
           cd == CDigits(dir)
<1>1. /\ Sized(f) = f /\ f.arg \in Word
      /\ f.width = w /\ f.hasPrec = dir.hasPrec /\ f.prec = dir.prec
      /\ "left" \in Flags(f) <=> LeftJustified(dir)
      /\ "zero" \in Flags(f) <=> "zero" \in dir.flags /\ ~dir.hasPrec
  BY FieldsAgree
<1>2. /\ dir.prec \in Nat /\ dir.hasPrec \in BOOLEAN /\ (~dir.hasPrec => dir.prec = 0)
      /\ w \in Nat /\ (dir.hasPrec => ~LeftJustified(dir))
  BY PlainInteger
<1>3. /\ InBuf(digits) /\ digits \in Seq(Visible) /\ n \in Nat
  BY <1>1, DigitsOfType DEF InBuf
<1>4. cd = Reverse(digits) /\ cd \in Seq(Visible) /\ Len(cd) = n
  BY DigitsAreC
<1>5. Prefix(f, negative, hash) = pre
  BY PrefixIsC
<1>6. Printable(f, n, c, negative, hash)
  BY <1>5, PlainIsPrintable
<1>7. pre \in Seq(Visible) /\ c \in Nat
  <2>1. Prefix(f, negative, hash) \in Seq(Visible)
    <3>1. negative \in BOOLEAN /\ hash \in BOOLEAN
      OBVIOUS
    <3> HIDE DEF negative, hash
    <3> QED
      BY <3>1, PrefixType
  <2> QED
    BY <1>5, <2>1
<1>8. NtoaLong(f) = NtoaFormat(f, digits, negative, hash)
  BY DEF NtoaLong, DigitsOf
<1> HIDE DEF negative, hash
<1>9. NtoaLong(f) = buf
  <2> HIDE DEF digits, pre
  <2> QED
    BY <1>3, <1>5, <1>6, <1>8, NumberIs
<1>10. z \in Int
  <2> HIDE DEF digits, pre
  <2> QED
    BY <1>3, <1>5, <1>6, RoomLeft
<1> HIDE DEF digits, pre, n, c, z, w, cd
<1>11. /\ Zeros(z) \in Seq(Visible) /\ Reverse(Zeros(z)) = Zeros(z)
       /\ Len(Zeros(z)) = IF z > 0 THEN z ELSE 0
  BY <1>10, FillType
<1>12. /\ digits \o Zeros(z) \in Seq(Visible) /\ Len(digits \o Zeros(z)) = n + Len(Zeros(z))
       /\ Reverse(digits \o Zeros(z)) = Zeros(z) \o cd
  BY <1>3, <1>4, <1>11, ConcatProperties, ReverseJoined DEF n
<1>13. Reverse(pre) \in Seq(Visible) /\ Len(Reverse(pre)) = c /\ Reverse(Reverse(pre)) = pre
  BY <1>7, ReverseType, ReverseTwice DEF c
<1>14. Reverse(buf) = pre \o (Zeros(z) \o cd)
  <2> DEFINE a == digits \o Zeros(z)
             b == Reverse(pre)
  <2>1. a \in Seq(Visible) /\ b \in Seq(Visible) /\ Reverse(a) = Zeros(z) \o cd /\ Reverse(b) = pre
    BY <1>12, <1>13
  <2> HIDE DEF a, b
  <2>2. Reverse(a \o b) = Reverse(b) \o Reverse(a)
    BY <2>1, ReverseJoined
  <2> QED
    BY <2>1, <2>2 DEF a, b
<1>15. Len(buf) = n + Len(Zeros(z)) + c
  <2> DEFINE a == digits \o Zeros(z)
             b == Reverse(pre)
  <2>1. a \in Seq(Visible) /\ b \in Seq(Visible) /\ Len(a) = n + Len(Zeros(z)) /\ Len(b) = c
    BY <1>12, <1>13
  <2> HIDE DEF a, b
  <2>2. Len(a \o b) = Len(a) + Len(b)
    BY <2>1, ConcatProperties
  <2> QED
    BY <2>1, <2>2 DEF a, b
<1> HIDE DEF buf
<1>16. /\ dir.prec - n \in Int
       /\ Zeros(dir.prec - n) \in Seq(Visible)
       /\ Len(Zeros(dir.prec - n)) = IF dir.prec - n > 0 THEN dir.prec - n ELSE 0
       /\ dir.prec = 0 => Zeros(dir.prec - n) = <<>>
  <2>1. dir.prec - n \in Int /\ (dir.prec = 0 => dir.prec - n <= 0)
    BY <1>2, <1>3
  <2> QED
    BY <2>1, FillType
<1>17. number \in Seq(Visible) /\ Len(number) = Len(Zeros(dir.prec - n)) + n
       /\ (dir.prec = 0 => number = cd)
  BY <1>4, <1>16, ConcatProperties, ConcatEmptySeq DEF cd
<1> DEFINE fill == w - c - Len(number)
           spaces == Repeat(" ", Max({f.width - Len(buf), 0}))
<1>18. CInteger(dir) = CASE LeftJustified(dir) -> pre \o number \o Blank(fill)
                         [] ZeroFilled(dir) -> pre \o Zeros(fill) \o number
                         [] OTHER -> Blank(fill) \o pre \o number
  BY <1>4 DEF CInteger, w, c, pre, cd
<1>19. Integer(f) = IF "left" \in Flags(f) THEN Reverse(buf) \o spaces
                    ELSE IF "zero" \in Flags(f) THEN Reverse(buf)
                    ELSE spaces \o Reverse(buf)
  BY <1>1, <1>9 DEF Integer, OutRev
<1>20. spaces = Blank(w - Len(buf))
  BY <1>1 DEF Blank
<1>21. fill \in Int /\ Zeros(fill) \in Seq(Visible) /\ Blank(fill) \in Seq(Visible)
  <2>1. fill \in Int
    <3> HIDE DEF number
    <3> QED
      BY <1>2, <1>7, <1>17
  <2> QED
    BY <2>1, FillType
<1> HIDE DEF number, spaces
<1>22. ASSUME Len(number) = n + Len(Zeros(z)) PROVE fill = w - Len(buf)
  BY <1>2, <1>3, <1>7, <1>11, <1>15, <1>17, <1>22
<1>23. CASE LeftJustified(dir)
  <2>1. "left" \in Flags(f) /\ dir.prec = 0
    BY <1>1, <1>2, <1>23
  <2>2. z = 0
    BY <2>1 DEF ZerosOf, z
  <2>3. Zeros(z) = <<>> /\ Len(Zeros(z)) = 0 /\ number = cd /\ Len(number) = n
    <3>1. Zeros(0) = <<>>
      <4>1. 0 \in Int /\ 0 <= 0
        OBVIOUS
      <4> QED
        BY <4>1, FillType
    <3> QED
      BY <1>4, <1>17, <2>1, <2>2, <3>1
  <2>4. Reverse(buf) = pre \o number
    BY <1>4, <1>14, <2>3, ConcatEmptySeq
  <2>5. spaces = Blank(fill)
    BY <1>3, <1>20, <1>22, <2>3
  <2> QED
    BY <1>18, <1>19, <1>23, <2>1, <2>4, <2>5 DEF ZeroFilled
<1>24. CASE ZeroFilled(dir)
  <2>1. "left" \notin Flags(f) /\ "zero" \in Flags(f) /\ dir.prec = 0 /\ ~LeftJustified(dir)
    BY <1>1, <1>2, <1>24 DEF ZeroFilled
  <2>2. z = w - c - n
    BY <1>1, <2>1 DEF ZerosOf, Filled, z
  <2>3. number = cd /\ Len(number) = n
    BY <1>4, <1>17, <2>1
  <2>4. fill = z
    BY <2>2, <2>3
  <2>5. Reverse(buf) = (pre \o Zeros(fill)) \o number
    <3>1. (pre \o Zeros(z)) \o cd = pre \o (Zeros(z) \o cd)
      BY <1>4, <1>7, <1>11, ConcatAssociative
    <3> QED
      BY <1>14, <2>3, <2>4, <3>1
  <2> QED
    BY <1>18, <1>19, <1>24, <2>1, <2>5
<1>25. CASE ~LeftJustified(dir) /\ ~ZeroFilled(dir)
  <2>1. "left" \notin Flags(f) /\ "zero" \notin Flags(f)
    BY <1>1, <1>25 DEF ZeroFilled
  <2>2. z = dir.prec - n
    BY <1>1, <2>1 DEF ZerosOf, Filled, z
  <2>3. number = Zeros(z) \o cd /\ Len(number) = n + Len(Zeros(z))
    <3>1. Len(Zeros(z)) \in Nat
      BY <1>11
    <3> QED
      BY <1>3, <1>17, <2>2, <3>1 DEF number, cd
  <2>4. Reverse(buf) = pre \o number
    BY <1>14, <2>3
  <2>5. spaces = Blank(fill)
    BY <1>20, <1>22, <2>3
  <2>6. (Blank(fill) \o pre) \o number = Blank(fill) \o (pre \o number)
    <3> DEFINE blank == Blank(fill)
    <3>1. blank \in Seq(Visible) /\ pre \in Seq(Visible) /\ number \in Seq(Visible)
      BY <1>7, <1>17, <1>21
    <3> HIDE DEF blank
    <3>2. (blank \o pre) \o number = blank \o (pre \o number)
      BY <3>1, ConcatAssociative
    <3> QED
      BY <3>2 DEF blank
  <2> QED
    BY <1>18, <1>19, <1>25, <2>1, <2>4, <2>5, <2>6
<1> QED
  BY <1>23, <1>24, <1>25

-----------------------------------------------------------------------------
(* Strings, and every plain directive                                      *)

\* Characters of strings.
Letters == STRING \ {"NUL"}

\* The beginning of a string.
LEMMA BeginningType ==
  ASSUME NEW S, NEW s1 \in Seq(S), NEW n \in 0 .. Len(s1)
  PROVE  SubSeq(s1, 1, n) \in Seq(S) /\ Len(SubSeq(s1, 1, n)) = n
<1>1. \A i \in 1 .. n : s1[i] \in S
  OBVIOUS
<1>2. SubSeq(s1, 1, n) \in Seq(S) /\ Len(SubSeq(s1, 1, n)) = IF 1 <= n THEN n - 1 + 1 ELSE 0
  BY <1>1, SubSeqProperties
<1> QED
  BY <1>2

\* What is printed of a string.
LEMMA TextIs ==
  ASSUME NEW f, f.arg \in Seq(Letters), f.prec \in Nat, f.hasPrec \in BOOLEAN
  PROVE  /\ Text(f) \in Seq(Letters)
         /\ Text(f) = SubSeq(f.arg, 1, IF f.hasPrec /\ f.prec < Len(f.arg) THEN f.prec
                                       ELSE Len(f.arg))
<1> DEFINE k == IF f.hasPrec THEN Min({f.prec, Len(f.arg)}) ELSE Len(f.arg)
<1>1. Len(f.arg) \in Nat
  OBVIOUS
<1>2. Min({f.prec, Len(f.arg)}) = IF f.prec <= Len(f.arg) THEN f.prec ELSE Len(f.arg)
  BY <1>1, MinOfTwo
<1>3. k = IF f.hasPrec /\ f.prec < Len(f.arg) THEN f.prec ELSE Len(f.arg)
  BY <1>1, <1>2
<1>4. k \in 0 .. Len(f.arg)
  BY <1>1, <1>3
<1>5. Text(f) = SubSeq(f.arg, 1, k)
  BY DEF Text
<1> HIDE DEF k
<1> QED
  BY <1>3, <1>4, <1>5, BeginningType

\* Plain directives of strings print what C says.
LEMMA StringIsC ==
  ASSUME NEW dir \in Directives, dir.conv = "s", Plain(dir), NEW f, Parsed(f, dir)
  PROVE  Field(f, Text(f)) = CString(dir)
<1>1. /\ dir.star \in BOOLEAN /\ dir.hasPrec \in BOOLEAN /\ (dir.hasPrec \/ dir.prec = 0)
      /\ dir.arg \in Seq(Letters)
      /\ IF dir.star THEN dir.width \in SignedWord /\ dir.prec \in SignedWord
         ELSE dir.width \in Word /\ dir.prec \in Word
  BY DirectivesAssumption DEF Letters
<1>2. ~(dir.hasPrec /\ dir.prec < 0)
  BY DEF Plain
<1>3. dir.width \in Int /\ dir.prec \in Int /\ (~dir.star => dir.width >= 0)
  <2> DEFINE h == 2^(Bits - 1)
             W == 2^Bits
  <2>1. h \in Nat /\ W \in Nat
    BY Sizes
  <2>2. SignedWord = -h .. h - 1 /\ Word = 0 .. W - 1
    BY DEF SignedWord, Word
  <2> HIDE DEF h, W
  <2> QED
    BY <1>1, <2>1, <2>2
<1>4. /\ f.flags = ParsedFlags(dir) /\ f.width = Abs(dir.width) /\ f.hasPrec = dir.hasPrec
      /\ f.prec = ParsedPrec(dir) /\ f.conv = "s"
      /\ TakesArgument(f) => f.arg = dir.arg
  BY DEF Parsed, Evaluation
<1>5. TakesArgument(f)
  BY <1>4 DEF TakesArgument
<1>6. f.arg = dir.arg /\ f.prec = dir.prec /\ dir.prec \in Nat /\ f.width = Width(dir)
  BY <1>1, <1>2, <1>3, <1>4, <1>5 DEF ParsedPrec, Width
<1>7. Flags(f) = f.flags
  BY <1>4 DEF Flags, Ignored, IntegerConversions, Integers10
<1>8. "left" \in Flags(f) <=> LeftJustified(dir)
  BY <1>1, <1>3, <1>4, <1>7 DEF LeftJustified, ParsedFlags
<1> DEFINE arg == dir.arg
           k == IF dir.hasPrec /\ dir.prec < Len(arg) THEN dir.prec ELSE Len(arg)
           all == {SubSeq(arg, 1, n) : n \in 0 .. Len(arg)}
           Is(x) == IF dir.hasPrec /\ dir.prec < Len(arg) THEN Len(x) = dir.prec ELSE x = arg
           shown == CHOOSE x \in all : Is(x)
<1>9. arg \in Seq(Letters) /\ Len(arg) \in Nat /\ k \in 0 .. Len(arg)
  BY <1>1, <1>6
<1>10. SubSeq(arg, 1, Len(arg)) = arg
  BY <1>9, SubSeqFull
<1>11. Text(f) = SubSeq(arg, 1, k)
  BY <1>1, <1>4, <1>6, <1>9, TextIs
<1>12. shown = SubSeq(arg, 1, k)
  <2> HIDE DEF arg
  <2>1. \A n \in 0 .. Len(arg) : Len(SubSeq(arg, 1, n)) = n
    BY <1>9, BeginningType
  <2>2. SubSeq(arg, 1, k) \in all /\ Is(SubSeq(arg, 1, k))
    BY <1>9, <1>10, <2>1
  <2>3. \A x \in all : Is(x) => x = SubSeq(arg, 1, k)
    BY <1>10, <2>1
  <2> HIDE DEF all, Is, k
  <2> QED
    BY <2>2, <2>3
<1>13. CString(dir) = IF LeftJustified(dir) THEN shown \o Blank(Width(dir) - Len(shown))
                      ELSE Blank(Width(dir) - Len(shown)) \o shown
  BY DEF CString
<1> HIDE DEF shown, k, arg
<1>14. CString(dir) = IF LeftJustified(dir) THEN Text(f) \o Blank(Width(dir) - Len(Text(f)))
                      ELSE Blank(Width(dir) - Len(Text(f))) \o Text(f)
  BY <1>11, <1>12, <1>13
<1> QED
  BY <1>6, <1>8, <1>14 DEF Field, Blank

\* What is printed of a plain directive is what C says.
LEMMA TextIsC ==
  ASSUME NEW dir \in Directives, dir.conv \in CIntegers \cup {"s", "%"}, Plain(dir),
         NEW f, Parsed(f, dir)
  PROVE  Converted(f) = CText(dir)
<1>1. f.conv = dir.conv
  BY DEF Parsed
<1>2. CASE dir.conv \in CIntegers
  <2>1. TakesArgument(f)
    BY <1>2, FieldsAgree
  <2>2. f.conv \notin {"c", "s", "%"}
    BY <1>1, <1>2 DEF CIntegers
  <2>3. Converted(f) = Integer(f)
    BY <2>1, <2>2 DEF Converted
  <2>4. CText(dir) = CInteger(dir)
    BY <1>1, <2>2 DEF CText
  <2> QED
    BY <1>2, <2>3, <2>4, IntegerIsC
<1>3. CASE dir.conv = "s"
  <2>1. TakesArgument(f)
    BY <1>1, <1>3 DEF TakesArgument
  <2>2. Converted(f) = Field(f, Text(f))
    BY <1>1, <1>3, <2>1 DEF Converted, IntegerConversions, Integers10
  <2> QED
    BY <1>3, <2>2, StringIsC DEF CText
<1>4. CASE dir.conv = "%"
  <2>1. ~TakesArgument(f)
    BY <1>1, <1>4 DEF TakesArgument, IntegerConversions, Integers10
  <2>2. Converted(f) = <<"%">>
    BY <1>1, <1>4, <2>1 DEF Converted, IntegerConversions, Integers10
  <2> QED
    BY <1>4, <2>2 DEF CText
<1> QED
  BY <1>2, <1>3, <1>4

-----------------------------------------------------------------------------
(* What goes out                                                           *)

\* Without a NUL, the output functions drop nothing.
LEMMA ShownIs ==
  ASSUME NEW chars \in Seq(Visible)
  PROVE  Shown(chars) = chars
<1> DEFINE n == Len(chars)
           parts == [i \in DOMAIN chars |-> IF chars[i] = "NUL" THEN <<>> ELSE <<chars[i]>>]
           Is(f) == f = [i \in 1 .. Len(parts) |->
                           IF i = 1 THEN parts[i] ELSE f[i - 1] \o parts[i]]
           g == [i \in 1 .. n |-> SubSeq(chars, 1, i)]
<1>1. n \in Nat /\ DOMAIN chars = 1 .. n /\ \A i \in 1 .. n : chars[i] \in Visible
  OBVIOUS
<1>2. parts = [i \in 1 .. n |-> <<chars[i]>>]
  <2>1. \A i \in 1 .. n : chars[i] # "NUL"
    BY <1>1 DEF Visible
  <2> QED
    BY <1>1, <2>1
<1>3. Shown(chars) = FlattenSeq(parts)
  BY DEF Shown
<1> HIDE DEF parts
<1>4. parts \in Seq(Seq(Visible)) /\ Len(parts) = n /\ \A i \in 1 .. n : parts[i] = <<chars[i]>>
  <2>1. \A i \in 1 .. n : <<chars[i]>> \in Seq(Visible)
    BY <1>1
  <2>2. [i \in 1 .. n |-> <<chars[i]>>] \in Seq(Seq(Visible))
    BY <1>1, <2>1, IsASeq
  <2> QED
    BY <1>1, <1>2, <2>2
<1>5. CASE n = 0
  <2>1. Shown(chars) = parts /\ parts = <<>> /\ chars = <<>>
    BY <1>3, <1>4, <1>5 DEF FlattenSeq
  <2> QED
    BY <2>1
<1>6. CASE n # 0
  <2>1. Shown(chars) = (CHOOSE f : Is(f))[n]
    BY <1>3, <1>4, <1>6 DEF FlattenSeq
  <2>2. SubSeq(chars, 1, 1) = <<chars[1]>>
    <3>1. 1 \in 1 .. n
      BY <1>1, <1>6
    <3>2. SubSeq(chars, 1, 1) = SubSeq(chars, 1, 1 - 1) \o <<chars[1]>>
      BY <3>1, SubSeqRecursiveSecond
    <3>3. SubSeq(chars, 1, 1 - 1) = <<>>
      BY SubSeqEmpty
    <3>4. <<chars[1]>> \in Seq(Visible)
      BY <1>1, <3>1
    <3> QED
      BY <3>2, <3>3, <3>4, ConcatEmptySeq
  <2>3. \A i \in 1 .. n : i # 1 => SubSeq(chars, 1, i) = SubSeq(chars, 1, i - 1) \o <<chars[i]>>
    <3> SUFFICES ASSUME NEW i \in 1 .. n, i # 1
                 PROVE  SubSeq(chars, 1, i) = SubSeq(chars, 1, i - 1) \o <<chars[i]>>
      OBVIOUS
    <3>1. 1 \in 1 .. n /\ i \in 1 .. n
      BY <1>1, <1>6
    <3> QED
      BY <3>1, SubSeqRecursiveSecond
  <2>4. Is(g)
    <3> SUFFICES ASSUME NEW i \in 1 .. n
                 PROVE  SubSeq(chars, 1, i) = IF i = 1 THEN parts[i] ELSE g[i - 1] \o parts[i]
      BY <1>4
    <3>1. CASE i = 1
      BY <1>4, <2>2, <3>1
    <3>2. CASE i # 1
      <4>1. i - 1 \in 1 .. n
        BY <1>1, <3>2
      <4>2. g[i - 1] = SubSeq(chars, 1, i - 1)
        BY <4>1
      <4> QED
        BY <1>4, <2>3, <3>2, <4>2
    <3> QED
      BY <3>1, <3>2
  <2> DEFINE f == CHOOSE x : Is(x)
  <2> HIDE DEF Is, g
  <2>5. Is(f)
    BY <2>4
  <2> HIDE DEF f
  <2>6. \A i \in 1 .. n : f[i] = IF i = 1 THEN parts[i] ELSE f[i - 1] \o parts[i]
    BY <1>4, <2>5 DEF Is
  <2> DEFINE T == {i \in Int : f[i] = SubSeq(chars, 1, i)}
  <2>7. 1 \in T
    <3>1. 1 \in 1 .. n
      BY <1>1, <1>6
    <3> QED
      BY <1>4, <2>2, <2>6, <3>1
  <2>8. ASSUME NEW k \in 1 .. n, k # 1, k - 1 \in T PROVE k \in T
    <3>1. f[k] = f[k - 1] \o parts[k] /\ parts[k] = <<chars[k]>>
      BY <1>4, <2>6, <2>8
    <3>2. f[k - 1] = SubSeq(chars, 1, k - 1)
      BY <2>8
    <3>3. f[k] = SubSeq(chars, 1, k)
      BY <2>3, <2>8, <3>1, <3>2
    <3> QED
      BY <3>3
  <2> HIDE DEF T
  <2>9. \A k \in 1 .. n : k \in T
    <3>1. 1 \in Int /\ n \in Int
      BY <1>1
    <3> QED
      BY <2>7, <2>8, <3>1, Upwards
  <2>10. f[n] = SubSeq(chars, 1, n)
    <3>1. n \in 1 .. n
      BY <1>1, <1>6
    <3> QED
      BY <2>9, <3>1 DEF T
  <2>11. SubSeq(chars, 1, n) = chars
    BY SubSeqFull
  <2> QED
    BY <2>1, <2>10, <2>11 DEF f
<1> QED
  BY <1>5, <1>6

\* Text in its field.
LEMMA FieldType ==
  ASSUME NEW S, Visible \subseteq S, NEW f, f.width \in Int, NEW text \in Seq(S)
  PROVE  Field(f, text) \in Seq(S)
<1> DEFINE m == f.width - Len(text)
           blank == Blank(m)
<1>1. Field(f, text) = IF "left" \in Flags(f) THEN text \o blank ELSE blank \o text
  BY DEF Field, Blank
<1>2. m \in Int
  <2>1. Len(text) \in Nat
    OBVIOUS
  <2> QED
    BY <2>1
<1> HIDE DEF m
<1>3. blank \in Seq(Visible)
  BY <1>2, FillType
<1> HIDE DEF blank
<1>4. blank \in Seq(S)
  BY <1>3
<1> QED
  BY <1>1, <1>4, ConcatProperties

\* The fields of a directive after its evaluation.
LEMMA ParsedType ==
  ASSUME NEW dir \in Directives, NEW f, Parsed(f, dir)
  PROVE  /\ DOMAIN f = Fields /\ f.width \in Int /\ f.prec \in Nat /\ f.hasPrec \in BOOLEAN
         /\ f.conv = dir.conv /\ f.conv \in Letters
         /\ TakesArgument(f) =>
              /\ f.conv \in IntegerConversions \cup {"p"} => f.arg \in Word
              /\ f.conv = "c" => f.arg \in STRING
              /\ f.conv = "s" => f.arg \in Seq(Letters)
<1>1. /\ dir.star \in BOOLEAN /\ dir.hasPrec \in BOOLEAN
      /\ IF dir.star THEN dir.width \in SignedWord /\ dir.prec \in SignedWord
         ELSE dir.width \in Word /\ dir.prec \in Word
      /\ dir.conv \in STRING \ Syntax
      /\ dir.conv \in IntegerConversions \cup {"p"} => dir.arg \in Word
      /\ dir.conv = "c" => dir.arg \in STRING
      /\ dir.conv = "s" => dir.arg \in Seq(Letters)
  BY DirectivesAssumption DEF Letters
<1>2. dir.width \in Int /\ dir.prec \in Int
  <2> DEFINE h == 2^(Bits - 1)
             W == 2^Bits
  <2>1. h \in Nat /\ W \in Nat
    BY Sizes
  <2>2. SignedWord = -h .. h - 1 /\ Word = 0 .. W - 1
    BY DEF SignedWord, Word
  <2> HIDE DEF h, W
  <2> QED
    BY <1>1, <2>1, <2>2
<1>3. /\ DOMAIN f = Fields /\ f.width = Abs(dir.width) /\ f.hasPrec = dir.hasPrec
      /\ f.prec = ParsedPrec(dir) /\ f.conv = dir.conv
      /\ TakesArgument(f) => f.arg = dir.arg
  BY DEF Parsed, Evaluation
<1>4. f.width \in Int /\ f.prec \in Nat
  BY <1>2, <1>3 DEF Abs, ParsedPrec
<1>5. f.conv \in Letters
  BY <1>1, <1>3 DEF Letters, Syntax
<1> QED
  BY <1>1, <1>3, <1>4, <1>5

\* buf and what is printed from it.
LEMMA IntegerType ==
  ASSUME NEW f, DOMAIN f = Fields, f.width \in Int, f.prec \in Int, f.arg \in Word
  PROVE  InBuf(NtoaLong(Sized(f))) /\ Integer(f) \in Seq(Visible)
<1> DEFINE q == Sized(f)
<1>1. q.width \in Int /\ q.prec \in Int /\ q.arg \in Word
  <2>1. CASE f.conv = "p"
    <3>1. q = [f EXCEPT !.width = (Bits + 3) \div 4, !.flags = @ \cup {"zero"}]
      BY <2>1 DEF Sized
    <3>2. q.width = (Bits + 3) \div 4 /\ q.prec = f.prec /\ q.arg = f.arg
      BY <3>1 DEF Fields
    <3>3. (Bits + 3) \div 4 \in Int
      <4>1. Bits \in Int
        BY PrintfAssumption
      <4> QED
        BY <4>1
    <3> QED
      BY <3>2, <3>3
  <2>2. CASE f.conv # "p"
    BY <2>2 DEF Sized
  <2> QED
    BY <2>1, <2>2
<1>2. Integer(f) = OutRev(NtoaLong(q), q.width, Flags(q))
  BY DEF Integer
<1> HIDE DEF q
<1>3. InBuf(NtoaLong(q))
  BY <1>1, NtoaFits
<1>4. OutRev(NtoaLong(q), q.width, Flags(q)) \in Seq(Visible)
  BY <1>1, <1>3, OutRevType DEF InBuf
<1> QED
  BY <1>2, <1>3, <1>4 DEF q

\* What a directive prints; only %c can print a NUL.
LEMMA ConvertedType ==
  ASSUME NEW dir \in Directives, NEW f, Parsed(f, dir)
  PROVE  /\ Converted(f) \in Seq(STRING \cup Chars)
         /\ dir.conv # "c" => Converted(f) \in Seq(Visible)
         /\ f.conv \in IntegerConversions \cup {"p"} /\ TakesArgument(f) =>
              InBuf(NtoaLong(Sized(f)))
<1>1. /\ DOMAIN f = Fields /\ f.width \in Int /\ f.prec \in Nat /\ f.hasPrec \in BOOLEAN
      /\ f.conv = dir.conv /\ f.conv \in Letters
      /\ TakesArgument(f) =>
           /\ f.conv \in IntegerConversions \cup {"p"} => f.arg \in Word
           /\ f.conv = "c" => f.arg \in STRING
           /\ f.conv = "s" => f.arg \in Seq(Letters)
  BY ParsedType
<1>2. Letters \subseteq Visible /\ Visible \subseteq Chars /\ STRING \cup Chars = Chars
      /\ STRING \subseteq Chars
  BY DEF Letters, Visible, Chars
<1>4. \A q \in Seq(Visible) : q \in Seq(Chars)
  BY <1>2
<1>5. CASE f.conv = "c"
  <2>1. TakesArgument(f)
    BY <1>5 DEF TakesArgument
  <2>2. <<f.arg>> \in Seq(Chars)
    BY <1>1, <1>2, <1>5, <2>1
  <2>3. Field(f, <<f.arg>>) \in Seq(Chars)
    BY <1>1, <1>2, <2>2, FieldType
  <2> QED
    BY <1>1, <1>2, <1>5, <2>3 DEF Converted, IntegerConversions, Integers10
<1>6. CASE f.conv = "s"
  <2>1. TakesArgument(f)
    BY <1>6 DEF TakesArgument
  <2>2. Text(f) \in Seq(Letters)
    BY <1>1, <1>6, <2>1, TextIs
  <2>3. Text(f) \in Seq(Visible)
    BY <1>2, <2>2
  <2>4. Field(f, Text(f)) \in Seq(Visible)
    BY <1>1, <2>3, FieldType
  <2>5. Converted(f) = Field(f, Text(f))
    BY <1>6 DEF Converted, IntegerConversions, Integers10
  <2> QED
    BY <1>2, <1>4, <1>6, <2>4, <2>5 DEF IntegerConversions, Integers10
<1>7. CASE f.conv \notin {"c", "s"} /\ TakesArgument(f)
  <2>1. f.conv \in IntegerConversions \cup {"p"}
    BY <1>7 DEF TakesArgument
  <2>2. Converted(f) = Integer(f)
    BY <1>7 DEF Converted
  <2>3. f.prec \in Int
    BY <1>1
  <2> QED
    BY <1>1, <1>2, <1>4, <1>7, <2>1, <2>2, <2>3, IntegerType
<1>8. CASE f.conv \notin {"c", "s"} /\ ~TakesArgument(f)
  <2>1. Converted(f) = <<>> \/ Converted(f) = <<f.conv>>
    BY <1>8 DEF Converted
  <2>2. <<f.conv>> \in Seq(Visible) /\ <<>> \in Seq(Visible)
    BY <1>1, <1>2
  <2> QED
    BY <1>2, <1>4, <1>8, <2>1, <2>2
<1> QED
  BY <1>5, <1>6, <1>7, <1>8

\* 7 has one digit.
LEMMA DigitsOfSeven == Digits(7, 10, FALSE) = <<"7">> /\ Len(Digits(7, 10, FALSE)) = 1
<1> DEFINE q == Digits(7, 10, FALSE)
           k == Rounds(7, 10)
<1>1. 7 \in Nat /\ 10 \in Bases
  BY DEF Bases
<1>2. /\ q \in Seq(Visible) /\ Len(q) = k /\ k \in 1 .. BufSize
      /\ \A i \in 1 .. k : q[i] = Digit(Left(7, 10)[i] % 10, FALSE)
      /\ \A i \in 2 .. k : Left(7, 10)[i] # 0
      /\ Left(7, 10)[1] = 7
      /\ \A i \in 2 .. BufSize : Left(7, 10)[i] = Left(7, 10)[i - 1] \div 10
  <2>1. /\ q \in Seq(Visible) /\ Len(q) = k
        /\ \A i \in 1 .. k : q[i] = Digit(Left(7, 10)[i] % 10, FALSE)
    BY <1>1, DigitsType
  <2>2. k \in 1 .. BufSize /\ \A i \in 2 .. k : Left(7, 10)[i] # 0
    BY <1>1, RoundsMeaning
  <2>3. /\ Left(7, 10)[1] = 7
        /\ \A i \in 2 .. BufSize : Left(7, 10)[i] = Left(7, 10)[i - 1] \div 10
    BY <1>1, LeftValues
  <2> QED
    BY <2>1, <2>2, <2>3
<1>3. BufSize \in Nat
  BY Sizes
<1> HIDE DEF k, q
<1>4. ~(k >= 2)
  <2>1. SUFFICES ASSUME k >= 2 PROVE FALSE
    OBVIOUS
  <2>2. 2 \in 2 .. k /\ 2 \in 2 .. BufSize /\ 2 - 1 = 1
    BY <1>2, <1>3, <2>1
  <2>3. Left(7, 10)[2] = 7 \div 10 /\ Left(7, 10)[2] # 0
    BY <1>2, <2>2
  <2>4. 7 \div 10 = 0
    OBVIOUS
  <2> QED
    BY <2>3, <2>4
<1>5. k = 1
  BY <1>2, <1>3, <1>4
<1>6. q[1] = Digit(7 % 10, FALSE)
  <2>1. 1 \in 1 .. k
    BY <1>5
  <2> QED
    BY <1>2, <2>1
<1>7. Digit(7 % 10, FALSE) = "7"
  <2>1. 7 % 10 = 7 /\ 7 + 1 = 8
    OBVIOUS
  <2>2. Digit(7, FALSE) = LowerDigits[8]
    BY <2>1 DEF Digit
  <2>3. LowerDigits[8] = "7"
    BY DEF LowerDigits
  <2> QED
    BY <2>1, <2>2, <2>3
<1>8. q = <<q[1]>>
  <2> DEFINE r == <<q[1]>>
  <2>1. q[1] \in Visible
    <3>1. 1 \in 1 .. Len(q)
      BY <1>2, <1>5
    <3> QED
      BY <1>2, <3>1, ElementOfSeq
  <2>2. r \in Seq(Visible) /\ Len(r) = 1 /\ r[1] = q[1]
    BY <2>1
  <2> HIDE DEF r
  <2>3. q = r
    BY <1>2, <1>5, <2>2, SeqEqual
  <2> QED
    BY <2>3 DEF r
<1> QED
  BY <1>2, <1>5, <1>6, <1>7, <1>8 DEF q

\* %i of 7 prints 7.
LEMMA SevenPrinted ==
  ASSUME NEW f, NEW i, Evaluation(f, i, <<>>, {}, 0, FALSE, 0, "none"), f.conv = "i", f.arg = 7
  PROVE  Converted(f) = <<"7">> /\ InBuf(NtoaLong(Sized(f)))
<1> DEFINE digits == DigitsOf(f)
           negative == Value(f) < 0
           hash == "hash" \in Flags(f) /\ Value(f) # 0
<1>1. /\ DOMAIN f = Fields /\ f.flags = {} /\ f.width = 0 /\ f.hasPrec = FALSE /\ f.prec = 0
      /\ f.length = "none"
  BY DEF Evaluation
<1>2. f.arg \in Word /\ Value(f) = 7
  <2> DEFINE h == 2^(Bits - 1)
             W == 2^Bits
  <2>1. h \in Nat /\ W = 2 * h /\ 7 < h
    BY Sizes, PrintfAssumption
  <2> HIDE DEF h, W
  <2>2. 7 \in 0 .. W - 1 /\ ~(7 >= h)
    BY <2>1
  <2>3. ToSigned(7, Bits) = 7
    BY <2>2 DEF ToSigned, h
  <2>4. Value(f) = ToSigned(7, Bits)
    BY <1>1 DEF Value, IsSigned
  <2> QED
    BY <2>2, <2>3, <2>4 DEF Word, W
<1>3. Sized(f) = f
  BY DEF Sized
<1>4. InBuf(NtoaLong(Sized(f)))
  BY <1>1, <1>2, IntegerType
<1>5. TakesArgument(f) /\ Converted(f) = Integer(f)
  BY <1>1 DEF TakesArgument, LongLong, Converted, IntegerConversions, Integers10
<1>6. Flags(f) = {}
  BY <1>1 DEF Flags
<1>7. digits = <<"7">> /\ Len(digits) = 1
  <2>1. Abs(7) = 7 /\ Base(f) = 10 /\ Upper(f) = FALSE
    BY DEF Abs, Base, Upper
  <2>2. digits = Digits(7, 10, FALSE)
    BY <1>1, <1>2, <2>1 DEF DigitsOf
  <2> QED
    BY <2>2, DigitsOfSeven
<1>8. negative = FALSE /\ hash = FALSE
  BY <1>2, <1>6
<1>9. NtoaLong(f) = NtoaFormat(f, digits, negative, hash)
  BY DEF NtoaLong, DigitsOf
<1>10. InBuf(digits)
  BY <1>2, DigitsOfType
<1> HIDE DEF negative, hash, digits
<1>11. Prefix(f, negative, hash) = <<>> /\ Len(Prefix(f, negative, hash)) = 0
  BY <1>6, <1>8 DEF Prefix
<1>12. Printable(f, 1, 0, negative, hash)
  <2>1. 1 + 0 <= BufSize /\ 0 + 0 <= BufSize
    BY Sizes
  <2>2. ~Filled(f)
    BY <1>6 DEF Filled
  <2>3. f.width \in Nat /\ f.prec \in Nat /\ f.hasPrec \in BOOLEAN /\ ~f.hasPrec
        /\ f.prec = 0
    <3>1. f.hasPrec \in BOOLEAN /\ ~f.hasPrec
      BY <1>1, Zenon
    <3>2. f.width \in Nat /\ f.prec \in Nat
      BY <1>1
    <3> QED
      BY <1>1, <3>1, <3>2
  <2>4. negative \in BOOLEAN /\ hash \in BOOLEAN /\ ~hash
    BY <1>8
  <2>5. f.prec + 0 <= BufSize
    BY <2>1, <2>3
  <2> QED
    BY <2>1, <2>2, <2>3, <2>4, <2>5 DEF Printable
<1>13. NtoaLong(f) = (digits \o Zeros(ZerosOf(f, 1, 0))) \o Reverse(<<>>)
  BY <1>7, <1>9, <1>10, <1>11, <1>12, NumberIs
<1>14. ZerosOf(f, 1, 0) = -1
  BY <1>1, <1>6 DEF ZerosOf, Filled
<1>15. Zeros(-1) = <<>> /\ Blank(0 - 1) = <<>> /\ Blank(0 - 1) \in Seq(Visible)
  <2>1. -1 \in Int /\ 0 - 1 = -1 /\ -1 <= 0
    OBVIOUS
  <2> QED
    BY <2>1, FillType
<1>16. "7" \in Visible /\ <<"7">> \in Seq(Visible)
  <2>1. digits \in Seq(Visible) /\ Len(digits) = 1 /\ digits[1] = "7"
    BY <1>7, <1>10 DEF InBuf
  <2>2. digits[1] \in Visible
    BY <2>1
  <2> QED
    BY <2>1, <2>2
<1>17. Reverse(<<>>) = <<>> /\ Reverse(<<"7">>) = <<"7">>
  BY <1>16, ReverseFew
<1>18. NtoaLong(f) = <<"7">>
  BY <1>7, <1>13, <1>14, <1>15, <1>16, <1>17, ConcatEmptySeq
<1>19. Integer(f) = Blank(0 - 1) \o <<"7">>
  <2>1. Len(<<"7">>) = 1
    OBVIOUS
  <2>2. Integer(f) = OutRev(<<"7">>, 0, {})
    BY <1>1, <1>3, <1>6, <1>18 DEF Integer
  <2> QED
    BY <1>17, <2>1, <2>2 DEF OutRev, Blank
<1>20. Integer(f) = <<"7">>
  BY <1>15, <1>16, <1>19, ConcatEmptySeq
<1> QED
  BY <1>4, <1>5, <1>20

-----------------------------------------------------------------------------
(* The invariant of a call                                                 *)

\* A directive that PrintsAsC speaks of.
Judged(dir) == Plain(dir) /\ dir.conv \in CIntegers \cup {"s", "%"}

\* How far a call has come: at its character, at its directive, at the second one, at
\* the end, and behind it.
Progress ==
  /\ directive \in Directives /\ format = Written(directive)
  /\ maxlen \in 0 .. Capacity
  /\ \/ at = 1 /\ said = <<>> /\ args = Arguments(directive) \o << 7 >>
     \/ at = 2 /\ said = <<"a">> /\ args = Arguments(directive) \o << 7 >>
     \/ /\ at = ConvAt(directive) + 1 /\ args = << 7 >>
        /\ Judged(directive) => said = <<"a">> \o CText(directive)
     \/ /\ at \in {ConvAt(directive) + 3, ConvAt(directive) + 4} /\ args = <<>>
        /\ Judged(directive) => said = (<<"a">> \o CText(directive)) \o <<"7">>

\* What was said was counted, and went where it should; only a %c makes an exception.
Sending ==
  /\ said \in Seq(Chars) /\ idx = Len(said)
  /\ directive.conv # "c" =>
       said \in Seq(Visible) /\ (out \in {"_out_char", "_out_fct"} => sent = said)

\* The buffer of snprintf has as much of it as there is room for, and no NUL yet.
Filling ==
  /\ DOMAIN buffer = 0 .. Capacity
  /\ out = "_out_buffer" =>
       \A n \in 0 .. Capacity :
         buffer[n] = IF n < maxlen /\ n < Len(said) THEN said[n + 1] ELSE "?"

\* ... and then its NUL.
Ended ==
  out = "_out_buffer" =>
    LET kept == Min({Len(said), maxlen - 1})
    IN /\ \A n \in maxlen .. Capacity : buffer[n] = "?"
       /\ maxlen > 0 => /\ \A n \in 0 .. kept - 1 : buffer[n] = said[n + 1]
                        /\ buffer[kept] = "NUL"

PrintfInv ==
  /\ Progress /\ Sending /\ InBuf(ntoa)
  /\ IF at = ConvAt(directive) + 4 THEN Ended ELSE Filling

\* A call begins so.
LEMMA PrintfInitInv == PrintfInit => PrintfInv
<1> SUFFICES ASSUME PrintfInit PROVE PrintfInv
  OBVIOUS
<1>1. /\ directive \in Directives /\ at = 1 /\ args = Arguments(directive) \o << 7 >>
      /\ idx = 0 /\ ntoa = <<>> /\ said = <<>> /\ sent = <<>>
      /\ buffer = [n \in 0 .. Capacity |-> "?"]
      /\ maxlen \in Counts \cup {0}
  BY DEF PrintfInit
<1>2. format = Written(directive)
  BY DEF PrintfInit, Written
<1>3. Capacity \in Nat /\ Counts \subseteq 0 .. Capacity /\ BufSize \in Nat
  BY Sizes
<1>4. maxlen \in 0 .. Capacity
  BY <1>1, <1>3
<1>5. Progress
  BY <1>1, <1>2, <1>4 DEF Progress
<1>6. Sending
  BY <1>1 DEF Sending
<1>7. Filling
  <2>1. Len(said) = 0
    BY <1>1
  <2> QED
    BY <1>1, <2>1 DEF Filling
<1>8. InBuf(ntoa)
  BY <1>1, <1>3 DEF InBuf
<1>9. at # ConvAt(directive) + 4
  <2>1. ConvAt(directive) \in Nat
    BY <1>1, Shape
  <2> QED
    BY <1>1, <2>1
<1> QED
  BY <1>5, <1>6, <1>7, <1>8, <1>9 DEF PrintfInv

\* What goes out is counted, sent and written.
LEMMA OutKeeps ==
  ASSUME Sending, Filling, maxlen \in 0 .. Capacity, NEW chars \in Seq(Chars),
         directive.conv # "c" => chars \in Seq(Visible),
         Out(chars), directive' = directive, out' = out, maxlen' = maxlen
  PROVE  Sending' /\ Filling'
<1>1. /\ said \in Seq(Chars) /\ idx = Len(said) /\ Len(said) \in Nat /\ Len(chars) \in Nat
      /\ maxlen \in Nat /\ Capacity \in Nat
  BY Sizes DEF Sending
<1>2. /\ said' = said \o chars
      /\ sent' = IF out \in {"_out_char", "_out_fct"} THEN sent \o Shown(chars) ELSE sent
      /\ idx' = idx + Len(chars)
      /\ buffer' = IF out # "_out_buffer" THEN buffer
                   ELSE [n \in DOMAIN buffer |-> IF n >= idx /\ n < idx + Len(chars) /\ n < maxlen
                                                 THEN chars[n - idx + 1] ELSE buffer[n]]
  BY DEF Out, Room
<1>3. /\ said \o chars \in Seq(Chars) /\ Len(said \o chars) = Len(said) + Len(chars)
      /\ \A i \in 1 .. Len(said) + Len(chars) :
           (said \o chars)[i] = IF i <= Len(said) THEN said[i] ELSE chars[i - Len(said)]
  BY <1>1, ConcatProperties
<1>4. Sending'
  <2>1. ASSUME directive.conv # "c"
        PROVE  said' \in Seq(Visible) /\ (out \in {"_out_char", "_out_fct"} => sent' = said')
    <3>1. said \in Seq(Visible) /\ chars \in Seq(Visible) /\ Shown(chars) = chars
          /\ (out \in {"_out_char", "_out_fct"} => sent = said)
      BY <2>1, ShownIs DEF Sending
    <3>2. said \o chars \in Seq(Visible)
      BY <3>1, ConcatProperties
    <3> QED
      BY <1>2, <3>1, <3>2
  <2>2. said' \in Seq(Chars) /\ idx' = Len(said')
    BY <1>1, <1>2, <1>3
  <2> QED
    BY <2>1, <2>2 DEF Sending
<1>5. DOMAIN buffer = 0 .. Capacity /\ DOMAIN buffer' = 0 .. Capacity
  BY <1>2 DEF Filling
<1>6. ASSUME out = "_out_buffer", NEW n \in 0 .. Capacity
      PROVE  buffer'[n] = IF n < maxlen /\ n < Len(said') THEN said'[n + 1] ELSE "?"
  <2>1. buffer'[n] = IF n >= idx /\ n < idx + Len(chars) /\ n < maxlen
                     THEN chars[n - idx + 1] ELSE buffer[n]
    BY <1>2, <1>5, <1>6
  <2>2. buffer[n] = IF n < maxlen /\ n < Len(said) THEN said[n + 1] ELSE "?"
    BY <1>6 DEF Filling
  <2>3. Len(said') = Len(said) + Len(chars) /\ n \in Nat
    BY <1>1, <1>2, <1>3
  <2>4. CASE n < Len(said)
    <3>1. n + 1 \in 1 .. Len(said) + Len(chars) /\ n + 1 <= Len(said)
      BY <1>1, <2>3, <2>4
    <3>2. said'[n + 1] = said[n + 1]
      BY <1>2, <1>3, <3>1
    <3>3. ~(n >= idx) /\ n < Len(said')
      BY <1>1, <2>3, <2>4
    <3> QED
      BY <2>1, <2>2, <2>4, <3>2, <3>3
  <2>5. CASE n >= Len(said) /\ n < Len(said) + Len(chars)
    <3>1. n + 1 \in 1 .. Len(said) + Len(chars) /\ ~(n + 1 <= Len(said))
          /\ n + 1 - Len(said) = n - Len(said) + 1
      BY <1>1, <2>3, <2>5
    <3>2. said'[n + 1] = chars[n - Len(said) + 1]
      BY <1>2, <1>3, <3>1
    <3>3. ~(n < Len(said)) /\ n < Len(said') /\ n >= idx /\ n < idx + Len(chars)
      BY <1>1, <2>3, <2>5
    <3> QED
      BY <1>1, <2>1, <2>2, <3>2, <3>3
  <2>6. CASE n >= Len(said) + Len(chars)
    <3>1. ~(n < Len(said)) /\ ~(n < Len(said')) /\ ~(n < idx + Len(chars))
      BY <1>1, <2>3, <2>6
    <3> QED
      BY <2>1, <2>2, <3>1
  <2> QED
    BY <1>1, <2>3, <2>4, <2>5, <2>6
<1>7. Filling'
  BY <1>5, <1>6 DEF Filling
<1> QED
  BY <1>4, <1>7

\* Where a call can be, and that these places differ.
LEMMA Places ==
  ASSUME Progress
  PROVE  /\ Len(format) = ConvAt(directive) + 2 /\ ConvAt(directive) \in Nat
         /\ ConvAt(directive) >= 3
         /\ at \in {1, 2, ConvAt(directive) + 1, ConvAt(directive) + 3, ConvAt(directive) + 4}
         /\ format[1] = "a" /\ format[2] = "%" /\ format[ConvAt(directive) + 1] = "%"
         /\ format = Written(directive) /\ directive \in Directives
         /\ maxlen \in 0 .. Capacity
<1>1. format = Written(directive) /\ directive \in Directives /\ maxlen \in 0 .. Capacity
      /\ at \in {1, 2, ConvAt(directive) + 1, ConvAt(directive) + 3, ConvAt(directive) + 4}
  BY DEF Progress
<1>2. /\ Len(format) = ConvAt(directive) + 2 /\ ConvAt(directive) \in Nat
      /\ LengthAt(directive) \in 3 .. ConvAt(directive)
      /\ format[1] = "a" /\ format[2] = "%" /\ format[ConvAt(directive) + 1] = "%"
  BY <1>1, Shape
<1> QED
  BY <1>1, <1>2

\* A character that is no directive.
LEMMA LiteralKeeps == PrintfInv /\ Literal => PrintfInv'
<1> SUFFICES ASSUME PrintfInv, Literal PROVE PrintfInv'
  OBVIOUS
<1> DEFINE A == ConvAt(directive)
<1>1. Progress /\ Sending /\ InBuf(ntoa) /\ IF at = A + 4 THEN Ended ELSE Filling
  BY DEF PrintfInv
<1>2. /\ at <= Len(format) /\ format[at] # "%" /\ Out(<<format[at]>>) /\ at' = at + 1
      /\ directive' = directive /\ format' = format /\ args' = args /\ out' = out
      /\ maxlen' = maxlen /\ ntoa' = ntoa
  BY DEF Literal
<1>3. /\ Len(format) = A + 2 /\ A \in Nat /\ A >= 3 /\ at \in {1, 2, A + 1, A + 3, A + 4}
      /\ format[1] = "a" /\ format[2] = "%" /\ format[A + 1] = "%"
      /\ format = Written(directive) /\ directive \in Directives /\ maxlen \in 0 .. Capacity
  BY <1>1, Places
<1>4. A' = A
  BY <1>2 DEF ConvAt, LengthAt, PrecAt, WidthAt, FlagChars, WidthChars, PrecChars, PrecDigits
<1> HIDE DEF A
<1>5. at = 1 /\ at' = 2
  <2>1. at # 2 /\ at # A + 1
    BY <1>2, <1>3
  <2>2. at # A + 3 /\ at # A + 4
    BY <1>2, <1>3
  <2>3. at = 1
    BY <1>3, <2>1, <2>2
  <2> QED
    BY <1>2, <2>3
<1>6. said = <<>> /\ args = Arguments(directive) \o << 7 >>
  BY <1>1, <1>3, <1>5 DEF Progress, A
<1>7. <<"a">> \in Seq(Visible) /\ <<"a">> \in Seq(Chars) /\ <<>> \o <<"a">> = <<"a">>
  <2>1. "a" \in Visible
    <3>1. LowerDigits[11] = "a" /\ 11 \in 1 .. 16
      BY DEF LowerDigits
    <3> QED
      BY <3>1 DEF Visible, Chars
  <2>2. "a" \in Chars
    BY <2>1 DEF Visible
  <2> QED
    BY <2>1, <2>2, ConcatEmptySeq
<1>8. said' = <<"a">>
  BY <1>2, <1>3, <1>5, <1>6, <1>7 DEF Out
<1>9. Progress'
  BY <1>2, <1>3, <1>5, <1>6, <1>8 DEF Progress
<1>10. Sending' /\ Filling'
  <2>1. Filling
    BY <1>1, <1>3, <1>5
  <2>2. Out(<<"a">>)
    BY <1>2, <1>3, <1>5
  <2> QED
    BY <1>1, <1>2, <1>3, <1>7, <2>1, <2>2, OutKeeps
<1>11. at' # A' + 4
  BY <1>3, <1>4, <1>5
<1> QED
  BY <1>1, <1>2, <1>9, <1>10, <1>11 DEF PrintfInv, A

\* The directive, and the one after it.
LEMMA DirectiveKeeps == PrintfInv /\ Directive => PrintfInv'
<1> SUFFICES ASSUME PrintfInv, Directive PROVE PrintfInv'
  OBVIOUS
<1> DEFINE A == ConvAt(directive)
           f == Evaluated(at + 1)
           chars == Converted(f)
<1>1. Progress /\ Sending /\ InBuf(ntoa) /\ IF at = A + 4 THEN Ended ELSE Filling
  BY DEF PrintfInv
<1>2. /\ at <= Len(format) /\ format[at] = "%" /\ Out(chars)
      /\ args' = f.args
      /\ ntoa' = IF f.conv \in IntegerConversions \cup {"p"} /\ TakesArgument(f)
                 THEN NtoaLong(Sized(f)) ELSE ntoa
      /\ at' = f.at
      /\ directive' = directive /\ format' = format /\ out' = out /\ maxlen' = maxlen
  BY DEF Directive
<1>3. /\ Len(format) = A + 2 /\ A \in Nat /\ A >= 3 /\ at \in {1, 2, A + 1, A + 3, A + 4}
      /\ format[1] = "a" /\ format[2] = "%" /\ format[A + 1] = "%"
      /\ format = Written(directive) /\ directive \in Directives /\ maxlen \in 0 .. Capacity
  BY <1>1, Places
<1>4. A' = A
  BY <1>2 DEF ConvAt, LengthAt, PrecAt, WidthAt, FlagChars, WidthChars, PrecChars, PrecDigits
<1> HIDE DEF A, f, chars
<1>5. at = 2 \/ at = A + 1
  <2>1. at # A + 3 /\ at # A + 4 /\ at # 1
    BY <1>2, <1>3
  <2> QED
    BY <1>3, <2>1
<1>6. Filling
  BY <1>1, <1>3, <1>5
<1>7. said' = said \o chars
  BY <1>2 DEF Out
<1>8. ASSUME at = 2 PROVE PrintfInv'
  <2>1. said = <<"a">> /\ args = Arguments(directive) \o << 7 >>
    BY <1>1, <1>3, <1>8 DEF Progress, A
  <2>2. Parsed(f, directive)
    <3>1. f = Evaluated(3)
      BY <1>8 DEF f
    <3> QED
      BY <1>3, <2>1, <3>1, FirstEvaluated
  <2>3. f.at = A + 1 /\ f.args = << 7 >>
    BY <2>2 DEF Parsed, Evaluation, A
  <2>4. /\ chars \in Seq(Chars) /\ (directive.conv # "c" => chars \in Seq(Visible))
        /\ f.conv \in IntegerConversions \cup {"p"} /\ TakesArgument(f) =>
             InBuf(NtoaLong(Sized(f)))
    <3>1. STRING \cup Chars = Chars
      BY DEF Chars
    <3> QED
      BY <1>3, <2>2, <3>1, ConvertedType DEF chars
  <2>5. Sending' /\ Filling'
    BY <1>1, <1>2, <1>3, <1>6, <2>4, OutKeeps
  <2>6. InBuf(ntoa')
    BY <1>1, <1>2, <2>4
  <2>7. Judged(directive) => said' = <<"a">> \o CText(directive)
    <3>1. Judged(directive) => chars = CText(directive)
      BY <1>3, <2>2, TextIsC DEF Judged, chars
    <3> QED
      BY <1>7, <2>1, <3>1
  <2>8. Progress'
    BY <1>2, <1>3, <1>4, <2>3, <2>7 DEF Progress, A
  <2>9. at' # A' + 4
    BY <1>2, <1>3, <1>4, <2>3
  <2> QED
    BY <2>5, <2>6, <2>8, <2>9 DEF PrintfInv, A
<1>9. ASSUME at = A + 1 PROVE PrintfInv'
  <2>1. args = << 7 >> /\ (Judged(directive) => said = <<"a">> \o CText(directive))
    <3>1. A + 1 # 1 /\ A + 1 # 2 /\ A + 1 \notin {A + 3, A + 4}
      BY <1>3
    <3> QED
      BY <1>1, <1>9, <3>1 DEF Progress, A
  <2>2. Evaluation(f, A + 3, <<>>, {}, 0, FALSE, 0, "none") /\ f.conv = "i" /\ f.arg = 7
    <3>1. f = Evaluated(ConvAt(directive) + 2)
      <4>1. at + 1 = A + 2
        BY <1>3, <1>9
      <4> QED
        BY <4>1 DEF f, A
    <3> QED
      BY <1>3, <2>1, <3>1, SecondEvaluated DEF A
  <2>3. f.at = A + 3 /\ f.args = <<>>
    BY <2>2 DEF Evaluation
  <2>4. chars = <<"7">> /\ InBuf(NtoaLong(Sized(f)))
    BY <2>2, SevenPrinted DEF chars
  <2>5. chars \in Seq(Visible) /\ chars \in Seq(Chars)
    <3>1. LowerDigits[8] = "7" /\ 8 \in 1 .. 16
      BY DEF LowerDigits
    <3>2. "7" \in Visible /\ "7" \in Chars
      BY <3>1 DEF Visible, Chars
    <3> QED
      BY <2>4, <3>2
  <2>6. Sending' /\ Filling'
    BY <1>1, <1>2, <1>3, <1>6, <2>5, OutKeeps
  <2>7. InBuf(ntoa')
    BY <1>1, <1>2, <2>4
  <2>8. Judged(directive) => said' = (<<"a">> \o CText(directive)) \o <<"7">>
    BY <1>7, <2>1, <2>4
  <2>9. Progress'
    BY <1>2, <1>3, <1>4, <2>3, <2>8 DEF Progress, A
  <2>10. at' # A' + 4
    BY <1>2, <1>3, <1>4, <2>3
  <2> QED
    BY <2>6, <2>7, <2>9, <2>10 DEF PrintfInv, A
<1> QED
  BY <1>5, <1>8, <1>9

\* The NUL.
LEMMA TerminateKeeps == PrintfInv /\ Terminate => PrintfInv'
<1> SUFFICES ASSUME PrintfInv, Terminate PROVE PrintfInv'
  OBVIOUS
<1> DEFINE A == ConvAt(directive)
<1>1. Progress /\ Sending /\ InBuf(ntoa) /\ IF at = A + 4 THEN Ended ELSE Filling
  BY DEF PrintfInv
<1>2. /\ at = Len(format) + 1 /\ at' = at + 1
      /\ buffer' = IF out = "_out_buffer" /\ maxlen > 0
                   THEN [buffer EXCEPT ![Min({idx, maxlen - 1})] = "NUL"] ELSE buffer
      /\ directive' = directive /\ format' = format /\ args' = args /\ out' = out
      /\ maxlen' = maxlen /\ idx' = idx /\ ntoa' = ntoa /\ said' = said /\ sent' = sent
  BY DEF Terminate
<1>3. /\ Len(format) = A + 2 /\ A \in Nat /\ A >= 3 /\ at \in {1, 2, A + 1, A + 3, A + 4}
      /\ format = Written(directive) /\ directive \in Directives /\ maxlen \in 0 .. Capacity
  BY <1>1, Places
<1>4. A' = A
  BY <1>2 DEF ConvAt, LengthAt, PrecAt, WidthAt, FlagChars, WidthChars, PrecChars, PrecDigits
<1> HIDE DEF A
<1>5. at = A + 3 /\ at' = A + 4 /\ at' = A' + 4 /\ at # A + 4
  BY <1>2, <1>3, <1>4
<1>6. args = <<>> /\ (Judged(directive) => said = (<<"a">> \o CText(directive)) \o <<"7">>)
  <2>1. at # 1 /\ at # 2 /\ at # A + 1
    BY <1>3, <1>5
  <2> QED
    BY <1>1, <2>1 DEF Progress, A
<1>7. Progress'
  BY <1>2, <1>3, <1>4, <1>5, <1>6 DEF Progress, A
<1>8. Sending'
  BY <1>1, <1>2 DEF Sending
<1>9. ASSUME out = "_out_buffer"
      PROVE  LET kept == Min({Len(said), maxlen - 1})
             IN /\ \A n \in maxlen .. Capacity : buffer'[n] = "?"
                /\ maxlen > 0 => /\ \A n \in 0 .. kept - 1 : buffer'[n] = said[n + 1]
                                 /\ buffer'[kept] = "NUL"
  <2> DEFINE kept == Min({Len(said), maxlen - 1})
  <2>1. /\ DOMAIN buffer = 0 .. Capacity /\ Len(said) \in Nat /\ idx = Len(said)
        /\ Capacity \in Nat /\ maxlen \in Nat /\ maxlen <= Capacity
        /\ \A n \in 0 .. Capacity :
             buffer[n] = IF n < maxlen /\ n < Len(said) THEN said[n + 1] ELSE "?"
    BY <1>1, <1>3, <1>5, <1>9, Sizes DEF Filling, Sending
  <2>2. kept = IF Len(said) <= maxlen - 1 THEN Len(said) ELSE maxlen - 1
    <3>1. maxlen - 1 \in Int
      BY <2>1
    <3> QED
      BY <2>1, <3>1, MinOfTwo
  <2>3. buffer' = IF maxlen > 0 THEN [buffer EXCEPT ![kept] = "NUL"] ELSE buffer
    BY <1>2, <1>9, <2>1
  <2> HIDE DEF kept
  <2>4. maxlen > 0 => kept \in 0 .. maxlen - 1 /\ kept <= Len(said)
    BY <2>1, <2>2
  <2>5. ASSUME NEW n \in maxlen .. Capacity PROVE buffer'[n] = "?"
    <3>1. n \in 0 .. Capacity /\ ~(n < maxlen)
      BY <2>1
    <3>2. maxlen > 0 => n # kept
      BY <2>1, <2>4, <3>1
    <3> QED
      BY <2>1, <2>3, <3>1, <3>2
  <2>6. ASSUME maxlen > 0, NEW n \in 0 .. kept - 1 PROVE buffer'[n] = said[n + 1]
    <3>1. n \in 0 .. Capacity /\ n < maxlen /\ n < Len(said) /\ n # kept
      BY <2>1, <2>4, <2>6
    <3> QED
      BY <2>1, <2>3, <2>6, <3>1
  <2>7. maxlen > 0 => buffer'[kept] = "NUL"
    <3>1. maxlen > 0 => kept \in 0 .. Capacity
      BY <2>1, <2>4
    <3> QED
      BY <2>1, <2>3, <3>1
  <2> QED
    BY <2>5, <2>6, <2>7 DEF kept
<1>10. Ended'
  BY <1>2, <1>9 DEF Ended
<1> QED
  BY <1>1, <1>2, <1>5, <1>7, <1>8, <1>10 DEF PrintfInv, A

\* Every step keeps the invariant.
LEMMA PrintfNextInv == PrintfInv /\ [PrintfNext]_printfVars => PrintfInv'
<1>1. CASE PrintfNext
  BY <1>1, LiteralKeeps, DirectiveKeeps, TerminateKeeps DEF PrintfNext
<1>2. ASSUME PrintfInv, UNCHANGED printfVars PROVE PrintfInv'
  <2>1. ConvAt(directive)' = ConvAt(directive)
    BY <1>2 DEF printfVars, ConvAt, LengthAt, PrecAt, WidthAt, FlagChars, WidthChars,
              PrecChars, PrecDigits
  <2> QED
    BY <1>2, <2>1 DEF PrintfInv, Progress, Sending, Filling, Ended, printfVars, ConvAt,
       LengthAt, PrecAt, WidthAt, FlagChars, WidthChars, PrecChars, PrecDigits
<1> QED
  BY <1>1, <1>2

\* The invariant of a call.
THEOREM PrintfInvAlways == PrintfSpec => []PrintfInv
BY PrintfInitInv, PrintfNextInv, PTL DEF PrintfSpec

\* Whatever flags, width and precision an integer is printed with, and however wide
\* int is, its conversion stays inside its buffer.
THEOREM BufferHoldsAlways == PrintfSpec => []BufferHolds
<1>1. PrintfInv => BufferHolds
  BY DEF PrintfInv, InBuf, BufferHolds
<1> QED
  BY <1>1, PrintfInvAlways, PTL

\* What snprintf returns is the length of the whole text, nothing is written behind the
\* buffer, and a NUL ends what is in it, for every buffer and every text.
THEOREM SnprintfKeepsItsPromiseAlways == PrintfSpec => []SnprintfKeepsItsPromise
<1>1. PrintfInv => SnprintfKeepsItsPromise
  <2> SUFFICES ASSUME PrintfInv, at = Len(format) + 2, out = "_out_buffer"
               PROVE  LET kept == Min({Len(said), maxlen - 1})
                      IN /\ idx = Len(said)
                         /\ \A n \in maxlen .. Capacity : buffer[n] = "?"
                         /\ maxlen > 0 => /\ \A n \in 0 .. kept - 1 : buffer[n] = said[n + 1]
                                          /\ buffer[kept] = "NUL"
    BY DEF SnprintfKeepsItsPromise
  <2>1. Progress /\ Sending /\ IF at = ConvAt(directive) + 4 THEN Ended ELSE Filling
    BY DEF PrintfInv
  <2>2. at = ConvAt(directive) + 4
    <3>1. Len(format) = ConvAt(directive) + 2 /\ ConvAt(directive) \in Nat
      BY <2>1, Places
    <3> QED
      BY <3>1
  <2> QED
    BY <2>1, <2>2 DEF Ended, Sending
<1> QED
  BY <1>1, PrintfInvAlways, PTL

\* Plain directives print what C says, take the arguments that are theirs and leave the
\* next one to the next directive, whatever the widths of the integers are, and the
\* size of the conversion buffer.
THEOREM PrintsAsCAlways == PrintfSpec => []PrintsAsC
<1>1. PrintfInv => PrintsAsC
  <2> SUFFICES ASSUME PrintfInv, at = Len(format) + 2, Plain(directive),
                      directive.conv \in {"d", "i", "u", "x", "X", "o", "s", "%"}
               PROVE  /\ said = <<"a">> \o CText(directive) \o <<"7">>
                      /\ out \in {"_out_char", "_out_fct"} => sent = said
    BY DEF PrintsAsC
  <2>1. Progress /\ Sending
    BY DEF PrintfInv
  <2>2. at = ConvAt(directive) + 4 /\ at # 1 /\ at # 2 /\ at # ConvAt(directive) + 1
    <3>1. Len(format) = ConvAt(directive) + 2 /\ ConvAt(directive) \in Nat
      BY <2>1, Places
    <3> QED
      BY <3>1
  <2>3. Judged(directive)
    BY DEF Judged, CIntegers
  <2> QED
    BY <2>1, <2>2, <2>3 DEF Progress, Sending
<1> QED
  BY <1>1, PrintfInvAlways, PTL
=============================================================================
