------------------------------- MODULE MemOps -------------------------------
(***************************************************************************)
(* The bootloader's own memcpy, memmove, memset and memcmp (string.c), byte *)
(* by byte as their loops go, over one memory.  The compiler also calls     *)
(* them, for the copies it makes.                                           *)
(***************************************************************************)
EXTENDS Integers

CONSTANTS
  Size,   \* bytes of memory
  Byte,   \* values of a byte that are told apart
  Val     \* arguments of memset, ints

ASSUME MemAssumption ==
  /\ Size \in Nat \ {0}
  /\ Byte \subseteq 0 .. 255
  /\ Val \subseteq Nat /\ \A v \in Val : v % 256 \in Byte

Addr == 0 .. Size - 1
Op == {"none", "memcpy", "memmove", "memset", "memcmp"}

VARIABLES
  pc,        \* "idle", or the loop that runs
  mem,
  d, s,      \* the two pointers
  len,       \* what is left
  result,    \* of memcmp
  call,      \* the last call: its function and arguments
  old        \* the memory when it was made

vars == <<pc, mem, d, s, len, result, call, old>>

-----------------------------------------------------------------------------

Fits(a, n) == a + n <= Size

\* What C asks of a call of memcpy.
Disjoint(dest, src, n) == dest + n <= src \/ src + n <= dest

Begin(op, dest, src, n, val) ==
  /\ pc = "idle"
  /\ Fits(dest, n) /\ Fits(src, n)
  /\ call' = [op |-> op, dest |-> dest, src |-> src, n |-> n, val |-> val]
  /\ old' = mem
  /\ len' = n
  /\ result' = 0
  /\ UNCHANGED mem

Memcpy(dest, src, n) ==
  /\ Disjoint(dest, src, n)
  /\ Begin("memcpy", dest, src, n, 0)
  /\ pc' = "up"
  /\ d' = dest /\ s' = src

\* Mutant: always up.
Memmove_Up(dest, src, n) ==
  /\ Begin("memmove", dest, src, n, 0)
  /\ pc' = "up"
  /\ d' = dest /\ s' = src

Memmove(dest, src, n) ==
  /\ Begin("memmove", dest, src, n, 0)
  /\ IF dest < src
     THEN pc' = "up" /\ d' = dest /\ s' = src
     ELSE pc' = "down" /\ d' = dest + (n - 1) /\ s' = src + (n - 1)

Memset(dest, val, n) ==
  /\ Begin("memset", dest, 0, n, val)
  /\ pc' = "set"
  /\ d' = dest /\ s' = 0

Memcmp(str1, str2, n) ==
  /\ Begin("memcmp", str1, str2, n, 0)
  /\ pc' = "cmp"
  /\ d' = str1 /\ s' = str2

-----------------------------------------------------------------------------

\* Mutant: one round too many.
CopyUp_DoWhile ==
  /\ pc = "up"
  /\ mem' = [mem EXCEPT ![d] = mem[s]]
  /\ d' = d + 1 /\ s' = s + 1 /\ len' = len - 1
  /\ UNCHANGED <<pc, result, call, old>>

\* *d++ = *s++
CopyUp ==
  /\ pc = "up" /\ len # 0
  /\ mem' = [mem EXCEPT ![d] = mem[s]]
  /\ d' = d + 1 /\ s' = s + 1 /\ len' = len - 1
  /\ UNCHANGED <<pc, result, call, old>>

\* *lastd-- = *lasts--
CopyDown ==
  /\ pc = "down" /\ len # 0
  /\ mem' = [mem EXCEPT ![d] = mem[s]]
  /\ d' = d - 1 /\ s' = s - 1 /\ len' = len - 1
  /\ UNCHANGED <<pc, result, call, old>>

\* Mutant: the pointer is advanced first.
Fill_Ahead ==
  /\ pc = "set" /\ len # 0
  /\ mem' = [mem EXCEPT ![(d + 1) % Size] = call.val % 256]
  /\ d' = d + 1 /\ len' = len - 1
  /\ UNCHANGED <<pc, s, result, call, old>>

\* *ptr++ = val, of which an unsigned char takes the low byte.
Fill ==
  /\ pc = "set" /\ len # 0
  /\ mem' = [mem EXCEPT ![d] = call.val % 256]
  /\ d' = d + 1 /\ len' = len - 1
  /\ UNCHANGED <<pc, s, result, call, old>>

\* Mutant: the bytes are compared as signed.
Signed(b) == IF b > 127 THEN b - 256 ELSE b
Differ_Signed ==
  /\ pc = "cmp" /\ len # 0
  /\ mem[d] # mem[s]
  /\ result' = IF Signed(mem[d]) < Signed(mem[s]) THEN -1 ELSE 1
  /\ d' = d + 1 /\ s' = s + 1 /\ len' = len - 1
  /\ pc' = "idle"
  /\ UNCHANGED <<mem, call, old>>

\* if (*s1++ != *s2++) return ...
Differ ==
  /\ pc = "cmp" /\ len # 0
  /\ mem[d] # mem[s]
  /\ result' = IF mem[d] < mem[s] THEN -1 ELSE 1
  /\ d' = d + 1 /\ s' = s + 1 /\ len' = len - 1
  /\ pc' = "idle"
  /\ UNCHANGED <<mem, call, old>>

Same ==
  /\ pc = "cmp" /\ len # 0
  /\ mem[d] = mem[s]
  /\ d' = d + 1 /\ s' = s + 1 /\ len' = len - 1
  /\ UNCHANGED <<pc, mem, result, call, old>>

\* while (len--) is over.
Return ==
  /\ pc # "idle" /\ len = 0
  /\ pc' = "idle"
  /\ UNCHANGED <<mem, d, s, len, result, call, old>>

Init ==
  /\ pc = "idle"
  /\ mem \in [Addr -> Byte]
  /\ d = 0 /\ s = 0 /\ len = 0 /\ result = 0
  /\ call = [op |-> "none", dest |-> 0, src |-> 0, n |-> 0, val |-> 0]
  /\ old = mem

Loop == CopyUp \/ CopyDown \/ Fill \/ Differ \/ Same \/ Return

Next == \/ \E a, b \in Addr, n \in 0 .. Size :
             \/ Memcpy(a, b, n) \/ Memmove(a, b, n) \/ Memcmp(a, b, n)
             \/ \E v \in Val : Memset(a, v, n)
        \/ Loop

Spec == Init /\ [][Next]_vars

-----------------------------------------------------------------------------
(* Properties                                                              *)

\* Memory holds bytes, the length that is left is never below 0, and memcmp gives
\* one of three signs.
TypeOK ==
  /\ pc \in {"idle", "up", "down", "set", "cmp"}
  /\ mem \in [Addr -> Byte] /\ old \in [Addr -> Byte]
  /\ d \in Int /\ s \in Int
  /\ len \in 0 .. Size
  /\ result \in {-1, 0, 1}
  /\ call \in [op : Op, dest : Addr, src : Addr, n : 0 .. Size, val : Val \cup {0}]

\* The memory in which the bytes of target have been taken from as far below or
\* above as src is from dest, and no other byte has been touched.
Moved(target) ==
  mem = [a \in Addr |-> IF a \in target THEN old[call.src + (a - call.dest)] ELSE old[a]]

\* The bytes a call is to write.
Target == call.dest .. call.dest + call.n - 1

\* memmove and memcpy have put the bytes that were at src, before the copy itself
\* overwrote any of them, at dest, and have touched no other byte.
MovesExactly ==
  pc = "idle" /\ call.op \in {"memcpy", "memmove"} => Moved(Target)

\* memset has written the low byte of val, in the n bytes of dest only.
FillsExactly ==
  pc = "idle" /\ call.op = "memset" =>
    mem = [a \in Addr |-> IF a \in Target THEN call.val % 256 ELSE old[a]]

\* memcmp has written nothing and gives the order of the first bytes that differ,
\* as unsigned.
ComparesFirstDifference ==
  LET differ == {i \in 0 .. call.n - 1 : old[call.dest + i] # old[call.src + i]}
  IN pc = "idle" /\ call.op = "memcmp" =>
       /\ mem = old
       /\ IF differ = {} THEN result = 0
          ELSE \E i \in differ : /\ \A j \in differ : i <= j
                                 /\ result = IF old[call.dest + i] < old[call.src + i]
                                             THEN -1 ELSE 1
=============================================================================
