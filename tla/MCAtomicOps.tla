---------------------------- MODULE MCAtomicOps ----------------------------
(* TLC instances of AtomicOps: 2-bit words, every primitive, arguments on   *)
(* both sides of each primitive's branch and at the limits of the word.     *)
EXTENDS AtomicOps

AllOps == [kind : {"add_unless", "cmpxchg", "lrsc"}, old : {-2, 1}, new : {1}]
          \cup [kind : {"inc_unless_negative", "dec_unless_positive",
                        "dec_if_positive"}, old : {0}, new : {0}]
          \cup [kind : AmoKind, old : {0}, new : {-2}]
\* atomic_inc, but for one value.
Increments == {o \in AllOps : o.kind = "add_unless" /\ o.old = -2}
=============================================================================
