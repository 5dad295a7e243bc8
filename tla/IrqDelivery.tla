---------------------------- MODULE IrqDelivery ----------------------------
(***************************************************************************)
(* What Linux counts on from the interrupt controller, without CSRs, levels *)
(* or traps: device interrupts are served one at a time behind a gate, only *)
(* for lines that are requested, and a timer that is armed stays armed      *)
(* until it fires, which it does only with the gate open.                   *)
(***************************************************************************)
CONSTANTS
  Irq,      \* lines that drivers can request
  Foreign,  \* lines that interrupt although nobody can request them
  Parent    \* the interrupts of the hart itself

VARIABLES
  line,     \* lines asserted now
  started,  \* lines a driver has requested
  armed,    \* parent interrupts that are to fire
  closed,   \* the gate: an external interrupt is being handled
  serving   \* the line whose device is being served (at most one)

vars == <<line, started, armed, closed, serving>>

Init == /\ line = {}
        /\ started = {}
        /\ armed = {}
        /\ ~closed
        /\ serving = {}

Lines(new) == line' = new /\ UNCHANGED <<started, armed, closed, serving>>

Raise(h) == h \notin line /\ Lines(line \cup {h})
Drop(h) == h \in line /\ Lines(line \ {h})

\* Nobody requests or releases a line while one is served.
Request(h) == /\ ~closed
              /\ \/ h \notin started /\ started' = started \cup {h}
                 \/ h \in started /\ started' = started \ {h}
              /\ UNCHANGED <<line, armed, closed, serving>>

Arm(p) == /\ armed' = armed \cup {p}
          /\ UNCHANGED <<line, started, closed, serving>>

Fire(p) == /\ ~closed
           /\ p \in armed
           /\ armed' = armed \ {p}
           /\ UNCHANGED <<line, started, closed, serving>>

Close == /\ ~closed
         /\ line \cap (started \cup Foreign) # {}
         /\ closed' = TRUE
         /\ UNCHANGED <<line, started, armed, serving>>

Begin(h) == /\ closed
            /\ serving = {}
            /\ h \in line \cap started
            /\ serving' = {h}
            /\ UNCHANGED <<line, started, armed, closed>>

Finish == /\ serving # {}
          /\ line' = line \ serving
          /\ serving' = {}
          /\ UNCHANGED <<started, armed, closed>>

Open == /\ closed
        /\ serving = {}
        /\ closed' = FALSE
        /\ UNCHANGED <<line, started, armed, serving>>

Next == \/ \E h \in Irq \cup Foreign : Raise(h) \/ Drop(h)
        \/ \E h \in Irq : Request(h) \/ Begin(h)
        \/ \E p \in Parent : Arm(p) \/ Fire(p)
        \/ Close \/ Finish \/ Open

Spec == Init /\ [][Next]_vars
=============================================================================
