---------------------------- MODULE SimpleIntc ----------------------------
(***************************************************************************)
(* The "generic,simple-intc" interrupt controller driver the repository    *)
(* adds to Linux (patches 0005 and 0006), on the one hart Linux runs on.   *)
(*                                                                         *)
(* The driver programs three CSRs of the RP2350's Hazard3 cores: MEIEA (an *)
(* array of enable bits behind a 16-bit window), MEINEXT (the next irq to  *)
(* handle) and MEICONTEXT (a stack of preemption levels that the hardware  *)
(* pushes on an external interrupt and pops on mret).  Any other trap      *)
(* clears the bit that makes mret pop: the emulation of an atomic          *)
(* instruction (patch 0002) is such a trap, and so is the timer interrupt. *)
(* The driver therefore pops the stack itself.                             *)
(*                                                                         *)
(* Code runs in a stack of contexts: the task (depth 0), the trap that     *)
(* interrupted it, an interrupt nested in the softirqs of that trap, and   *)
(* on top of any of these an exception that emulates an instruction.       *)
(***************************************************************************)
EXTENDS Integers

CONSTANTS
  Irq,       \* hwirq numbers that the driver's irq_domain maps
  Stale,     \* lines an earlier boot stage left enabled, which Linux does not map
  Parent,    \* the hart's own interrupts: MTIE (and MSIE) bits of the mie CSR
  MaxAssert  \* bound: how many times each line is asserted in a behaviour

MAX_IRQ_NUM == 512

ASSUME IrqAssumption == /\ Irq \subseteq 0 .. MAX_IRQ_NUM - 1
                        /\ Stale \subseteq 0 .. MAX_IRQ_NUM - 1
                        /\ Irq \cap Stale = {}
ASSUME MaxAssertAssumption == MaxAssert \in Nat

VARIABLES
  meicontext,  \* CSR: levels preempt, ppreempt, pppreempt and mreteirq (bit 0)
  meiea,       \* CSR: the set of <<window, bit>> that are enabled
  mie,         \* CSR: the parent interrupts that are enabled
  mstatusMIE,  \* CSR: interrupts are globally enabled
  line,        \* device lines asserted now (level triggered)
  asserted,    \* how many times each line was asserted
  started,     \* irqs requested by a driver (irq_startup, not yet irq_shutdown)
  depth,       \* number of trap frames on the kernel stack
  frame        \* the trap frames, frame[depth] on top

csrs == <<meicontext, meiea, mie, mstatusMIE>>
devices == <<line, asserted, started>>
vars == <<csrs, devices, depth, frame>>

Lines == Irq \cup Stale
MaxDepth == 3            \* an invariant (NestBound), not a bound of the model
None == -1               \* no irq in service

\* The driver never writes MEIPRA, so every line has the reset priority.
Prio == 0

-----------------------------------------------------------------------------
(* Operators                                                               *)

\* Mutant: the window index is left out.
EnableBit_NoWindow(h) == <<0, h % 16>>

\* index | (mask << 16): the window a hwirq lives in and its bit there.
EnableBit(h) == <<h \div 16, h % 16>>

\* Lines that are asserted and enabled.
Eligible == {h \in line : EnableBit(h) \in meiea}

\* Mutant: the loop polls pending lines, enabled or not.
MeiNextNoIrq_Pending == line = {}

\* csr_read(CSR_MEINEXT) >= 0 and gives h: the lowest eligible line, unless
\* the priority is below the level the current handler interrupted.
MeiNext(h) == /\ Prio >= meicontext.ppreempt
              /\ h \in Eligible
              /\ \A g \in Eligible : h <= g
MeiNextNoIrq == Prio < meicontext.ppreempt \/ Eligible = {}

Level == 0 .. 16
MeiContext == [pppreempt : Level, ppreempt : Level, preempt : Level,
               mreteirq : BOOLEAN]
ResetContext == [pppreempt |-> 0, ppreempt |-> 0, preempt |-> 0,
                 mreteirq |-> FALSE]

Frame == [kind : {"none", "ext", "parent", "exc"},
          pc : {"entry", "loop", "masked", "served", "restore",
                "irqexit", "softirq", "mret"},
          irq : Lines \cup Parent \cup {None},
          mpie : BOOLEAN,
          saved : [context : MeiContext, parent : SUBSET Parent]]

NoSaved == [context |-> ResetContext, parent |-> {}]
NewFrame(kind, pc, irq, mpie) ==
  [kind |-> kind, pc |-> pc, irq |-> irq, mpie |-> mpie, saved |-> NoSaved]
NoFrame == NewFrame("none", "mret", None, FALSE)

Top == frame[depth]
At(kind, pc) == depth > 0 /\ Top.kind = kind /\ Top.pc = pc
Goto(pc) == frame' = [frame EXCEPT ![depth].pc = pc]

-----------------------------------------------------------------------------
(* Hardware: traps and mret                                                *)

Push(f) == /\ depth' = depth + 1
           /\ frame' = [frame EXCEPT ![depth + 1] = f]
           /\ mstatusMIE' = FALSE

\* An external interrupt is pending if its priority reaches the preemption level.
ExternalPending == Eligible # {} /\ Prio >= meicontext.preempt

\* When it is delivered the hardware pushes the level stack and arms its pop.
TakeExternal ==
  /\ mstatusMIE
  /\ ExternalPending
  /\ Push(NewFrame("ext", "entry", None, mstatusMIE))
  /\ meicontext' = [pppreempt |-> meicontext.ppreempt,
                    ppreempt |-> meicontext.preempt,
                    preempt |-> Prio + 1,
                    mreteirq |-> TRUE]
  /\ UNCHANGED <<meiea, mie, devices>>

\* A timer (or software) interrupt, which gives way to an external one.  Like
\* every other trap it clears mreteirq.
TakeParent(p) ==
  /\ mstatusMIE
  /\ ~ExternalPending
  /\ p \in mie
  /\ Push(NewFrame("parent", "entry", p, mstatusMIE))
  /\ meicontext' = [meicontext EXCEPT !.mreteirq = FALSE]
  /\ UNCHANGED <<meiea, mie, devices>>

\* An atomic instruction in PSRAM faults; do_trap_error emulates it.  It can
\* be anywhere in the kernel's C code, with interrupts on or off, but not in
\* the emulation itself nor in the assembly that ends with mret.
TakeException ==
  /\ depth > 0 => Top.kind # "exc" /\ Top.pc # "mret"
  /\ Push(NewFrame("exc", "mret", None, mstatusMIE))
  /\ meicontext' = [meicontext EXCEPT !.mreteirq = FALSE]
  /\ UNCHANGED <<meiea, mie, devices>>

\* mret pops the preemption levels only if mreteirq is still set.
Mret ==
  /\ depth > 0
  /\ Top.pc = "mret"
  /\ mstatusMIE' = Top.mpie
  /\ depth' = depth - 1
  /\ frame' = [frame EXCEPT ![depth] = NoFrame]
  /\ meicontext' =
       IF meicontext.mreteirq
       THEN [pppreempt |-> 0, ppreempt |-> meicontext.pppreempt,
             preempt |-> meicontext.ppreempt, mreteirq |-> FALSE]
       ELSE meicontext
  /\ UNCHANGED <<meiea, mie, devices>>

-----------------------------------------------------------------------------
(* The driver                                                              *)

\* simple_intc_irq_handler: csr_read_set(CSR_MEICONTEXT, 0x02) saves the
\* levels and the parent enables, and clears the parent enables.
SaveContext ==
  /\ At("ext", "entry")
  /\ frame' = [frame EXCEPT ![depth].pc = "loop",
                            ![depth].saved = [context |-> meicontext,
                                              parent |-> mie]]
  /\ mie' = {}
  /\ UNCHANGED <<meicontext, meiea, mstatusMIE, devices, depth>>

\* The while loop reads MEINEXT; handle_level_irq first masks the irq
\* (simple_intc_mask).  A hwirq the domain does not map is left as it is.
Dispatch ==
  /\ At("ext", "loop")
  /\ \E h \in Irq :
       /\ MeiNext(h)
       /\ meiea' = meiea \ {EnableBit(h)}
       /\ frame' = [frame EXCEPT ![depth].pc = "masked", ![depth].irq = h]
  /\ UNCHANGED <<meicontext, mie, mstatusMIE, devices, depth>>

\* The device's own handler: it deals with the cause and the line drops.
ServiceDevice ==
  /\ At("ext", "masked")
  /\ line' = line \ {Top.irq}
  /\ Goto("served")
  /\ UNCHANGED <<csrs, asserted, started, depth>>

\* Mutant: the irq stays masked.
Unmask_Never ==
  /\ At("ext", "served")
  /\ frame' = [frame EXCEPT ![depth].pc = "loop", ![depth].irq = None]
  /\ UNCHANGED <<csrs, devices, depth>>

\* handle_level_irq ends with simple_intc_unmask.
Unmask ==
  /\ At("ext", "served")
  /\ meiea' = meiea \cup {EnableBit(Top.irq)}
  /\ frame' = [frame EXCEPT ![depth].pc = "loop", ![depth].irq = None]
  /\ UNCHANGED <<meicontext, mie, mstatusMIE, devices, depth>>

\* MEINEXT.noirq (the sign bit) ends the while loop.
LoopEnd ==
  /\ At("ext", "loop")
  /\ MeiNextNoIrq
  /\ Goto("restore")
  /\ UNCHANGED <<csrs, devices, depth>>

\* Mutant: the write that the driver keeps as a comment, which leaves the pop
\* to mret.
RestoredContext_LeftToMret(saved) == saved

\* csr_write(CSR_MEICONTEXT, ppreempt | preempt | parentirq): the saved levels
\* shifted down by one, mreteirq 0, and the saved parent enables ORed into mie.
RestoredContext(saved) == [pppreempt |-> 0,
                           ppreempt |-> saved.pppreempt,
                           preempt |-> saved.ppreempt,
                           mreteirq |-> FALSE]

\* Mutant: the parent enables are not written back.
RestoreContext_NoParent ==
  /\ At("ext", "restore")
  /\ meicontext' = RestoredContext(Top.saved.context)
  /\ Goto("irqexit")
  /\ UNCHANGED <<meiea, mie, mstatusMIE, devices, depth>>

RestoreContext ==
  /\ At("ext", "restore")
  /\ meicontext' = RestoredContext(Top.saved.context)
  /\ mie' = mie \cup Top.saved.parent
  /\ Goto("irqexit")
  /\ UNCHANGED <<meiea, mstatusMIE, devices, depth>>

-----------------------------------------------------------------------------
(* The rest of the kernel, as the driver relies on it                      *)

\* clint_timer_interrupt clears the parent enable of the interrupt it serves.
RunParent ==
  /\ At("parent", "entry")
  /\ mie' = mie \ {Top.irq}
  /\ Goto("irqexit")
  /\ UNCHANGED <<meicontext, meiea, mstatusMIE, devices, depth>>

\* clint_clock_next_event sets it again; a task, a softirq, the timer's own
\* event handler or a device handler may program the timer.
Arm(p) ==
  /\ \/ depth = 0
     \/ At("ext", "masked")
     \/ depth > 0 /\ Top.kind = "parent" /\ Top.pc = "irqexit"
     \/ depth > 0 /\ Top.pc = "softirq"
  /\ mie' = mie \cup {p}
  /\ UNCHANGED <<meicontext, meiea, mstatusMIE, devices, depth, frame>>

\* Mutant: softirqs also run when a nested interrupt leaves.
SoftirqStart_Nested ==
  /\ depth > 0
  /\ Top.pc = "irqexit"
  /\ mstatusMIE' = TRUE
  /\ Goto("softirq")
  /\ UNCHANGED <<meicontext, meiea, mie, devices, depth>>

\* irq_exit: softirqs run, with interrupts enabled, when the last interrupt
\* leaves; an interrupt nested in softirqs returns at once.
SoftirqStart ==
  /\ depth = 1
  /\ Top.pc = "irqexit"
  /\ mstatusMIE' = TRUE
  /\ Goto("softirq")
  /\ UNCHANGED <<meicontext, meiea, mie, devices, depth>>

SoftirqEnd ==
  /\ depth > 0
  /\ Top.pc = "softirq"
  /\ mstatusMIE' = FALSE
  /\ Goto("mret")
  /\ UNCHANGED <<meicontext, meiea, mie, devices, depth>>

IrqReturn ==
  /\ depth > 0
  /\ Top.pc = "irqexit"
  /\ Goto("mret")
  /\ UNCHANGED <<csrs, devices, depth>>

\* Sections of task code that run with interrupts off.
LocalIrqDisable ==
  /\ depth = 0
  /\ mstatusMIE
  /\ mstatusMIE' = FALSE
  /\ UNCHANGED <<meicontext, meiea, mie, devices, depth, frame>>

LocalIrqEnable ==
  /\ depth = 0
  /\ ~mstatusMIE
  /\ mstatusMIE' = TRUE
  /\ UNCHANGED <<meicontext, meiea, mie, devices, depth, frame>>

\* request_irq and free_irq, in task context under the descriptor's lock.
IrqStartup(h) ==
  /\ depth = 0
  /\ h \notin started
  /\ started' = started \cup {h}
  /\ meiea' = meiea \cup {EnableBit(h)}
  /\ UNCHANGED <<meicontext, mie, mstatusMIE, line, asserted, depth, frame>>

IrqShutdown(h) ==
  /\ depth = 0
  /\ h \in started
  /\ started' = started \ {h}
  /\ meiea' = meiea \ {EnableBit(h)}
  /\ UNCHANGED <<meicontext, mie, mstatusMIE, line, asserted, depth, frame>>

\* The devices: a line rises at any time, and may drop without being served.
Assert(h) ==
  /\ h \notin line
  /\ asserted[h] < MaxAssert
  /\ line' = line \cup {h}
  /\ asserted' = [asserted EXCEPT ![h] = @ + 1]
  /\ UNCHANGED <<csrs, started, depth, frame>>

Drop(h) ==
  /\ h \in line
  /\ line' = line \ {h}
  /\ UNCHANGED <<csrs, asserted, started, depth, frame>>

-----------------------------------------------------------------------------
(* The specification                                                       *)

Init ==
  /\ meicontext = ResetContext
  /\ meiea = {EnableBit(h) : h \in Stale}
  /\ mie = {}
  /\ mstatusMIE = TRUE
  /\ line = {}
  /\ asserted = [h \in Lines |-> 0]
  /\ started = {}
  /\ depth = 0
  /\ frame = [i \in 1 .. MaxDepth |-> NoFrame]

Software == \/ SaveContext \/ Dispatch \/ ServiceDevice \/ Unmask
            \/ LoopEnd \/ RestoreContext \/ RunParent \/ IrqReturn \/ Mret

Next == \/ TakeExternal
        \/ \E p \in Parent : TakeParent(p)
        \/ TakeException
        \/ Software
        \/ SoftirqStart
        \/ SoftirqEnd
        \/ LocalIrqDisable
        \/ LocalIrqEnable
        \/ \E p \in Parent : Arm(p)
        \/ \E h \in Irq : IrqStartup(h) \/ IrqShutdown(h)
        \/ \E h \in Lines : Assert(h) \/ Drop(h)

Spec == Init /\ [][Next]_vars

\* The hart executes instructions: an emulated one is skipped (epc += 4), so
\* exceptions do not keep the code below them from advancing; softirqs are
\* bounded and irq-off sections end; an interrupt that is enabled again and
\* again is taken, because the hart samples it at every instruction.
Fairness == /\ SF_vars(Software /\ Top.kind # "exc")
            /\ WF_vars(Mret)
            /\ SF_vars(SoftirqEnd)
            /\ SF_vars(LocalIrqEnable)
            /\ SF_vars(TakeExternal)
            /\ \A p \in Parent : SF_vars(TakeParent(p))

FairSpec == Spec /\ Fairness

-----------------------------------------------------------------------------
(* Properties                                                              *)

\* The external handler's frame while the levels it must pop are pushed.
OpenPC == {"entry", "loop", "masked", "served", "restore"}
Open(i) == frame[i].kind = "ext" /\ frame[i].pc \in OpenPC
InService(h) == \E i \in 1 .. depth : frame[i].pc \in {"masked", "served"}
                                      /\ frame[i].irq = h

\* The parent interrupts the kernel believes are enabled: those in mie, and
\* those the running handler took out of mie and still has to put back.
Armed == mie \cup UNION {frame[i].saved.parent :
                           i \in {j \in 1 .. depth : Open(j)}}

\* Every variable stays in its range: in particular traps nest at most three
\* deep (interrupt, interrupt in its softirqs, emulated instruction).
TypeOK ==
  /\ meicontext \in MeiContext
  /\ meiea \in SUBSET {EnableBit(h) : h \in Lines}
  /\ mie \in SUBSET Parent
  /\ mstatusMIE \in BOOLEAN
  /\ line \in SUBSET Lines
  /\ asserted \in [Lines -> Nat]
  /\ started \in SUBSET Irq
  /\ depth \in 0 .. MaxDepth
  /\ frame \in [1 .. MaxDepth -> Frame]

\* Whatever traps were taken between the handler and its mret, the preemption
\* level is back at 0 whenever the kernel runs with interrupts enabled: no
\* enabled line is held back by a level nobody will pop.
GateOpen == mstatusMIE => meicontext.preempt <= Prio

\* A line is enabled in MEIEA exactly while a driver has requested it and no
\* handler has it masked: the window arithmetic never touches another line.
MaskDiscipline ==
  \A h \in Irq : EnableBit(h) \in meiea <=> h \in started /\ ~InService(h)

\* A requested line that rises is served, or drops, or is released.
IrqServed ==
  \A h \in Irq : (h \in line /\ h \in started) ~> (h \notin line \/ h \notin started)

\* A timer that is armed fires, although every external interrupt takes the
\* timer's enable bit away for a while.
TimerFires ==
  \A p \in Parent : p \in Armed ~> (At("parent", "entry") /\ Top.irq = p)

\* The while loop of the handler ends: interrupted code always runs again.
HandlerReturns == (depth > 0) ~> (depth = 0)

\* The line whose device's handler is running.
Serving == {h \in Irq : \E i \in 1 .. depth : frame[i].pc = "masked" /\ frame[i].irq = h}

\* The code implements the delivery of interrupts that Linux counts on.
Delivery == INSTANCE IrqDelivery
              WITH Foreign <- Stale,
                   armed <- Armed,
                   closed <- meicontext.preempt > Prio,
                   serving <- Serving
DeliverySpec == Delivery!Spec
=============================================================================
