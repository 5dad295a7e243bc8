------------------------- MODULE SimpleIntc_proofs -------------------------
(***************************************************************************)
(* Theorems about SimpleIntc, for every set of lines, every set of lines a  *)
(* boot stage left enabled, and any number of assertions.                   *)
(*                                                                         *)
(* GateOpen is not inductive: that the restored level is 0 depends on what  *)
(* the handler saved, and that on where in the stack of traps the handler   *)
(* was entered.  IInv adds the shape of that stack (Nesting), the levels    *)
(* that go with it (Levels) and the lines in service (Masking).             *)
(***************************************************************************)
EXTENDS SimpleIntc, TLAPS

\* Interrupts nest only in softirqs, emulation is always on top and ends with
\* mret, and interrupts are on only in a task or in the softirqs of depth 1.
Nesting ==
  /\ \A i \in 1 .. MaxDepth :
       /\ i <= depth <=> frame[i].kind # "none"
       /\ frame[i].kind = "none" => frame[i].pc = "mret"
       /\ frame[i].kind = "exc" =>
            /\ i = depth
            /\ frame[i].pc = "mret"
            /\ frame[i].mpie => \/ i = 1
                                \/ (i = 2 /\ frame[1].pc = "softirq")
       /\ frame[i].kind \in {"ext", "parent"} => frame[i].mpie
       /\ frame[i].pc = "softirq" => i = 1
       /\ frame[i].kind = "parent" => frame[i].pc \notin OpenPC \ {"entry"}
  /\ depth >= 2 /\ frame[2].kind # "exc" => frame[1].pc = "softirq"
  /\ depth = 3 => frame[3].kind = "exc"
  /\ mstatusMIE => depth = 0 \/ (depth = 1 /\ frame[1].pc = "softirq")

\* One level is pushed exactly while the handler has not restored it; what it
\* saved pops to level 0; and mret itself never finds mreteirq set.
Levels ==
  /\ meicontext.pppreempt = 0
  /\ meicontext.ppreempt = 0
  /\ meicontext.preempt \in {0, 1}
  /\ meicontext.preempt = 1 <=> \E i \in 1 .. MaxDepth : Open(i)
  /\ \A i \in 1 .. MaxDepth : /\ frame[i].saved.context.pppreempt = 0
                              /\ frame[i].saved.context.ppreempt = 0
  /\ meicontext.mreteirq => depth > 0 /\ Open(depth)

\* A line in service was requested and is masked.
Masking ==
  /\ \A i \in 1 .. MaxDepth :
       frame[i].pc \in {"masked", "served"} => frame[i].irq \in started
  /\ MaskDiscipline

\* What a frame keeps of the parent interrupts is what it took out of mie, and
\* a parent interrupt that was taken is still enabled when its handler starts.
Parents ==
  \A i \in 1 .. MaxDepth :
    /\ frame[i].kind = "ext" /\ frame[i].pc = "entry" => frame[i].saved.parent = {}
    /\ frame[i].kind = "parent" /\ frame[i].pc = "entry" => frame[i].irq \in mie

IInv == TypeOK /\ Nesting /\ Levels /\ Masking /\ Parents

-----------------------------------------------------------------------------
(* Lemmas                                                                  *)

\* Different lines have different bits: the window arithmetic loses nothing.
LEMMA EnableBitInjective ==
  \A g, h \in Lines : EnableBit(g) = EnableBit(h) => g = h
BY IrqAssumption DEF EnableBit, Lines, MAX_IRQ_NUM

\* A frame that a trap pushes is a frame.
LEMMA FrameType ==
  ASSUME NEW kind \in {"ext", "parent", "exc"}, NEW pc \in {"entry", "mret"},
         NEW irq \in Parent \cup {None}, NEW mpie \in BOOLEAN
  PROVE  NewFrame(kind, pc, irq, mpie) \in Frame
BY DEF NewFrame, NoSaved, ResetContext, Frame, MeiContext, Level

\* Pushing a frame keeps the stack well typed, as long as it has room.
LEMMA PushType ==
  ASSUME TypeOK, depth < MaxDepth, NEW f \in Frame, Push(f)
  PROVE  depth' \in 0 .. MaxDepth /\ frame' \in [1 .. MaxDepth -> Frame] /\ mstatusMIE' \in BOOLEAN
<1>1. depth + 1 \in 1 .. MaxDepth
  BY DEF TypeOK, MaxDepth
<1>2. frame' = [frame EXCEPT ![depth + 1] = f]
  BY DEF Push
<1>3. frame' \in [1 .. MaxDepth -> Frame]
  BY <1>1, <1>2 DEF TypeOK
<1>4. depth' \in 0 .. MaxDepth
  BY <1>1 DEF Push, MaxDepth
<1>5. mstatusMIE' \in BOOLEAN
  BY Zenon DEF Push
<1> QED
  BY <1>3, <1>4, <1>5

\* Every step keeps the types.
LEMMA TypeStep ==
  ASSUME IInv, [Next]_vars
  PROVE  TypeOK'
<1>1. CASE TakeExternal
  <2>1. depth < MaxDepth
    BY <1>1 DEF IInv, TypeOK, Nesting, TakeExternal, MaxDepth
  <2>2. depth' \in 0 .. MaxDepth /\ frame' \in [1 .. MaxDepth -> Frame]
        /\ mstatusMIE' \in BOOLEAN
    BY <1>1, <2>1, FrameType, PushType DEF IInv, TypeOK, TakeExternal
  <2>3. meicontext' \in MeiContext
    BY <1>1 DEF IInv, TypeOK, TakeExternal, MeiContext, Level, Prio
  <2> QED
    BY <1>1, <2>2, <2>3 DEF IInv, TypeOK, TakeExternal, csrs, devices
<1>2. CASE \E p \in Parent : TakeParent(p)
  <2> PICK p \in Parent : TakeParent(p)
    BY <1>2
  <2>1. depth < MaxDepth
    BY DEF IInv, TypeOK, Nesting, TakeParent, MaxDepth
  <2>2. depth' \in 0 .. MaxDepth /\ frame' \in [1 .. MaxDepth -> Frame]
        /\ mstatusMIE' \in BOOLEAN
    BY <2>1, FrameType, PushType DEF IInv, TypeOK, TakeParent
  <2>3. meicontext' \in MeiContext
    BY DEF IInv, TypeOK, TakeParent, MeiContext, Level, Prio
  <2> QED
    BY <2>2, <2>3 DEF IInv, TypeOK, TakeParent, csrs, devices
<1>3. CASE TakeException
  <2>1. depth < MaxDepth
    BY <1>3 DEF IInv, TypeOK, Nesting, TakeException, Top, MaxDepth
  <2>2. depth' \in 0 .. MaxDepth /\ frame' \in [1 .. MaxDepth -> Frame]
        /\ mstatusMIE' \in BOOLEAN
    BY <1>3, <2>1, FrameType, PushType DEF IInv, TypeOK, TakeException
  <2>3. meicontext' \in MeiContext
    BY <1>3 DEF IInv, TypeOK, TakeException, MeiContext, Level, Prio
  <2> QED
    BY <1>3, <2>2, <2>3 DEF IInv, TypeOK, TakeException, csrs, devices
<1>4. CASE SaveContext
  BY <1>4, IrqAssumption DEF IInv, TypeOK, Nesting, csrs, devices, MaxDepth,
     Frame, MeiContext, Level, Lines, Prio, None, SaveContext, At, Top
<1>5. CASE Dispatch
  BY <1>5, IrqAssumption DEF IInv, TypeOK, Nesting, csrs, devices, MaxDepth,
     Frame, MeiContext, Level, Lines, Prio, None, Dispatch, At, Top, MeiNext,
     Eligible
<1>6. CASE ServiceDevice
  BY <1>6, IrqAssumption DEF IInv, TypeOK, Nesting, csrs, devices, MaxDepth,
     Frame, MeiContext, Level, Lines, Prio, None, ServiceDevice, At, Top,
     Goto
<1>7. CASE Unmask
  <2>1. EnableBit(Top.irq) \in {EnableBit(h) : h \in Lines}
    BY <1>7 DEF IInv, TypeOK, Nesting, Masking, Unmask, At, Top, MaxDepth, Lines
  <2>2. frame' \in [1 .. MaxDepth -> Frame]
    BY <1>7 DEF IInv, TypeOK, Unmask, At, Top, MaxDepth, Frame, None
  <2> QED
    BY <1>7, <2>1, <2>2 DEF IInv, TypeOK, Unmask, devices
<1>8. CASE LoopEnd
  BY <1>8, IrqAssumption DEF IInv, TypeOK, Nesting, csrs, devices, MaxDepth,
     Frame, MeiContext, Level, Lines, Prio, None, LoopEnd, At, Top, Goto
<1>9. CASE RestoreContext
  BY <1>9, IrqAssumption DEF IInv, TypeOK, Nesting, csrs, devices, MaxDepth,
     Frame, MeiContext, Level, Lines, Prio, None, RestoreContext, At, Top,
     Goto, RestoredContext
<1>10. CASE RunParent
  BY <1>10, IrqAssumption DEF IInv, TypeOK, Nesting, csrs, devices, MaxDepth,
     Frame, MeiContext, Level, Lines, Prio, None, RunParent, At, Top, Goto
<1>11. CASE IrqReturn
  BY <1>11, IrqAssumption DEF IInv, TypeOK, Nesting, csrs, devices, MaxDepth,
     Frame, MeiContext, Level, Lines, Prio, None, IrqReturn, Top, Goto
<1>12. CASE Mret
  BY <1>12, IrqAssumption DEF IInv, TypeOK, Nesting, csrs, devices, MaxDepth,
     Frame, MeiContext, Level, Lines, Prio, None, Mret, Top, NoFrame,
     NewFrame, NoSaved, ResetContext
<1>13. CASE SoftirqStart
  BY <1>13, IrqAssumption DEF IInv, TypeOK, Nesting, csrs, devices, MaxDepth,
     Frame, MeiContext, Level, Lines, Prio, None, SoftirqStart, Top, Goto
<1>14. CASE SoftirqEnd
  <2>1. frame' \in [1 .. MaxDepth -> Frame]
    BY <1>14 DEF IInv, TypeOK, SoftirqEnd, Goto, MaxDepth, Frame
  <2> QED
    BY <1>14, <2>1 DEF IInv, TypeOK, SoftirqEnd, devices
<1>15. CASE LocalIrqDisable
  BY <1>15, IrqAssumption DEF IInv, TypeOK, Nesting, csrs, devices, MaxDepth,
     Frame, MeiContext, Level, Lines, Prio, None, LocalIrqDisable
<1>16. CASE LocalIrqEnable
  BY <1>16, IrqAssumption DEF IInv, TypeOK, Nesting, csrs, devices, MaxDepth,
     Frame, MeiContext, Level, Lines, Prio, None, LocalIrqEnable
<1>17. CASE \/ \E p \in Parent : Arm(p)
            \/ \E h \in Irq : IrqStartup(h)
            \/ \E h \in Irq : IrqShutdown(h)
            \/ \E h \in Lines : Assert(h)
            \/ \E h \in Lines : Drop(h)
            \/ UNCHANGED vars
  BY <1>17, IrqAssumption DEF IInv, TypeOK, Nesting, csrs, devices, MaxDepth,
     Frame, MeiContext, Level, Lines, Prio, None, Arm, IrqStartup,
     IrqShutdown, Assert, Drop, vars
<1> QED
  BY <1>1, <1>2, <1>3, <1>4, <1>5, <1>6, <1>7, <1>8, <1>9, <1>10, <1>11,
     <1>12, <1>13, <1>14, <1>15, <1>16, <1>17 DEF Next, Software

\* Every step keeps the shape of the stack.
LEMMA NestingStep ==
  ASSUME IInv, [Next]_vars
  PROVE  Nesting'
<1>1. CASE TakeExternal
  BY <1>1 DEF IInv, TypeOK, Nesting, csrs, devices, MaxDepth, Frame, OpenPC,
     TakeExternal, Push, NewFrame, NoSaved, ExternalPending
<1>2. CASE \E p \in Parent : TakeParent(p)
  BY <1>2 DEF IInv, TypeOK, Nesting, csrs, devices, MaxDepth, Frame, OpenPC,
     TakeParent, Push, NewFrame, NoSaved
<1>3. CASE TakeException
  BY <1>3 DEF IInv, TypeOK, Nesting, csrs, devices, MaxDepth, Frame, OpenPC,
     TakeException, Push, NewFrame, NoSaved, Top
<1>4. CASE SaveContext
  BY <1>4 DEF IInv, TypeOK, Nesting, csrs, devices, MaxDepth, Frame, OpenPC,
     SaveContext, At, Top
<1>5. CASE Dispatch
  BY <1>5 DEF IInv, TypeOK, Nesting, csrs, devices, MaxDepth, Frame, OpenPC,
     Dispatch, At, Top, MeiNext, Eligible
<1>6. CASE ServiceDevice
  BY <1>6 DEF IInv, TypeOK, Nesting, csrs, devices, MaxDepth, Frame, OpenPC,
     ServiceDevice, At, Top, Goto
<1>7. CASE Unmask
  BY <1>7 DEF IInv, TypeOK, Nesting, csrs, devices, MaxDepth, Frame, OpenPC,
     Unmask, At, Top
<1>8. CASE LoopEnd
  BY <1>8 DEF IInv, TypeOK, Nesting, csrs, devices, MaxDepth, Frame, OpenPC,
     LoopEnd, At, Top, Goto
<1>9. CASE RestoreContext
  BY <1>9 DEF IInv, TypeOK, Nesting, csrs, devices, MaxDepth, Frame, OpenPC,
     RestoreContext, At, Top, Goto, RestoredContext
<1>10. CASE RunParent
  BY <1>10 DEF IInv, TypeOK, Nesting, csrs, devices, MaxDepth, Frame, OpenPC,
     RunParent, At, Top, Goto
<1>11. CASE IrqReturn
  BY <1>11 DEF IInv, TypeOK, Nesting, csrs, devices, MaxDepth, Frame, OpenPC,
     IrqReturn, Top, Goto
<1>12. CASE Mret
  BY <1>12 DEF IInv, TypeOK, Nesting, csrs, devices, MaxDepth, Frame, OpenPC,
     Mret, Top, NoFrame, NewFrame, NoSaved, ResetContext
<1>13. CASE SoftirqStart
  BY <1>13 DEF IInv, TypeOK, Nesting, csrs, devices, MaxDepth, Frame, OpenPC,
     SoftirqStart, Top, Goto
<1>14. CASE SoftirqEnd
  BY <1>14 DEF IInv, TypeOK, Nesting, csrs, devices, MaxDepth, Frame, OpenPC,
     SoftirqEnd, Top, Goto
<1>15. CASE LocalIrqDisable
  BY <1>15 DEF IInv, TypeOK, Nesting, csrs, devices, MaxDepth, Frame, OpenPC,
     LocalIrqDisable
<1>16. CASE LocalIrqEnable
  BY <1>16 DEF IInv, TypeOK, Nesting, csrs, devices, MaxDepth, Frame, OpenPC,
     LocalIrqEnable
<1>17. CASE \/ \E p \in Parent : Arm(p)
            \/ \E h \in Irq : IrqStartup(h)
            \/ \E h \in Irq : IrqShutdown(h)
            \/ \E h \in Lines : Assert(h)
            \/ \E h \in Lines : Drop(h)
            \/ UNCHANGED vars
  BY <1>17 DEF IInv, TypeOK, Nesting, csrs, devices, MaxDepth, Frame, OpenPC,
     Arm, IrqStartup, IrqShutdown, Assert, Drop, vars
<1> QED
  BY <1>1, <1>2, <1>3, <1>4, <1>5, <1>6, <1>7, <1>8, <1>9, <1>10, <1>11,
     <1>12, <1>13, <1>14, <1>15, <1>16, <1>17 DEF Next, Software

\* Every step keeps the levels balanced.
LEMMA LevelsStep ==
  ASSUME IInv, [Next]_vars
  PROVE  Levels'
<1>1. CASE TakeExternal
  BY <1>1 DEF IInv, TypeOK, Nesting, Levels, csrs, devices, MaxDepth, Frame,
     Open, OpenPC, Prio, MeiContext, Level, TakeExternal, Push, NewFrame,
     NoSaved, ExternalPending, ResetContext
<1>2. CASE \E p \in Parent : TakeParent(p)
  BY <1>2 DEF IInv, TypeOK, Nesting, Levels, csrs, devices, MaxDepth, Frame,
     Open, OpenPC, Prio, MeiContext, Level, TakeParent, Push, NewFrame,
     NoSaved, ResetContext
<1>3. CASE TakeException
  BY <1>3 DEF IInv, TypeOK, Nesting, Levels, csrs, devices, MaxDepth, Frame,
     Open, OpenPC, Prio, MeiContext, Level, TakeException, Push, NewFrame,
     NoSaved, Top, ResetContext
<1>4. CASE SaveContext
  BY <1>4 DEF IInv, TypeOK, Nesting, Levels, csrs, devices, MaxDepth, Frame,
     Open, OpenPC, Prio, MeiContext, Level, SaveContext, At, Top
<1>5. CASE Dispatch
  BY <1>5 DEF IInv, TypeOK, Nesting, Levels, csrs, devices, MaxDepth, Frame,
     Open, OpenPC, Prio, MeiContext, Level, Dispatch, At, Top, MeiNext,
     Eligible
<1>6. CASE ServiceDevice
  BY <1>6 DEF IInv, TypeOK, Nesting, Levels, csrs, devices, MaxDepth, Frame,
     Open, OpenPC, Prio, MeiContext, Level, ServiceDevice, At, Top, Goto
<1>7. CASE Unmask
  BY <1>7 DEF IInv, TypeOK, Nesting, Levels, csrs, devices, MaxDepth, Frame,
     Open, OpenPC, Prio, MeiContext, Level, Unmask, At, Top
<1>8. CASE LoopEnd
  BY <1>8 DEF IInv, TypeOK, Nesting, Levels, csrs, devices, MaxDepth, Frame,
     Open, OpenPC, Prio, MeiContext, Level, LoopEnd, At, Top, Goto
<1>9. CASE RestoreContext
  BY <1>9 DEF IInv, TypeOK, Nesting, Levels, csrs, devices, MaxDepth, Frame,
     Open, OpenPC, Prio, MeiContext, Level, RestoreContext, At, Top, Goto,
     RestoredContext
<1>10. CASE RunParent
  BY <1>10 DEF IInv, TypeOK, Nesting, Levels, csrs, devices, MaxDepth, Frame,
     Open, OpenPC, Prio, MeiContext, Level, RunParent, At, Top, Goto
<1>11. CASE IrqReturn
  BY <1>11 DEF IInv, TypeOK, Nesting, Levels, csrs, devices, MaxDepth, Frame,
     Open, OpenPC, Prio, MeiContext, Level, IrqReturn, Top, Goto
<1>12. CASE Mret
  BY <1>12 DEF IInv, TypeOK, Nesting, Levels, csrs, devices, MaxDepth, Frame,
     Open, OpenPC, Prio, MeiContext, Level, Mret, Top, NoFrame, NewFrame,
     NoSaved, ResetContext
<1>13. CASE SoftirqStart
  BY <1>13 DEF IInv, TypeOK, Nesting, Levels, csrs, devices, MaxDepth, Frame,
     Open, OpenPC, Prio, MeiContext, Level, SoftirqStart, Top, Goto
<1>14. CASE SoftirqEnd
  BY <1>14 DEF IInv, TypeOK, Nesting, Levels, csrs, devices, MaxDepth, Frame,
     Open, OpenPC, Prio, MeiContext, Level, SoftirqEnd, Top, Goto
<1>15. CASE \/ LocalIrqDisable
            \/ LocalIrqEnable
            \/ \E p \in Parent : Arm(p)
            \/ \E h \in Irq : IrqStartup(h)
            \/ \E h \in Irq : IrqShutdown(h)
            \/ \E h \in Lines : Assert(h)
            \/ \E h \in Lines : Drop(h)
            \/ UNCHANGED vars
  BY <1>15 DEF IInv, TypeOK, Nesting, Levels, csrs, devices, MaxDepth, Frame,
     Open, OpenPC, Prio, MeiContext, Level, LocalIrqDisable, LocalIrqEnable,
     Arm, IrqStartup, IrqShutdown, Assert, Drop, vars
<1> QED
  BY <1>1, <1>2, <1>3, <1>4, <1>5, <1>6, <1>7, <1>8, <1>9, <1>10, <1>11,
     <1>12, <1>13, <1>14, <1>15 DEF Next, Software

\* Every step keeps the lines in service masked, and no other line.
LEMMA MaskingStep ==
  ASSUME IInv, [Next]_vars
  PROVE  Masking'
<1>1. CASE TakeExternal
  BY <1>1, EnableBitInjective DEF IInv, TypeOK, Nesting, Masking,
     MaskDiscipline, InService, csrs, devices, MaxDepth, Frame, OpenPC,
     Lines, TakeExternal, Push, NewFrame, NoSaved, ExternalPending
<1>2. CASE \E p \in Parent : TakeParent(p)
  BY <1>2, EnableBitInjective DEF IInv, TypeOK, Nesting, Masking,
     MaskDiscipline, InService, csrs, devices, MaxDepth, Frame, OpenPC,
     Lines, TakeParent, Push, NewFrame, NoSaved
<1>3. CASE TakeException
  BY <1>3, EnableBitInjective DEF IInv, TypeOK, Nesting, Masking,
     MaskDiscipline, InService, csrs, devices, MaxDepth, Frame, OpenPC,
     Lines, TakeException, Push, NewFrame, NoSaved, Top
<1>4. CASE SaveContext
  BY <1>4, EnableBitInjective DEF IInv, TypeOK, Nesting, Masking,
     MaskDiscipline, InService, csrs, devices, MaxDepth, Frame, OpenPC,
     Lines, SaveContext, At, Top
<1>5. CASE Dispatch
  BY <1>5, EnableBitInjective DEF IInv, TypeOK, Nesting, Masking,
     MaskDiscipline, InService, csrs, devices, MaxDepth, Frame, OpenPC,
     Lines, Dispatch, At, Top, MeiNext, Eligible
<1>6. CASE ServiceDevice
  BY <1>6, EnableBitInjective DEF IInv, TypeOK, Nesting, Masking,
     MaskDiscipline, InService, csrs, devices, MaxDepth, Frame, OpenPC,
     Lines, ServiceDevice, At, Top, Goto
<1>7. CASE Unmask
  BY <1>7, EnableBitInjective DEF IInv, TypeOK, Nesting, Masking,
     MaskDiscipline, InService, csrs, devices, MaxDepth, Frame, OpenPC,
     Lines, Unmask, At, Top
<1>8. CASE LoopEnd
  BY <1>8, EnableBitInjective DEF IInv, TypeOK, Nesting, Masking,
     MaskDiscipline, InService, csrs, devices, MaxDepth, Frame, OpenPC,
     Lines, LoopEnd, At, Top, Goto
<1>9. CASE RestoreContext
  BY <1>9, EnableBitInjective DEF IInv, TypeOK, Nesting, Masking,
     MaskDiscipline, InService, csrs, devices, MaxDepth, Frame, OpenPC,
     Lines, RestoreContext, At, Top, Goto, RestoredContext
<1>10. CASE RunParent
  BY <1>10, EnableBitInjective DEF IInv, TypeOK, Nesting, Masking,
     MaskDiscipline, InService, csrs, devices, MaxDepth, Frame, OpenPC,
     Lines, RunParent, At, Top, Goto
<1>11. CASE IrqReturn
  BY <1>11, EnableBitInjective DEF IInv, TypeOK, Nesting, Masking,
     MaskDiscipline, InService, csrs, devices, MaxDepth, Frame, OpenPC,
     Lines, IrqReturn, Top, Goto
<1>12. CASE Mret
  BY <1>12, EnableBitInjective DEF IInv, TypeOK, Nesting, Masking,
     MaskDiscipline, InService, csrs, devices, MaxDepth, Frame, OpenPC,
     Lines, Mret, Top, NoFrame, NewFrame, NoSaved, ResetContext
<1>13. CASE SoftirqStart
  BY <1>13, EnableBitInjective DEF IInv, TypeOK, Nesting, Masking,
     MaskDiscipline, InService, csrs, devices, MaxDepth, Frame, OpenPC,
     Lines, SoftirqStart, Top, Goto
<1>14. CASE SoftirqEnd
  BY <1>14, EnableBitInjective DEF IInv, TypeOK, Nesting, Masking,
     MaskDiscipline, InService, csrs, devices, MaxDepth, Frame, OpenPC,
     Lines, SoftirqEnd, Top, Goto
<1>15. CASE \E h \in Irq : IrqStartup(h)
  BY <1>15, EnableBitInjective DEF IInv, TypeOK, Nesting, Masking,
     MaskDiscipline, InService, csrs, devices, MaxDepth, Frame, OpenPC,
     Lines, IrqStartup
<1>16. CASE \E h \in Irq : IrqShutdown(h)
  BY <1>16, EnableBitInjective DEF IInv, TypeOK, Nesting, Masking,
     MaskDiscipline, InService, csrs, devices, MaxDepth, Frame, OpenPC,
     Lines, IrqShutdown
<1>17. CASE \/ LocalIrqDisable
            \/ LocalIrqEnable
            \/ \E p \in Parent : Arm(p)
            \/ \E h \in Lines : Assert(h)
            \/ \E h \in Lines : Drop(h)
            \/ UNCHANGED vars
  BY <1>17, EnableBitInjective DEF IInv, TypeOK, Nesting, Masking,
     MaskDiscipline, InService, csrs, devices, MaxDepth, Frame, OpenPC,
     Lines, LocalIrqDisable, LocalIrqEnable, Arm, Assert, Drop, vars
<1> QED
  BY <1>1, <1>2, <1>3, <1>4, <1>5, <1>6, <1>7, <1>8, <1>9, <1>10, <1>11,
     <1>12, <1>13, <1>14, <1>15, <1>16, <1>17 DEF Next, Software

\* Every step keeps the parent interrupts accounted for.
LEMMA ParentsStep ==
  ASSUME IInv, [Next]_vars
  PROVE  Parents'
<1>1. CASE TakeExternal
  BY <1>1 DEF IInv, TypeOK, Nesting, Parents, csrs, devices, MaxDepth, Frame,
     OpenPC, TakeExternal, Push, NewFrame, NoSaved, ExternalPending
<1>2. CASE \E p \in Parent : TakeParent(p)
  BY <1>2 DEF IInv, TypeOK, Nesting, Parents, csrs, devices, MaxDepth, Frame,
     OpenPC, TakeParent, Push, NewFrame, NoSaved
<1>3. CASE TakeException
  BY <1>3 DEF IInv, TypeOK, Nesting, Parents, csrs, devices, MaxDepth, Frame,
     OpenPC, TakeException, Push, NewFrame, NoSaved, Top
<1>4. CASE SaveContext
  BY <1>4 DEF IInv, TypeOK, Nesting, Parents, csrs, devices, MaxDepth, Frame,
     OpenPC, SaveContext, At, Top
<1>5. CASE Dispatch
  BY <1>5 DEF IInv, TypeOK, Nesting, Parents, csrs, devices, MaxDepth, Frame,
     OpenPC, Dispatch, At, Top, MeiNext, Eligible
<1>6. CASE ServiceDevice
  BY <1>6 DEF IInv, TypeOK, Nesting, Parents, csrs, devices, MaxDepth, Frame,
     OpenPC, ServiceDevice, At, Top, Goto
<1>7. CASE Unmask
  BY <1>7 DEF IInv, TypeOK, Nesting, Parents, csrs, devices, MaxDepth, Frame,
     OpenPC, Unmask, At, Top
<1>8. CASE LoopEnd
  BY <1>8 DEF IInv, TypeOK, Nesting, Parents, csrs, devices, MaxDepth, Frame,
     OpenPC, LoopEnd, At, Top, Goto
<1>9. CASE RestoreContext
  BY <1>9 DEF IInv, TypeOK, Nesting, Parents, csrs, devices, MaxDepth, Frame,
     OpenPC, RestoreContext, At, Top, Goto, RestoredContext
<1>10. CASE RunParent
  BY <1>10 DEF IInv, TypeOK, Nesting, Parents, csrs, devices, MaxDepth,
     Frame, OpenPC, RunParent, At, Top, Goto
<1>11. CASE IrqReturn
  BY <1>11 DEF IInv, TypeOK, Nesting, Parents, csrs, devices, MaxDepth,
     Frame, OpenPC, IrqReturn, Top, Goto
<1>12. CASE Mret
  BY <1>12 DEF IInv, TypeOK, Nesting, Parents, csrs, devices, MaxDepth,
     Frame, OpenPC, Mret, Top, NoFrame, NewFrame, NoSaved, ResetContext
<1>13. CASE SoftirqStart
  BY <1>13 DEF IInv, TypeOK, Nesting, Parents, csrs, devices, MaxDepth,
     Frame, OpenPC, SoftirqStart, Top, Goto
<1>14. CASE SoftirqEnd
  BY <1>14 DEF IInv, TypeOK, Nesting, Parents, csrs, devices, MaxDepth,
     Frame, OpenPC, SoftirqEnd, Top, Goto
<1>15. CASE \/ LocalIrqDisable
            \/ LocalIrqEnable
            \/ \E p \in Parent : Arm(p)
            \/ \E h \in Irq : IrqStartup(h)
            \/ \E h \in Irq : IrqShutdown(h)
            \/ \E h \in Lines : Assert(h)
            \/ \E h \in Lines : Drop(h)
            \/ UNCHANGED vars
  BY <1>15 DEF IInv, TypeOK, Nesting, Parents, csrs, devices, MaxDepth,
     Frame, OpenPC, LocalIrqDisable, LocalIrqEnable, Arm, IrqStartup,
     IrqShutdown, Assert, Drop, vars
<1> QED
  BY <1>1, <1>2, <1>3, <1>4, <1>5, <1>6, <1>7, <1>8, <1>9, <1>10, <1>11,
     <1>12, <1>13, <1>14, <1>15 DEF Next, Software

\* Every step is a step of the abstract specification, or changes nothing of it.
LEMMA DeliveryStep ==
  ASSUME IInv, [Next]_vars
  PROVE  [Delivery!Next]_Delivery!vars
<1>1. CASE TakeExternal
  <2>1. meicontext.preempt = 0 /\ meicontext'.preempt = 1
    BY <1>1 DEF IInv, TypeOK, Levels, TakeExternal, ExternalPending, Prio,
       MeiContext, Level
  <2>2. line \cap (started \cup Stale) # {}
    BY <1>1 DEF IInv, TypeOK, Masking, MaskDiscipline, TakeExternal,
       ExternalPending, Eligible, Lines
  <2>3. Armed' = Armed /\ Serving' = Serving
    BY <1>1 DEF IInv, TypeOK, Nesting, TakeExternal, Push, NewFrame, NoSaved,
       MaxDepth, Frame, Open, OpenPC, Armed, Serving
  <2> QED
    BY <1>1, <2>1, <2>2, <2>3 DEF TakeExternal, devices, Prio, Delivery!Next,
       Delivery!Close
<1>2. CASE \E p \in Parent : TakeParent(p)
  BY <1>2 DEF IInv, TypeOK, Nesting, Levels, Parents, csrs, devices,
     MaxDepth, Frame, Open, OpenPC, Prio, Armed, Serving, TakeParent, Push,
     NewFrame, NoSaved, Delivery!Next, Delivery!vars
<1>3. CASE TakeException
  BY <1>3 DEF IInv, TypeOK, Nesting, Levels, Parents, csrs, devices,
     MaxDepth, Frame, Open, OpenPC, Prio, Armed, Serving, TakeException,
     Push, NewFrame, NoSaved, Top, Delivery!Next, Delivery!vars
<1>4. CASE SaveContext
  BY <1>4 DEF IInv, TypeOK, Nesting, Levels, Parents, csrs, devices,
     MaxDepth, Frame, Open, OpenPC, Prio, Armed, Serving, SaveContext, At,
     Top, Delivery!Next, Delivery!vars
<1>5. CASE Dispatch
  <2> PICK h \in Irq : /\ MeiNext(h)
                      /\ frame' = [frame EXCEPT ![depth].pc = "masked",
                                                ![depth].irq = h]
    BY <1>5 DEF Dispatch
  <2>1. h \in line /\ h \in started
    BY DEF IInv, Masking, MaskDiscipline, MeiNext, Eligible
  <2>2. depth \in 1 .. MaxDepth /\ Open(depth) /\ depth' = depth
    BY <1>5 DEF IInv, TypeOK, Dispatch, At, Top, Open, OpenPC
  <2>3. meicontext.preempt > Prio /\ UNCHANGED meicontext
    BY <1>5, <2>2 DEF IInv, Levels, Dispatch, Prio
  <2>4. Serving = {}
    BY <1>5 DEF IInv, TypeOK, Nesting, Dispatch, At, Top, MaxDepth, Frame, OpenPC,
       Serving
  <2>5. Serving' = {h}
    BY <2>2, <2>4 DEF IInv, TypeOK, MaxDepth, Frame, Serving
  <2>6. Armed' = Armed
    BY <1>5, <2>2 DEF IInv, TypeOK, Dispatch, At, Top, MaxDepth, Frame, Open, OpenPC,
       Armed
  <2> QED
    BY <1>5, <2>1, <2>3, <2>4, <2>5, <2>6 DEF Dispatch, devices, Delivery!Next,
       Delivery!Begin
<1>6. CASE ServiceDevice
  <2>1. depth \in 1 .. MaxDepth /\ Top.pc = "masked" /\ Top.kind = "ext"
        /\ depth' = depth
    BY <1>6 DEF IInv, TypeOK, ServiceDevice, At
  <2>2. Top.irq \in Irq
    BY <2>1 DEF IInv, TypeOK, Masking, Top
  <2>3. Serving = {Top.irq}
    BY <2>1, <2>2 DEF IInv, TypeOK, Nesting, Top, MaxDepth, Frame, OpenPC, Serving
  <2>4. Serving' = {}
    BY <1>6, <2>1 DEF IInv, TypeOK, Nesting, ServiceDevice, Goto, Top, MaxDepth,
       Frame, OpenPC, Serving
  <2>5. Armed' = Armed
    BY <1>6, <2>1 DEF IInv, TypeOK, ServiceDevice, Goto, csrs, MaxDepth, Frame, Open,
       OpenPC, Top, Armed
  <2> QED
    BY <1>6, <2>3, <2>4, <2>5 DEF ServiceDevice, csrs, Delivery!Next, Delivery!Finish
<1>7. CASE Unmask
  BY <1>7 DEF IInv, TypeOK, Nesting, Levels, Parents, csrs, devices,
     MaxDepth, Frame, Open, OpenPC, Prio, Armed, Serving, Unmask, At, Top,
     Delivery!Next, Delivery!vars
<1>8. CASE LoopEnd
  BY <1>8 DEF IInv, TypeOK, Nesting, Levels, Parents, csrs, devices,
     MaxDepth, Frame, Open, OpenPC, Prio, Armed, Serving, LoopEnd, At, Top,
     Goto, Delivery!Next, Delivery!vars
<1>9. CASE RestoreContext
  BY <1>9 DEF IInv, TypeOK, Nesting, Levels, Parents, csrs, devices,
     MaxDepth, Frame, Open, OpenPC, Prio, Armed, Serving, RestoreContext, At,
     Top, Goto, RestoredContext, Delivery!Next, Delivery!vars, Delivery!Open
<1>10. CASE RunParent
  BY <1>10 DEF IInv, TypeOK, Nesting, Levels, Parents, csrs, devices,
     MaxDepth, Frame, Open, OpenPC, Prio, Armed, Serving, RunParent, At, Top,
     Goto, Delivery!Next, Delivery!vars, Delivery!Fire
<1>11. CASE IrqReturn
  BY <1>11 DEF IInv, TypeOK, Nesting, Levels, Parents, csrs, devices,
     MaxDepth, Frame, Open, OpenPC, Prio, Armed, Serving, IrqReturn, Top,
     Goto, Delivery!Next, Delivery!vars
<1>12. CASE Mret
  BY <1>12 DEF IInv, TypeOK, Nesting, Levels, Parents, csrs, devices,
     MaxDepth, Frame, Open, OpenPC, Prio, Armed, Serving, Mret, Top, NoFrame,
     NewFrame, NoSaved, ResetContext, Delivery!Next, Delivery!vars
<1>13. CASE SoftirqStart
  BY <1>13 DEF IInv, TypeOK, Nesting, Levels, Parents, csrs, devices,
     MaxDepth, Frame, Open, OpenPC, Prio, Armed, Serving, SoftirqStart, Top,
     Goto, Delivery!Next, Delivery!vars
<1>14. CASE SoftirqEnd
  BY <1>14 DEF IInv, TypeOK, Nesting, Levels, Parents, csrs, devices,
     MaxDepth, Frame, Open, OpenPC, Prio, Armed, Serving, SoftirqEnd, Top,
     Goto, Delivery!Next, Delivery!vars
<1>15. CASE LocalIrqDisable
  BY <1>15 DEF IInv, TypeOK, Nesting, Levels, Parents, csrs, devices,
     MaxDepth, Frame, Open, OpenPC, Prio, Armed, Serving, LocalIrqDisable,
     Delivery!Next, Delivery!vars
<1>16. CASE LocalIrqEnable
  BY <1>16 DEF IInv, TypeOK, Nesting, Levels, Parents, csrs, devices,
     MaxDepth, Frame, Open, OpenPC, Prio, Armed, Serving, LocalIrqEnable,
     Delivery!Next, Delivery!vars
<1>17. CASE \E p \in Parent : Arm(p)
  BY <1>17 DEF IInv, TypeOK, Nesting, Levels, Parents, csrs, devices,
     MaxDepth, Frame, Open, OpenPC, Prio, Armed, Serving, Arm, Delivery!Next,
     Delivery!vars, Delivery!Arm
<1>18. CASE \E h \in Irq : IrqStartup(h)
  BY <1>18 DEF IInv, TypeOK, Nesting, Levels, Parents, csrs, devices,
     MaxDepth, Frame, Open, OpenPC, Prio, Armed, Serving, IrqStartup,
     Delivery!Next, Delivery!vars, Delivery!Request
<1>19. CASE \E h \in Irq : IrqShutdown(h)
  BY <1>19 DEF IInv, TypeOK, Nesting, Levels, Parents, csrs, devices,
     MaxDepth, Frame, Open, OpenPC, Prio, Armed, Serving, IrqShutdown,
     Delivery!Next, Delivery!vars, Delivery!Request
<1>20. CASE \E h \in Lines : Assert(h)
  BY <1>20 DEF Assert, csrs, Lines, Armed, Open, Serving, Delivery!Next,
     Delivery!Raise, Delivery!Lines
<1>21. CASE \E h \in Lines : Drop(h)
  BY <1>21 DEF Drop, csrs, Lines, Armed, Open, Serving, Delivery!Next,
     Delivery!Drop, Delivery!Lines
<1>22. CASE UNCHANGED vars
  BY <1>22 DEF IInv, TypeOK, Nesting, Levels, Parents, csrs, devices,
     MaxDepth, Frame, Open, OpenPC, Prio, Armed, Serving, vars,
     Delivery!Next, Delivery!vars
<1> QED
  BY <1>1, <1>2, <1>3, <1>4, <1>5, <1>6, <1>7, <1>8, <1>9, <1>10, <1>11,
     <1>12, <1>13, <1>14, <1>15, <1>16, <1>17, <1>18, <1>19, <1>20, <1>21,
     <1>22 DEF Next, Software

-----------------------------------------------------------------------------
(* Theorems                                                                *)

\* The trap stack, the levels, the masks and the parent enables stay as IInv says.
THEOREM Inductive == Spec => []IInv
<1>1. ASSUME Init
      PROVE  IInv
  <2> USE <1>1 DEF Init, MaxDepth, NoFrame, NewFrame, NoSaved, ResetContext
  <2>1. TypeOK
    BY IrqAssumption DEF TypeOK, Frame, MeiContext, Level, Lines, None
  <2>2. Nesting
    BY DEF Nesting
  <2>3. Levels
    BY DEF Levels, Open
  <2>4. Masking
    BY IrqAssumption, EnableBitInjective
       DEF Masking, MaskDiscipline, InService, Lines
  <2>5. Parents
    BY DEF Parents
  <2> QED
    BY <2>1, <2>2, <2>3, <2>4, <2>5 DEF IInv
<1>2. IInv /\ [Next]_vars => IInv'
  BY TypeStep, NestingStep, LevelsStep, MaskingStep, ParentsStep DEF IInv
<1> QED
  BY <1>1, <1>2, PTL DEF Spec

\* Every variable stays in its range, traps nest at most three deep.
THEOREM TypeCorrect == Spec => []TypeOK
<1>1. IInv => TypeOK
  BY DEF IInv
<1> QED
  BY <1>1, Inductive, PTL

\* The driver pops what the hardware pushed, whatever traps come in between:
\* with interrupts enabled no line is held back by a level.
THEOREM GateOpenAlways == Spec => []GateOpen
<1>1. IInv => GateOpen
  BY DEF IInv, TypeOK, Nesting, Levels, GateOpen, Open, OpenPC, MaxDepth, Prio
<1> QED
  BY <1>1, Inductive, PTL

\* MEIEA agrees with what drivers requested, but for the line in service.
THEOREM MaskDisciplineAlways == Spec => []MaskDiscipline
<1>1. IInv => MaskDiscipline
  BY DEF IInv, Masking
<1> QED
  BY <1>1, Inductive, PTL

\* The driver and the hardware under it deliver interrupts as Linux expects.
THEOREM ImplementsDelivery == Spec => DeliverySpec
<1>1. ASSUME Init
      PROVE  Delivery!Init
  BY <1>1 DEF Init, Delivery!Init, Armed, Serving, ResetContext, Prio
<1>2. IInv /\ [Next]_vars => [Delivery!Next]_Delivery!vars
  BY DeliveryStep
<1> QED
  BY <1>1, <1>2, Inductive, PTL DEF Spec, DeliverySpec, Delivery!Spec
=============================================================================
