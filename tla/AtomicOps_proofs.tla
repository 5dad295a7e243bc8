-------------------------- MODULE AtomicOps_proofs --------------------------
(***************************************************************************)
(* Theorems about AtomicOps, for every width of the word, every set of      *)
(* operations and any number of calls, called with interrupts on or off.    *)
(*                                                                         *)
(* The primitives implement Torn: only what loads in one instruction and    *)
(* stores in another, called with interrupts on, may update a value that    *)
(* the word had earlier in the call.  IInv says why: whoever stands between *)
(* a load and its store otherwise is the one who runs, and a trap keeps the *)
(* handler out, so the word is still what was loaded.                      *)
(***************************************************************************)
EXTENDS AtomicOps, TLAPS

Shape ==
  /\ irqsOn \in BOOLEAN /\ inHandler \in BOOLEAN
  /\ pc \in [Client -> {"idle", "start", "loaded", "done"}]
  /\ trap \in [Client -> {"none", "read", "write"}]
  /\ op = [c \in Client |-> op[c]]
  /\ prev = [c \in Client |-> prev[c]]
  /\ \A c \in Client : op[c].kind \in Kind

\* Where a call can be, and in a trap.
Places ==
  \A c \in Client :
    /\ trap[c] # "none" => pc[c] \in {"start", "loaded"} /\ op[c].kind \notin LwSwKind
    /\ pc[c] = "loaded" => op[c].kind \in TwoSteps

\* The handler starts only where the task has interrupts on and no trap.
Exclusion ==
  /\ ~inHandler => pc["irq"] = "idle"
  /\ inHandler => irqsOn /\ trap["task"] = "none"

\* What was loaded takes the store, and is what is there, unless the handler
\* could come in.
Current ==
  \A c \in Client :
    /\ pc[c] = "loaded" => ~Exits(op[c], prev[c])
    /\ pc[c] = "loaded" /\ ~Open(c) => prev[c] = mem
    /\ pc[c] = "start" /\ trap[c] = "write" => prev[c] = mem

IInv == Shape /\ Places /\ Exclusion /\ Current

-----------------------------------------------------------------------------
(* Lemmas                                                                  *)

\* The branch and the store of a primitive, taken together, are what the
\* sequences before the patches did with the word.
LEMMA UpdateIsBranchAndStore ==
  ASSUME NEW o, NEW v, o.kind \in Kind
  PROVE  Torn!Update(o, v) = IF Exits(o, v) THEN v ELSE NewValue(o, v)
  BY DEF Torn!Update, Exits, NewValue, Kind, TwoSteps, LwSwKind, AmoKind

\* An AMO has no branch.
LEMMA AmosStore ==
  ASSUME NEW o, NEW v, o.kind \in Kind \ TwoSteps
  PROVE  ~Exits(o, v)
  BY DEF Exits, Kind, LwSwKind, AmoKind, TwoSteps

\* Whom the one who runs may disturb: a call that it has interrupted, and never
\* in a trap.
LEMMA OnlyOneInTheMiddle ==
  ASSUME IInv, NEW c \in Client, Runs(c), NEW d \in Client, d # c
  PROVE  (pc[d] = "loaded" => Open(d)) /\ trap[d] = "none"
  BY DEF IInv, Shape, Places, Exclusion, Runs, Client, Open

\* Every step keeps the shape of the state.
LEMMA ShapeStep == ASSUME IInv, [Next]_vars PROVE Shape'
<1> USE OpAssumption DEF IInv, Shape
<1>1. ASSUME NEW c \in Client, Call(c) PROVE Shape'
  <2>1. PICK o \in Op : op' = [op EXCEPT ![c] = o]
    BY <1>1 DEF Call
  <2>2. o.kind \in Kind
    BY DEF Operation
  <2> QED
    BY <1>1, <2>1, <2>2 DEF Call
<1>2. ASSUME NEW c \in Client, LoadAndTest(c) PROVE Shape'
  BY <1>2 DEF LoadAndTest, Branch
<1>3. ASSUME NEW c \in Client, Store(c) PROVE Shape'
  BY <1>3 DEF Store
<1>4. ASSUME NEW c \in Client, Fault(c) PROVE Shape'
  BY <1>4 DEF Fault
<1>5. ASSUME NEW c \in Client, ReadRd(c) PROVE Shape'
  BY <1>5 DEF ReadRd
<1>6. ASSUME NEW c \in Client, Emulate(c) PROVE Shape'
  BY <1>6 DEF Emulate, Branch
<1>7. ASSUME NEW c \in Client, Return(c) PROVE Shape'
  BY <1>7 DEF Return
<1>8. CASE IrqEnter
  BY <1>8 DEF IrqEnter
<1>9. CASE IrqExit
  BY <1>9 DEF IrqExit
<1>10. CASE UNCHANGED vars
  BY <1>10 DEF vars
<1> QED
  BY <1>1, <1>2, <1>3, <1>4, <1>5, <1>6, <1>7, <1>8, <1>9, <1>10 DEF Next, Step

\* Every step keeps each call at a place its kind has.
LEMMA PlacesStep == ASSUME IInv, [Next]_vars PROVE Places'
<1> USE DEF IInv, Shape, Places
<1>1. ASSUME NEW c \in Client, Call(c) PROVE Places'
  BY <1>1 DEF Call
<1>2. ASSUME NEW c \in Client, LoadAndTest(c) PROVE Places'
  BY <1>2 DEF LoadAndTest, Branch, TwoSteps
<1>3. ASSUME NEW c \in Client, Store(c) PROVE Places'
  BY <1>3 DEF Store
<1>4. ASSUME NEW c \in Client, Fault(c) PROVE Places'
  BY <1>4 DEF Fault
<1>5. ASSUME NEW c \in Client, ReadRd(c) PROVE Places'
  BY <1>5 DEF ReadRd
<1>6. ASSUME NEW c \in Client, Emulate(c) PROVE Places'
  BY <1>6 DEF Emulate, Branch, TwoSteps
<1>7. ASSUME NEW c \in Client, Return(c) PROVE Places'
  BY <1>7 DEF Return
<1>8. CASE IrqEnter
  BY <1>8 DEF IrqEnter
<1>9. CASE IrqExit
  BY <1>9 DEF IrqExit
<1>10. CASE UNCHANGED vars
  BY <1>10 DEF vars
<1> QED
  BY <1>1, <1>2, <1>3, <1>4, <1>5, <1>6, <1>7, <1>8, <1>9, <1>10 DEF Next, Step

\* No step lets the handler in where interrupts are off, or into a trap.
LEMMA ExclusionStep == ASSUME IInv, [Next]_vars PROVE Exclusion'
<1> USE DEF IInv, Shape, Places, Exclusion, Client, Runs
<1>1. ASSUME NEW c \in Client, Call(c) PROVE Exclusion'
  BY <1>1 DEF Call
<1>2. ASSUME NEW c \in Client, LoadAndTest(c) PROVE Exclusion'
  BY <1>2 DEF LoadAndTest, Branch
<1>3. ASSUME NEW c \in Client, Store(c) PROVE Exclusion'
  BY <1>3 DEF Store
<1>4. ASSUME NEW c \in Client, Fault(c) PROVE Exclusion'
  BY <1>4 DEF Fault
<1>5. ASSUME NEW c \in Client, ReadRd(c) PROVE Exclusion'
  BY <1>5 DEF ReadRd
<1>6. ASSUME NEW c \in Client, Emulate(c) PROVE Exclusion'
  BY <1>6 DEF Emulate, Branch
<1>7. ASSUME NEW c \in Client, Return(c) PROVE Exclusion'
  BY <1>7 DEF Return
<1>8. CASE IrqEnter
  BY <1>8 DEF IrqEnter, Interruptible
<1>9. CASE IrqExit
  BY <1>9 DEF IrqExit
<1>10. CASE UNCHANGED vars
  BY <1>10 DEF vars
<1> QED
  BY <1>1, <1>2, <1>3, <1>4, <1>5, <1>6, <1>7, <1>8, <1>9, <1>10 DEF Next, Step

\* Every step keeps what was loaded current: nobody else writes, unless the call
\* is open.
LEMMA CurrentStep == ASSUME IInv, [Next]_vars PROVE Current'
<1> USE DEF IInv, Shape, Places, Current, Open
<1>1. ASSUME NEW c \in Client, Call(c) PROVE Current'
  BY <1>1 DEF Call
<1>2. ASSUME NEW c \in Client, LoadAndTest(c) PROVE Current'
  BY <1>2 DEF LoadAndTest, Branch
<1>3. ASSUME NEW c \in Client, Store(c) PROVE Current'
  BY <1>3, OnlyOneInTheMiddle DEF Store
<1>4. ASSUME NEW c \in Client, Fault(c) PROVE Current'
  BY <1>4 DEF Fault
<1>5. ASSUME NEW c \in Client, ReadRd(c) PROVE Current'
  BY <1>5 DEF ReadRd
<1>6. ASSUME NEW c \in Client, Emulate(c) PROVE Current'
  BY <1>6, OnlyOneInTheMiddle DEF Emulate, Branch
<1>7. ASSUME NEW c \in Client, Return(c) PROVE Current'
  BY <1>7 DEF Return
<1>8. CASE IrqEnter
  BY <1>8 DEF IrqEnter
<1>9. CASE IrqExit
  BY <1>9 DEF IrqExit
<1>10. CASE UNCHANGED vars
  BY <1>10 DEF vars
<1> QED
  BY <1>1, <1>2, <1>3, <1>4, <1>5, <1>6, <1>7, <1>8, <1>9, <1>10 DEF Next, Step

-----------------------------------------------------------------------------
(* Steps of the abstract word                                              *)

\* A call that goes on within its place is not seen.
LEMMA Silent ==
  ASSUME IInv, UNCHANGED <<mem, irqsOn, op, pc>>,
         \A d \in Client : prev'[d] # prev[d] => pc[d] = "start"
  PROVE  UNCHANGED Torn!vars
<1>1. UNCHANGED <<Pending, Answer, Seen>>
  BY DEF IInv, Shape, Pending, Answer, Seen, Open
<1> QED
  BY <1>1 DEF Torn!vars, Pending, Answer, Seen

\* The load of a call that will store: nothing to be seen, or a look.
LEMMA Loads ==
  ASSUME IInv, NEW c \in Client, UNCHANGED <<mem, irqsOn, op>>,
         op[c].kind \in TwoSteps, pc[c] = "start",
         pc' = [pc EXCEPT ![c] = "loaded"], prev' = [prev EXCEPT ![c] = mem]
  PROVE  Torn!Look(c) \/ UNCHANGED Torn!vars
<1> USE DEF IInv, Shape
<1>1. UNCHANGED <<Pending, Answer>>
  BY DEF Pending, Answer, Open
<1>2. Pending[c] = [call |-> op[c], open |-> Open(c)]
  BY DEF Pending
<1>3. CASE Open(c)
  <2>1. Seen' = [Seen EXCEPT ![c] = [found |-> TRUE, value |-> mem]]
    BY <1>3 DEF Seen, Open
  <2> QED
    BY <1>1, <1>2, <1>3, <2>1 DEF Torn!Look, Torn!Found, Pending, Answer, Seen
<1>4. CASE ~Open(c)
  <2>1. Seen' = Seen
    BY <1>4 DEF Seen, Open
  <2> QED
    BY <1>1, <2>1 DEF Torn!vars, Pending, Answer, Seen
<1> QED
  BY <1>3, <1>4

\* A call that is done has updated the value v that it found.
LEMMA Updates ==
  ASSUME IInv, NEW c \in Client, NEW v, UNCHANGED <<irqsOn, op>>,
         pc[c] \in {"start", "loaded"}, pc' = [pc EXCEPT ![c] = "done"],
         prev' = [prev EXCEPT ![c] = v],
         mem' = IF Exits(op[c], v) THEN v ELSE NewValue(op[c], v)
  PROVE  Torn!UpdateFrom(c, v)
<1> USE DEF IInv, Shape
<1>1. Pending[c] = [call |-> op[c], open |-> Open(c)]
  BY DEF Pending
<1>2. mem' = Torn!Update(Pending[c].call, v)
  BY <1>1, UpdateIsBranchAndStore
<1>3. Pending[c] # Torn!Nothing
  <2>1. op[c].kind # "nothing"
    BY DEF Kind, LwSwKind, AmoKind, TwoSteps
  <2> QED
    BY <1>1, <2>1 DEF Torn!Nothing
<1>4. Pending' = [Pending EXCEPT ![c] = Torn!Nothing]
  BY DEF Pending, Open, Torn!Nothing
<1>5. Answer' = [Answer EXCEPT ![c] = Torn!Found(v)]
  BY DEF Answer, Torn!Found
<1>6. Seen' = [Seen EXCEPT ![c] = Torn!NoAnswer]
  BY DEF Seen, Open, Torn!NoAnswer
<1> QED
  BY <1>2, <1>3, <1>4, <1>5, <1>6 DEF Torn!UpdateFrom, Pending, Answer, Seen

\* The store of a call that has loaded updates what is there, or what was seen.
LEMMA Stores ==
  ASSUME IInv, NEW c \in Client, UNCHANGED <<irqsOn, op, prev>>,
         pc[c] = "loaded", pc' = [pc EXCEPT ![c] = "done"],
         mem' = NewValue(op[c], prev[c])
  PROVE  Torn!Happen(c) \/ Torn!HappenLate(c)
<1>1. ~Exits(op[c], prev[c]) /\ (~Open(c) => prev[c] = mem)
  BY DEF IInv, Current
<1>2. prev' = [prev EXCEPT ![c] = prev[c]]
  BY DEF IInv, Shape
<1>3. Torn!UpdateFrom(c, prev[c])
  BY <1>1, <1>2, Updates
<1>4. CASE Open(c)
  <2>1. Seen[c] = [found |-> TRUE, value |-> prev[c]]
    BY <1>4 DEF Seen
  <2> QED
    BY <1>3, <2>1 DEF Torn!HappenLate, Torn!UpdateFrom, Seen
<1>5. CASE ~Open(c)
  BY <1>1, <1>3, <1>5 DEF Torn!Happen, Torn!UpdateFrom
<1> QED
  BY <1>4, <1>5

\* Every step is a step of the abstract word or leaves it alone.
LEMMA TornStep == ASSUME IInv, [Next]_vars PROVE [Torn!Next]_(Torn!vars)
<1> USE DEF IInv, Shape
<1>1. ASSUME NEW c \in Client, Call(c) PROVE Torn!Invoke(c)
  <2>1. PICK o \in Op : op' = [op EXCEPT ![c] = o]
    BY <1>1 DEF Call
  <2>2. Pending[c] = Torn!Nothing /\ Answer[c] = Torn!NoAnswer
    BY <1>1 DEF Call, Pending, Answer, Torn!Nothing, Torn!NoAnswer
  <2>3. \A d \in Client : d # c => Open(d)' = Open(d)
    BY <1>1 DEF Call, Open, Client
  <2>4. Open(c)' \in BOOLEAN
    BY DEF Open
  <2>5. Pending' = [Pending EXCEPT ![c] = [call |-> o, open |-> Open(c)']]
    BY <1>1, <2>1, <2>3 DEF Call, Pending
  <2>6. Answer' = Answer
    BY <1>1 DEF Call, Answer
  <2>7. Seen' = Seen
    BY <1>1, <2>3 DEF Call, Seen
  <2>8. mem' = mem
    BY <1>1 DEF Call
  <2> QED
    BY <2>2, <2>4, <2>5, <2>6, <2>7, <2>8 DEF Torn!Invoke, Pending, Answer, Seen
<1>2. ASSUME NEW c \in Client, LoadAndTest(c) PROVE [Torn!Next]_(Torn!vars)
  <2>1. CASE Exits(op[c], mem)
    <3>1. Torn!UpdateFrom(c, mem)
      BY <1>2, <2>1, Updates DEF LoadAndTest, Branch
    <3> QED
      BY <3>1 DEF Torn!Happen, Torn!Next
  <2>2. CASE ~Exits(op[c], mem)
    <3>1. Torn!Look(c) \/ UNCHANGED Torn!vars
      BY <1>2, <2>2, Loads DEF LoadAndTest, Branch, TwoSteps
    <3> QED
      BY <3>1 DEF Torn!Next
  <2> QED
    BY <2>1, <2>2
<1>3. ASSUME NEW c \in Client, Store(c) PROVE [Torn!Next]_(Torn!vars)
  <2>1. Torn!Happen(c) \/ Torn!HappenLate(c)
    BY <1>3, Stores DEF Store
  <2> QED
    BY <2>1 DEF Torn!Next
<1>4. ASSUME NEW c \in Client, Fault(c) PROVE UNCHANGED Torn!vars
  BY <1>4, Silent DEF Fault
<1>5. ASSUME NEW c \in Client, ReadRd(c) PROVE UNCHANGED Torn!vars
  BY <1>5, Silent DEF ReadRd
<1>6. ASSUME NEW c \in Client, Emulate(c) PROVE [Torn!Next]_(Torn!vars)
  <2>1. pc[c] \in {"start", "loaded"} /\ op[c].kind \notin LwSwKind
    BY <1>6 DEF Emulate, Places
  <2>2. CASE pc[c] = "start"
    <3>1. prev[c] = mem
      BY <1>6, <2>2 DEF Emulate, Current
    <3>2. prev' = [prev EXCEPT ![c] = mem]
      BY <1>6, <3>1 DEF Emulate
    <3>3. CASE op[c].kind = "lrsc" /\ ~Exits(op[c], mem)
      <4>1. Torn!Look(c) \/ UNCHANGED Torn!vars
        BY <1>6, <2>2, <3>1, <3>2, <3>3, Loads DEF Emulate, Branch, TwoSteps
      <4> QED
        BY <4>1 DEF Torn!Next
    <3>4. CASE op[c].kind = "lrsc" /\ Exits(op[c], mem)
      <4>1. Torn!UpdateFrom(c, mem)
        BY <1>6, <2>1, <2>2, <3>1, <3>2, <3>4, Updates DEF Emulate, Branch
      <4> QED
        BY <4>1 DEF Torn!Happen, Torn!Next
    <3>5. CASE op[c].kind # "lrsc"
      <4>1. ~Exits(op[c], mem)
        BY <2>1, <3>5, AmosStore DEF TwoSteps
      <4>2. Torn!UpdateFrom(c, mem)
        BY <1>6, <2>1, <3>2, <3>5, <4>1, Updates DEF Emulate
      <4> QED
        BY <4>2 DEF Torn!Happen, Torn!Next
    <3> QED
      BY <3>3, <3>4, <3>5
  <2>3. CASE pc[c] = "loaded"
    <3>1. op[c].kind = "lrsc"
      BY <2>1, <2>3 DEF Places, TwoSteps
    <3>2. NewValue(op[c], mem) = NewValue(op[c], prev[c])
      BY <3>1 DEF NewValue
    <3>3. Torn!Happen(c) \/ Torn!HappenLate(c)
      BY <1>6, <2>3, <3>2, Stores DEF Emulate
    <3> QED
      BY <3>3 DEF Torn!Next
  <2> QED
    BY <2>1, <2>2, <2>3
<1>7. ASSUME NEW c \in Client, Return(c) PROVE Torn!Return(c)
  <2>1. Answer[c] # Torn!NoAnswer
    BY <1>7 DEF Return, Answer, Torn!NoAnswer
  <2>2. Answer' = [Answer EXCEPT ![c] = Torn!NoAnswer]
    BY <1>7 DEF Return, Answer, Torn!NoAnswer
  <2>3. \A d \in Client : d # c => Open(d)' = Open(d)
    BY <1>7 DEF Return, Open, Client
  <2>4. Pending' = Pending /\ Seen' = Seen /\ mem' = mem
    BY <1>7, <2>3 DEF Return, Pending, Seen
  <2> QED
    BY <2>1, <2>2, <2>4 DEF Torn!Return, Pending, Answer, Seen
<1>8. CASE IrqEnter \/ IrqExit \/ UNCHANGED vars
  BY <1>8, Silent DEF IrqEnter, IrqExit, vars
<1> QED
  BY <1>1, <1>2, <1>3, <1>4, <1>5, <1>6, <1>7, <1>8 DEF Next, Step, Torn!Next

-----------------------------------------------------------------------------
(* Theorems                                                                *)

\* The handler comes into the middle of nothing but what the task does in two
\* steps with interrupts on.
THEOREM Inductive == Spec => []IInv
<1>1. Init => IInv
  <2> SUFFICES ASSUME Init PROVE IInv
    OBVIOUS
  <2>1. op = [c \in Client |-> op[c]] /\ \A c \in Client : op[c].kind = "cmpxchg"
    BY DEF Init
  <2>2. Shape
    BY <2>1 DEF Init, Shape, Kind, TwoSteps, LwSwKind
  <2>3. Places /\ Exclusion /\ Current
    BY DEF Init, Places, Exclusion, Current, Client
  <2> QED
    BY <2>2, <2>3 DEF IInv
<1>2. IInv /\ [Next]_vars => IInv'
  BY ShapeStep, PlacesStep, ExclusionStep, CurrentStep DEF IInv
<1> QED
  BY <1>1, <1>2, PTL DEF Spec

\* As the kernel calls them, the emulated AMOs, whatever the handler does and
\* whatever is done with interrupts off are each one atomic update of the word
\* that returns what it replaced; what the task does by lw and sw, or lr and sc,
\* with interrupts on updates at worst a value the word had during the call.
THEOREM LosesOnlyToInterruptsAlways == Spec => LosesOnlyToInterrupts
<1>1. Init => Torn!Init
  BY DEF Init, Torn!Init, Torn!Nothing, Torn!NoAnswer, Pending, Answer, Seen
<1>2. IInv /\ [Next]_vars => [Torn!Next]_(Torn!vars)
  BY TornStep
<1>3. Spec => []IInv
  BY Inductive
<1> QED
  BY <1>1, <1>2, <1>3, PTL DEF Spec, LosesOnlyToInterrupts, Torn!Spec
=============================================================================
