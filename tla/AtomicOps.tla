----------------------------- MODULE AtomicOps -----------------------------
(***************************************************************************)
(* The atomic primitives of the kernel as patches 0002 and 0003 leave them, *)
(* on one hart: a task and the interrupt handler that may interrupt it      *)
(* between any two instructions.                                            *)
(*                                                                         *)
(* lr/sc never succeeds in PSRAM, so patch 0003 replaces lr by lw and sc by *)
(* sw and drops the retry; patch 0002 emulates, in the trap that an atomic  *)
(* instruction takes, the AMOs and what lr/sc is left, where sc always      *)
(* succeeds.  The emulation reads and writes the word in several accesses,  *)
(* of which only the trap's switching interrupts off makes one.  amoswap    *)
(* and amoadd stand for the five AMOs; EmulatedHart has the others.         *)
(***************************************************************************)
EXTENDS Integers

CONSTANTS
  Bits,      \* width of the word
  Op,        \* the operations that are called, with their arguments
  MaxCalls   \* bound: calls of each client

Client == {"task", "irq"}
Half == 2 ^ (Bits - 1)
Word == -Half .. Half - 1
LwSwKind == {"add_unless", "inc_unless_negative", "dec_unless_positive",
             "dec_if_positive", "cmpxchg"}
AmoKind == {"amoswap", "amoadd"}
\* What loads in one instruction and stores in another.
TwoSteps == LwSwKind \cup {"lrsc"}
Kind == TwoSteps \cup AmoKind
Operation == [kind : Kind, old : Word, new : Word]

ASSUME BitsAssumption == Bits \in Nat \ {0}
ASSUME OpAssumption == Op \subseteq Operation
ASSUME CallAssumption == MaxCalls \in Nat

VARIABLES
  mem,        \* the word in PSRAM
  irqsOn,     \* interrupts are enabled in the task
  inHandler,  \* the interrupt handler runs
  pc,         \* per client: idle, start, loaded or done
  trap,       \* per client: none, or what its emulation does next: read rd or
              \* write the word
  op,         \* per client: the operation being executed
  prev,       \* per client: register %[p], the loaded value
  calls       \* per client: calls made

vars == <<mem, irqsOn, inHandler, pc, trap, op, prev, calls>>

\* Two's complement addition of a word.
Wrap(x) == ((x + Half) % (2 * Half)) - Half

\* The branch between the load and the store.
Exits(o, p) ==
  \/ o.kind = "add_unless" /\ p = o.old
  \/ o.kind = "inc_unless_negative" /\ p < 0
  \/ o.kind = "dec_unless_positive" /\ p > 0
  \/ o.kind = "dec_if_positive" /\ Wrap(p - 1) < 0
  \/ o.kind \in {"cmpxchg", "lrsc"} /\ p # o.old

\* The value that is stored.
NewValue(o, p) ==
  CASE o.kind = "add_unless"                     -> Wrap(p + o.new)
    [] o.kind = "inc_unless_negative"            -> Wrap(p + 1)
    [] o.kind \in {"dec_unless_positive", "dec_if_positive"} -> Wrap(p - 1)
    [] o.kind \in {"cmpxchg", "lrsc", "amoswap"} -> o.new
    [] o.kind = "amoadd"                         -> Wrap(p + o.new)

Runs(c) == inHandler <=> c = "irq"

\* A context calls a primitive, the task with interrupts on or off.
Call(c) ==
  /\ Runs(c)
  /\ pc[c] = "idle"
  /\ calls[c] < MaxCalls
  /\ \E o \in Op : op' = [op EXCEPT ![c] = o]
  /\ irqsOn' \in (IF c = "task" THEN BOOLEAN ELSE {irqsOn})
  /\ pc' = [pc EXCEPT ![c] = "start"]
  /\ calls' = [calls EXCEPT ![c] = @ + 1]
  /\ UNCHANGED <<mem, inHandler, trap, prev>>

\* Mutant: lr/sc as it was, which fails and is tried again.
Branch_Retry(o, p) == IF Exits(o, p) THEN "done" ELSE "start"
\* After the load: the branch.
Branch(o, p) == IF Exits(o, p) THEN "done" ELSE "loaded"

\* lw, and the branch.
LoadAndTest(c) ==
  /\ Runs(c)
  /\ pc[c] = "start"
  /\ op[c].kind \in LwSwKind
  /\ prev' = [prev EXCEPT ![c] = mem]
  /\ pc' = [pc EXCEPT ![c] = Branch(op[c], mem)]
  /\ UNCHANGED <<mem, irqsOn, inHandler, trap, op, calls>>

\* sw.
Store(c) ==
  /\ Runs(c)
  /\ pc[c] = "loaded"
  /\ op[c].kind \in LwSwKind
  /\ mem' = NewValue(op[c], prev[c])
  /\ pc' = [pc EXCEPT ![c] = "done"]
  /\ UNCHANGED <<irqsOn, inHandler, trap, op, prev, calls>>

\* An AMO, lr or sc faults.
Fault(c) ==
  /\ Runs(c)
  /\ pc[c] \in {"start", "loaded"}
  /\ op[c].kind \notin LwSwKind
  /\ trap[c] = "none"
  /\ trap' = [trap EXCEPT ![c] = "read"]
  /\ UNCHANGED <<mem, irqsOn, inHandler, pc, op, prev, calls>>

\* *rsd = *dst: the register of an AMO or lr; that of sc is not used after it.
ReadRd(c) ==
  /\ Runs(c)
  /\ trap[c] = "read"
  /\ prev' = IF pc[c] = "start" THEN [prev EXCEPT ![c] = mem] ELSE prev
  /\ trap' = [trap EXCEPT ![c] = "write"]
  /\ UNCHANGED <<mem, irqsOn, inHandler, pc, op, calls>>

\* The switch, in which *dst += rs2 reads the word again, and the return: lr
\* leaves the word and its result meets the branch, sc is always good.
Emulate(c) ==
  /\ Runs(c)
  /\ trap[c] = "write"
  /\ LET lr == op[c].kind = "lrsc" /\ pc[c] = "start"
     IN /\ mem' = IF lr THEN mem ELSE NewValue(op[c], mem)
        /\ pc' = [pc EXCEPT ![c] = IF lr THEN Branch(op[c], prev[c]) ELSE "done"]
  /\ trap' = [trap EXCEPT ![c] = "none"]
  /\ UNCHANGED <<irqsOn, inHandler, op, prev, calls>>

Return(c) ==
  /\ Runs(c)
  /\ pc[c] = "done"
  /\ pc' = [pc EXCEPT ![c] = "idle"]
  /\ irqsOn' = (irqsOn \/ c = "task")
  /\ UNCHANGED <<mem, inHandler, trap, op, prev, calls>>

\* Mutant: the trap leaves interrupts on.
Interruptible_InTraps == irqsOn /\ ~inHandler
\* A trap from the kernel runs with interrupts off.
Interruptible == irqsOn /\ ~inHandler /\ trap["task"] = "none"

IrqEnter ==
  /\ Interruptible
  /\ calls["irq"] < MaxCalls
  /\ inHandler' = TRUE
  /\ UNCHANGED <<mem, irqsOn, pc, trap, op, prev, calls>>

IrqExit ==
  /\ inHandler
  /\ pc["irq"] = "idle"
  /\ inHandler' = FALSE
  /\ UNCHANGED <<mem, irqsOn, pc, trap, op, prev, calls>>

Init == /\ mem \in Word
        /\ irqsOn = TRUE
        /\ inHandler = FALSE
        /\ pc = [c \in Client |-> "idle"]
        /\ trap = [c \in Client |-> "none"]
        /\ op \in [Client -> {[kind |-> "cmpxchg", old |-> 0, new |-> 0]}]
        /\ prev = [c \in Client |-> 0]
        /\ calls = [c \in Client |-> 0]

Step(c) == LoadAndTest(c) \/ Store(c) \/ Fault(c) \/ ReadRd(c) \/ Emulate(c) \/ Return(c)

Next == \/ \E c \in Client : Call(c) \/ Step(c)
        \/ IrqEnter
        \/ IrqExit

Spec == Init /\ [][Next]_vars

\* The code of a context runs on, the handler returns, and interrupts leave
\* the task time to run.
Fairness == /\ \A c \in Client : SF_vars(Step(c))
            /\ WF_vars(IrqExit)

FairSpec == Spec /\ Fairness

-----------------------------------------------------------------------------
(* Properties                                                              *)

\* A call that the handler can come into the middle of.
Open(c) == c = "task" /\ irqsOn
Pending == [c \in Client |-> IF pc[c] \in {"start", "loaded"}
                             THEN [call |-> op[c], open |-> Open(c)]
                             ELSE [call |-> [kind |-> "nothing"], open |-> FALSE]]
Answer == [c \in Client |-> IF pc[c] = "done" THEN [found |-> TRUE, value |-> prev[c]]
                            ELSE [found |-> FALSE]]
Seen == [c \in Client |-> IF pc[c] = "loaded" /\ Open(c)
                          THEN [found |-> TRUE, value |-> prev[c]]
                          ELSE [found |-> FALSE]]

\* As the kernel calls them, with interrupts on or off: each call takes effect in
\* one step and returns the value that step found, in the handler, with interrupts
\* off, and if it is an emulated AMO; only what the task does in two steps with
\* interrupts on may update a value that it found earlier, but during the call.
Torn == INSTANCE AtomicCell
           WITH Late <- TwoSteps, cell <- mem, pending <- Pending, seen <- Seen,
                answer <- Answer
LosesOnlyToInterrupts == Torn!Spec

\* The primitives do what the lr/sc loops and the AMO instructions did: each
\* call takes effect in one step and returns the value that step found.
Cell == INSTANCE AtomicCell
          WITH Late <- {}, cell <- mem, pending <- Pending,
               seen <- [c \in Client |-> [found |-> FALSE]], answer <- Answer
IsAtomic == Cell!Spec

\* A call returns: nothing is retried until it succeeds, which in PSRAM it
\* never would.
CallReturns == \A c \in Client : pc[c] = "start" ~> pc[c] = "done"
=============================================================================
