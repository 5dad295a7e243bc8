---------------------------- MODULE AtomicCell ----------------------------
(***************************************************************************)
(* What the lr/sc sequences of Linux promised before patch 0003 took them   *)
(* out: a word that the task and the interrupt handlers update, each update *)
(* reading the word, deciding and writing it in one step.  Update gives the *)
(* sequences that the patch deletes, and the AMO instructions.              *)
(*                                                                         *)
(* What has been given up of it is in Late: open calls of these kinds may   *)
(* look at the word first and update, later, the value they have found.     *)
(***************************************************************************)
EXTENDS Integers

CONSTANTS
  Client, Op, Word, Wrap(_),
  Late      \* kinds of operation

VARIABLES
  cell,     \* the word
  pending,  \* per client, the operation it has called and that has not happened,
            \* and whether something can come in between
  seen,     \* per client, the value its operation has found before it happens
  answer    \* per client, the value its operation found in the word

vars == <<cell, pending, seen, answer>>

Nothing == [call |-> [kind |-> "nothing"], open |-> FALSE]
NoAnswer == [found |-> FALSE]
Found(v) == [found |-> TRUE, value |-> v]

\* The value op leaves in a word that holds v.
Update(op, v) ==
  CASE op.kind = "add_unless"          -> IF v = op.old THEN v ELSE Wrap(v + op.new)
    [] op.kind = "inc_unless_negative" -> IF v < 0 THEN v ELSE Wrap(v + 1)
    [] op.kind = "dec_unless_positive" -> IF v > 0 THEN v ELSE Wrap(v - 1)
    [] op.kind = "dec_if_positive"     -> IF Wrap(v - 1) < 0 THEN v ELSE Wrap(v - 1)
    [] op.kind \in {"cmpxchg", "lrsc"} -> IF v = op.old THEN op.new ELSE v
    [] op.kind = "amoswap"             -> op.new
    [] op.kind = "amoadd"              -> Wrap(v + op.new)

Init == /\ cell \in Word
        /\ pending = [c \in Client |-> Nothing]
        /\ seen = [c \in Client |-> NoAnswer]
        /\ answer = [c \in Client |-> NoAnswer]

Invoke(c) == /\ pending[c] = Nothing
             /\ answer[c] = NoAnswer
             /\ \E op \in Op, open \in BOOLEAN :
                  pending' = [pending EXCEPT ![c] = [call |-> op, open |-> open]]
             /\ UNCHANGED <<cell, seen, answer>>

Look(c) == /\ pending[c].call.kind \in Late /\ pending[c].open
           /\ seen' = [seen EXCEPT ![c] = Found(cell)]
           /\ UNCHANGED <<cell, pending, answer>>

\* The operation updates the word that holds v, or did.
UpdateFrom(c, v) == /\ pending[c] # Nothing
                    /\ cell' = Update(pending[c].call, v)
                    /\ answer' = [answer EXCEPT ![c] = Found(v)]
                    /\ pending' = [pending EXCEPT ![c] = Nothing]
                    /\ seen' = [seen EXCEPT ![c] = NoAnswer]

Happen(c) == UpdateFrom(c, cell)

HappenLate(c) == seen[c].found /\ UpdateFrom(c, seen[c].value)

Return(c) == /\ answer[c] # NoAnswer
             /\ answer' = [answer EXCEPT ![c] = NoAnswer]
             /\ UNCHANGED <<cell, pending, seen>>

Next == \E c \in Client : Invoke(c) \/ Look(c) \/ Happen(c) \/ HappenLate(c) \/ Return(c)

Spec == Init /\ [][Next]_vars
=============================================================================
