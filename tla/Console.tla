------------------------------ MODULE Console ------------------------------
(***************************************************************************)
(* The bootloader's console: puts, printf and wait_for_input over the UART, *)
(* which the core polls (uart.c, string.c, main.c), with the UART's two     *)
(* FIFOs, the terminal that shows what comes and the user who types.        *)
(* Session has the calls that main makes.                                  *)
(*                                                                         *)
(* A character is "nl", "cr" or, for all those that are shown, "a".         *)
(***************************************************************************)
EXTENDS Integers, Sequences, SequencesExt

CONSTANTS
  TxDepth,   \* characters the FIFOs hold
  RxDepth,
  Keys       \* the keys

ASSUME ConsoleAssumption == TxDepth \in Nat \ {0} /\ RxDepth \in Nat \ {0}

VARIABLES
  phase,   \* of the call: "idle" (there is none), "print", "getc" or "newline"
  call,    \* [f, text]: puts, printf or wait_for_input and its argument
  todo,    \* characters that are still to be sent
  ready,   \* TXFF was clear at the last poll
  answer,  \* what wait_for_input returned and main has not looked at
  tx, rx,  \* the FIFOs
  cursor,  \* of the terminal: "left", "mid", "below" after a line feed alone, and
           \*   "stairs" when something was shown there
  due      \* what main wanted shown and the terminal has not got

core == <<phase, call, todo, ready, answer>>
console == <<core, tx, rx, cursor, due>>

NoAnswer == "none"
NoCall == [f |-> "puts", text |-> <<>>]

-----------------------------------------------------------------------------

\* Mutant: a line feed alone.
Printf_Raw(text) == text
\* _putchar puts a carriage return behind a line feed, puts only behind its own.
Printf(text) == FlattenSeq([n \in DOMAIN text |->
                              IF text[n] = "nl" THEN <<"nl", "cr">> ELSE <<text[n]>>])
Puts(text) == text \o <<"nl", "cr">>

Say(text) == todo' = text /\ due' = due \o text

\* main makes a call.
Begin(c) ==
  /\ phase = "idle"
  /\ call' = c
  /\ Say(IF c.f = "puts" THEN Puts(c.text) ELSE Printf(c.text))
  /\ phase' = "print"
  /\ UNCHANGED <<ready, answer, tx, rx, cursor>>

\* Mutants: no poll; it waits for the bit to be set.
TxReady_Always == TRUE
TxReady_Set == Len(tx) = TxDepth
TxReady == Len(tx) < TxDepth

\* uart_send: loop_until_bit_is_clear(..., TXFF).
Poll ==
  /\ todo # <<>> /\ ~ready
  /\ TxReady
  /\ ready' = TRUE
  /\ UNCHANGED <<phase, call, todo, answer, tx, rx, cursor, due>>

\* The write; a full FIFO does not take it.
Send ==
  /\ ready
  /\ tx' = IF Len(tx) < TxDepth THEN Append(tx, Head(todo)) ELSE tx
  /\ todo' = Tail(todo)
  /\ ready' = FALSE
  /\ UNCHANGED <<phase, call, answer, rx, cursor, due>>

\* puts and printf return, and wait_for_input after its puts(""); before, it goes
\* on to uart_getc.
Printed ==
  /\ phase \in {"print", "newline"} /\ todo = <<>>
  /\ phase' = IF phase = "print" /\ call.f = "wait_for_input" THEN "getc" ELSE "idle"
  /\ UNCHANGED <<call, todo, ready, answer, tx, rx, cursor, due>>

\* uart_getc finds RXFE set: delay, and once more.
NoKey ==
  /\ phase = "getc" /\ rx = <<>>
  /\ Say(Printf(call.text))
  /\ phase' = "print"
  /\ UNCHANGED <<call, ready, answer, tx, rx, cursor>>

\* Mutant: the byte stays in the FIFO.
Taken_Not(fifo) == fifo
Taken(fifo) == Tail(fifo)

\* It has a byte: puts(""), and that is what is returned.
GetKey ==
  /\ phase = "getc" /\ rx # <<>>
  /\ answer' = Head(rx)
  /\ rx' = Taken(rx)
  /\ Say(Puts(<<>>))
  /\ phase' = "newline"
  /\ UNCHANGED <<call, ready, tx, cursor>>

Core == Poll \/ Send \/ Printed \/ NoKey \/ GetKey

-----------------------------------------------------------------------------

\* The terminal's cursor after a character.
Moved(char) ==
  CASE char = "cr" -> IF cursor = "stairs" THEN cursor ELSE "left"
    [] char = "nl" -> IF cursor = "mid" THEN "below" ELSE cursor
    [] OTHER -> IF cursor \in {"below", "stairs"} THEN "stairs" ELSE "mid"

\* A character leaves the UART.
Shift ==
  /\ tx # <<>>
  /\ tx' = Tail(tx)
  /\ due' = Tail(due)
  /\ cursor' = Moved(Head(tx))
  /\ UNCHANGED <<core, rx>>

\* The user presses a key, whether or not there is a prompt; a full FIFO loses it.
Press(k) ==
  /\ Len(rx) < RxDepth
  /\ rx' = Append(rx, k)
  /\ UNCHANGED <<core, tx, cursor, due>>

Silent ==
  /\ phase = "idle" /\ call = NoCall /\ todo = <<>> /\ ready = FALSE
  /\ answer = NoAnswer
  /\ tx = <<>> /\ rx = <<>>
  /\ cursor = "left"
  /\ due = <<>>

\* A restart, for which the terminal stays as it is.
Reset ==
  /\ phase' = "idle" /\ call' = NoCall /\ todo' = <<>> /\ ready' = FALSE
  /\ answer' = NoAnswer
  /\ tx' = <<>> /\ rx' = <<>>
  /\ due' = <<>>
  /\ UNCHANGED cursor

-----------------------------------------------------------------------------
(* Properties                                                              *)

\* Every character main prints reaches the terminal, once and in order, however
\* slow the UART is: what the terminal has not got is in the FIFO or still to send.
NothingIsDropped == due = tx \o todo
=============================================================================
