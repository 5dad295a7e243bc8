------------------------------ MODULE Session ------------------------------
(***************************************************************************)
(* main of the bootloader with its console: Boot composed with Console.     *)
(* Between two steps of Boot main makes the calls in script, each of which  *)
(* takes the UART a while; what the user types meanwhile waits in the       *)
(* UART's FIFO, and a restart may come at any character.                    *)
(*                                                                         *)
(* A word or number that main prints is one character here.                 *)
(***************************************************************************)
EXTENDS Console

CONSTANTS Payload, PsramSize, Window, Byte, MaxRestarts   \* as in Boot

VARIABLES
  pc, payload, fitted, psramSize, deviceTreeSize, kernelSize, copied, psram,
  restarts,   \* as in Boot
  script      \* calls that main makes before its next step of Boot

main == <<pc, payload, fitted, psramSize, deviceTreeSize, kernelSize, copied, psram, restarts>>
vars == <<console, main, script>>

\* main's steps work on Boot's variables; its keys are those in the FIFO.
Main == INSTANCE Boot WITH keys <- rx, MaxKeys <- RxDepth

ASSUME KeysAssumption == Keys \subseteq Main!Key

-----------------------------------------------------------------------------
(* What main prints, in the words of main.c and image.c                     *)

Put(text) == [f |-> "puts", text |-> text]
Fmt(text) == [f |-> "printf", text |-> text]
Wait == [f |-> "wait_for_input", text |-> <<"a", "cr">>]
Line == <<"a", "nl">>

Banner == <<Put(<<"nl", "nl", "nl">> \o Line)>>
\* Two rows and the line that ends them.
Hexdump == Fmt(Line \o Line \o Line)
SetupMessages == IF psramSize' = 0 THEN <<Put(<<"a">>), Wait>> ELSE <<Fmt(<<"a">>), Put(<<>>)>>
TestMessages == <<Fmt(Line), Fmt(Line)>>
                \o (IF pc' = "exit" THEN <<Fmt(Line), Wait>>
                    ELSE <<Fmt(<<"nl">> \o Line), Hexdump>>)
\* Bad magic or size 0, in puts of get_devicetree_size or get_kernel_size, and
\* main's own.
SizeMessages == IF kernelSize' = 0 THEN <<Put(Line), Fmt(Line)>> ELSE <<>>
CheckMessages == IF pc' = "exit" THEN <<Fmt(Line), Wait>> ELSE <<Fmt(<<"nl", "a">>)>>
CopiedMessages == <<Fmt(<<"cr">> \o Line), Hexdump>>
                  \o (IF pc' = "jump" THEN <<Fmt(<<"nl">> \o Line), Fmt(Line)>> ELSE <<Wait>>)
\* The demo's two lines, and main's.
PayloadMessages == <<Fmt(Line), Fmt(Line), Fmt(Line), Wait>>
AnswerMessages == CASE pc' = "payload" -> <<>>
                    [] pc' = "exit" -> <<Wait>>
                    [] pc' = "halt" -> <<Put(<<"a">>)>>

-----------------------------------------------------------------------------

\* A step of Boot, once main has printed what it prints before.
Does(step, messages) ==
  /\ phase = "idle" /\ script = <<>> /\ answer = NoAnswer
  /\ step
  /\ script' = messages
  /\ UNCHANGED console

SetupPsram == Does(Main!SetupPsram, SetupMessages)
TestExecutability == Does(Main!TestExecutability, TestMessages)
GetSizes == Does(Main!GetSizes, SizeMessages)
CheckSize == Does(Main!CheckSize, CheckMessages)
CopyBlock == Does(Main!CopyBlock, <<>>)
Fault == Does(Main!Fault, <<>>)
Copied == Does(Main!Copied, CopiedMessages)
JumpToKernel == Does(Main!JumpToKernel, <<>>)
PayloadReturns == Does(Main!PayloadReturns, PayloadMessages)

\* The next call.
NextCall ==
  /\ script # <<>>
  /\ Begin(Head(script))
  /\ script' = Tail(script)
  /\ UNCHANGED main

\* Where a key takes main.
After(key) == IF pc = "prompt" THEN Main!Answered(key) ELSE "halt"

\* wait_for_input has returned, and main looks at its result.
LookAtAnswer ==
  /\ phase = "idle" /\ answer # NoAnswer
  /\ pc' = After(answer)
  /\ answer' = NoAnswer
  /\ script' = AnswerMessages
  /\ UNCHANGED <<phase, call, todo, ready, tx, rx, cursor, due>>
  /\ UNCHANGED <<payload, fitted, psramSize, deviceTreeSize, kernelSize, copied, psram, restarts>>

Restart ==
  /\ Main!Restart
  /\ Reset
  /\ script' = Banner

Init == Main!Init /\ Silent /\ script = Banner

Runs == \/ SetupPsram \/ TestExecutability \/ GetSizes \/ CheckSize \/ CopyBlock \/ Fault
        \/ Copied \/ JumpToKernel
        \/ NextCall \/ LookAtAnswer
        \/ Core /\ UNCHANGED <<main, script>>
Transmits == Shift /\ UNCHANGED <<main, script>>
Types == (\E k \in Keys : Press(k)) /\ UNCHANGED <<main, script>>

Next == Runs \/ PayloadReturns \/ Transmits \/ Types \/ Restart

Spec == Init /\ [][Next]_vars

\* The core runs, the UART transmits, and the user types in the end.
FairSpec == Spec /\ WF_vars(Runs) /\ WF_vars(Transmits) /\ WF_vars(Types)

-----------------------------------------------------------------------------
(* Properties                                                              *)

\* main does what Boot says: wherever the console is when a key comes, the key is
\* one answer, the oldest, and to a prompt that waits.
Boot == INSTANCE Boot
          WITH keys <- rx, MaxKeys <- RxDepth,
               pc <- IF answer = NoAnswer THEN pc ELSE After(answer)
ImplementsBoot == Boot!Spec

\* Every boot ends with main in Linux, in the user's program or in the halt (or at
\* the fault of a copy that was not to be) and with everything it said sent.
SessionEnds == <>[](/\ pc \in {"linux", "payload", "halt"} \/ (pc = "fault" /\ ~Main!SizesFit)
                    /\ script = <<>> /\ due = <<>>)

\* Although puts sends the line feeds of its text as they are, no line starts
\* below the end of the one before, unless a restart cut that one off.
LinesStartAtTheLeft == restarts = 0 => cursor # "stairs"
=============================================================================
