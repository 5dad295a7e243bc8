--------------------------- MODULE MCSimpleIntc ---------------------------
(* TLC instance of SimpleIntc: two lines that share a bit position in two  *)
(* different MEIEA windows, and the timer.                                  *)
EXTENDS SimpleIntc

CONSTANT mtie

TwoWindows == {17, 33}
NoStale == {}
TimerOnly == {mtie}
=============================================================================
