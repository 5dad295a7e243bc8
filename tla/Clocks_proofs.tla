---------------------------- MODULE Clocks_proofs ----------------------------
(***************************************************************************)
(* Theorems about Clocks, for whatever dividers, sources and gates an        *)
(* earlier program has left and at any speed of the hardware: no clock hangs *)
(* on a source that is not steady or runs faster than it may, timer and UART *)
(* are set for the clocks they have, and nothing changes under them.         *)
(***************************************************************************)
EXTENDS Clocks, TLAPS

-----------------------------------------------------------------------------
(* The invariant: what is so from which instruction on                     *)

PllRegs == [ref : {1}, fb : Nat, power : BOOLEAN, post : Nat \ {0}, out : BOOLEAN,
            locked : BOOLEAN]

PinRegs == [pad : SUBSET {"iso", "ie"}, func : {"null", "uart", "sio"}]

Shape ==
  /\ pc \in 1 .. 56
  /\ xosc \in {"off", "starting", "stable"}
  /\ reset \in [Blocks -> {"held", "leaving", "done"}]
  /\ pll \in [Plls -> PllRegs]
  /\ src \in [Muxes -> {"rosc", "xosc", "ref", "aux"}]
  /\ sel \in [Muxes -> {"rosc", "xosc", "ref", "aux"}]
  /\ aux \in [Gated \cup {"sys"} -> {"rosc", "sys", "pll_usb", "pll_sys"}]
  /\ enabled \subseteq Gated /\ running \subseteq Gated
  /\ div \in [Clock -> Nat \ {0}]
  /\ pins \in [Pins -> PinRegs]

\* The crystal and the blocks are there once they have been polled.
Polled ==
  /\ pc >= 2 => xosc # "off"
  /\ pc >= 3 => xosc = "stable"
  /\ pc >= 5 => reset["pll_usb"] = "done"
  /\ pc >= 7 => reset["pll_sys"] = "done"
  /\ pc >= 49 => reset["uart0"] = "done"

\* The PLLs, register by register.
PllsAreSet ==
  /\ pc >= 9 => pll["pll_usb"].fb = 100
  /\ pc >= 11 => pll["pll_usb"].locked
  /\ pc >= 12 => pll["pll_usb"].post = 25
  /\ pc >= 13 => pll["pll_usb"].out
  /\ pc >= 15 => pll["pll_sys"].fb = 125
  /\ pc >= 17 => pll["pll_sys"].locked
  /\ pc >= 18 => pll["pll_sys"].post = 10
  /\ pc >= 19 => pll["pll_sys"].out

\* clk_ref and clk_sys change over when they are told, or later, but before the
\* first gated clock is set.
MuxesAreSet ==
  /\ src["ref"] = IF pc <= 20 THEN "rosc" ELSE "xosc"
  /\ src["sys"] \in IF pc <= 22 THEN {"ref", "aux"} ELSE IF pc <= 24 THEN {"ref"}
                    ELSE {"aux"}
  /\ sel["ref"] \in {"rosc", src["ref"]}
  /\ sel["sys"] \in {"ref", "aux"}
  /\ pc >= 28 => sel = src

\* Until main sets clk_sys it stays as the boot ROM left it: an auxiliary source is
\* the ring oscillator.
FromReset ==
  pc <= 22 => /\ sel["sys"] = src["sys"]
              /\ sel["sys"] = "aux" => aux["sys"] = "rosc"

\* The instruction that closes a gate; the next waits, and the three behind it
\* choose the source, open the gate and set the divider.
Closes(c) == CASE c = "usb" -> 26 [] c = "adc" -> 31 [] c = "peri" -> 36
               [] c = "hstx" -> 41

\* The source that main gives a gated clock.
Given(c) == IF c \in {"usb", "adc"} THEN "pll_usb" ELSE "sys"

AuxIsSet ==
  /\ pc >= 23 => aux["sys"] = "pll_sys"
  /\ \A c \in Gated : aux[c] \in {"rosc", Given(c)}
  /\ \A c \in Gated : pc >= Closes(c) + 3 => aux[c] = Given(c)

\* A gate that is to close has closed before its source is chosen, and the gates
\* that main has not come to stay as they were.
GatesFollow ==
  \A c \in Gated :
    /\ pc <= Closes(c) => (c \in enabled <=> c \in running)
    /\ pc <= Closes(c) + 1 /\ c \in running => aux[c] # "pll_usb"
    /\ pc = Closes(c) + 1 => c \notin enabled
    /\ pc \in {Closes(c) + 2, Closes(c) + 3} => c \notin enabled /\ c \notin running
    /\ pc >= Closes(c) + 4 => c \in enabled

DividersAreSet ==
  /\ pc >= 22 => div["ref"] = 1
  /\ pc >= 26 => div["sys"] = 1
  /\ pc >= 41 => div["peri"] = 1

\* Timer, pins and UART.
LateDevices ==
  /\ ticks # 0 => pc >= 47 /\ ticks = 12
  /\ uart # 0 => pc = 56 /\ uart = 5208
  /\ \A p \in {"tx", "rx"} : pins[p].func = "uart" => pc >= 49
  /\ pc >= 50 => pins["tx"].pad = {}
  /\ pc >= 51 => pins["rx"].pad = {"ie"}
  /\ pc >= 52 => pins["tx"].func = "uart"
  /\ pc >= 53 => pins["rx"].func = "uart"

IInv == /\ Shape /\ Polled /\ PllsAreSet /\ MuxesAreSet /\ FromReset /\ AuxIsSet
        /\ GatesFollow /\ DividersAreSet /\ LateDevices

-----------------------------------------------------------------------------
(* The program's instructions and their places                           *)

\* The instructions of the program.
Insn ==
  {Xosc, Poll("xosc", "xosc"), Unreset("pll_usb"), Poll("reset", "pll_usb"),
   Unreset("pll_sys"), Poll("reset", "pll_sys"), Write("pll_usb", "ref", 1),
   Write("pll_usb", "fb", 100), Write("pll_usb", "power", TRUE),
   Poll("lock", "pll_usb"), Write("pll_usb", "post", 5 * 5),
   Write("pll_usb", "out", TRUE), Write("pll_sys", "ref", 1),
   Write("pll_sys", "fb", 125), Write("pll_sys", "power", TRUE),
   Poll("lock", "pll_sys"), Write("pll_sys", "post", 5 * 2),
   Write("pll_sys", "out", TRUE), Delay, Ctrl("ref", "xosc", "none"), Div("ref", 1),
   Ctrl("sys", "ref", "pll_sys"), Ctrl("sys", "aux", "pll_sys"), Div("sys", 1),
   Gate("usb", FALSE), Ctrl("usb", "none", "pll_usb"), Gate("usb", TRUE),
   Div("usb", 1), Gate("adc", FALSE), Ctrl("adc", "none", "pll_usb"),
   Gate("adc", TRUE), Div("adc", 1), Gate("peri", FALSE), Ctrl("peri", "none", "sys"),
   Gate("peri", TRUE), Div("peri", 1), Gate("hstx", FALSE),
   Ctrl("hstx", "none", "sys"), Gate("hstx", TRUE), Div("hstx", 1), RiscvTicks[1],
   Unreset("uart0"), Poll("reset", "uart0"), Pad("tx", {}), Pad("rx", {"ie"}),
   Func("tx", "uart"), Func("rx", "uart"), Pad("led", {}), Func("led", "sio"),
   UartInit[1]}

\* t is a first part of the program.
Starts(t) == \A i \in 1 .. Len(t) : Program[i] = t[i]

\* After its m-th instruction the program has those of u.
Has(m, u) == \A i \in 1 .. Len(u) : Program[m + i] = u[i]

\* t is s, of length m, and then u, of length n.
Joint(t, s, m, u, n) == /\ s \in Seq(Insn) /\ u \in Seq(Insn) /\ t = s \o u
                        /\ m \in Nat /\ Len(s) = m /\ n \in Nat /\ Len(u) = n

\* What has been joined is a sequence of instructions, as long as both.
LEMMA JointIs ==
  ASSUME NEW t, NEW s, NEW m, NEW u, NEW n, Joint(t, s, m, u, n)
  PROVE  t \in Seq(Insn) /\ Len(t) = m + n
<1>1. /\ s \in Seq(Insn) /\ u \in Seq(Insn) /\ t = s \o u
      /\ m = Len(s) /\ n = Len(u)
  BY DEF Joint
<1> QED
  BY <1>1

\* If a first part ends in u, the program has u there and starts with the rest.
LEMMA Splits ==
  ASSUME NEW t, NEW s, NEW m, NEW u, NEW n, Joint(t, s, m, u, n), Starts(t)
  PROVE  Starts(s) /\ Has(m, u)
<1>1. s \in Seq(Insn) /\ u \in Seq(Insn) /\ t = s \o u /\ m = Len(s)
  BY DEF Joint
<1>2. Len(t) = Len(s) + Len(u)
  BY <1>1
<1>3. \A i \in 1 .. Len(s) : t[i] = s[i]
  BY <1>1
<1>4. \A i \in 1 .. Len(u) : t[Len(s) + i] = u[i]
  BY <1>1
<1> QED
  BY <1>1, <1>2, <1>3, <1>4 DEF Starts, Has

\* The parts of the program are made of its instructions.
LEMMA PartsAre ==
  /\ XoscInit \in Seq(Insn) /\ Len(XoscInit) = 2
  /\ SetReset("pll_usb") \in Seq(Insn) /\ Len(SetReset("pll_usb")) = 2
  /\ SetReset("pll_sys") \in Seq(Insn) /\ Len(SetReset("pll_sys")) = 2
  /\ SetPll("pll_usb", 100, 5, 5) \in Seq(Insn) /\ Len(SetPll("pll_usb", 100, 5, 5)) = 6
  /\ SetPll("pll_sys", 125, 5, 2) \in Seq(Insn) /\ Len(SetPll("pll_sys", 125, 5, 2)) = 6
  /\ SetRef \in Seq(Insn) /\ Len(SetRef) = 3
  /\ SetSys \in Seq(Insn) /\ Len(SetSys) = 4
  /\ SetGated("usb", "pll_usb") \in Seq(Insn) /\ Len(SetGated("usb", "pll_usb")) = 5
  /\ SetGated("adc", "pll_usb") \in Seq(Insn) /\ Len(SetGated("adc", "pll_usb")) = 5
  /\ SetGated("peri", "sys") \in Seq(Insn) /\ Len(SetGated("peri", "sys")) = 5
  /\ SetGated("hstx", "sys") \in Seq(Insn) /\ Len(SetGated("hstx", "sys")) = 5
  /\ RiscvTicks \in Seq(Insn) /\ Len(RiscvTicks) = 1
  /\ SetReset("uart0") \in Seq(Insn) /\ Len(SetReset("uart0")) = 2
  /\ SetUart0Pinmux \in Seq(Insn) /\ Len(SetUart0Pinmux) = 4
  /\ LedPin \in Seq(Insn) /\ Len(LedPin) = 2
  /\ UartInit \in Seq(Insn) /\ Len(UartInit) = 1
<1>1. XoscInit \in Seq(Insn) /\ Len(XoscInit) = 2
  BY DEF Insn, XoscInit
<1>2. SetReset("pll_usb") \in Seq(Insn) /\ Len(SetReset("pll_usb")) = 2
  BY DEF Insn, SetReset
<1>3. SetReset("pll_sys") \in Seq(Insn) /\ Len(SetReset("pll_sys")) = 2
  BY DEF Insn, SetReset
<1>4. SetPll("pll_usb", 100, 5, 5) \in Seq(Insn)
      /\ Len(SetPll("pll_usb", 100, 5, 5)) = 6
  BY DEF Insn, SetPll
<1>5. SetPll("pll_sys", 125, 5, 2) \in Seq(Insn)
      /\ Len(SetPll("pll_sys", 125, 5, 2)) = 6
  BY DEF Insn, SetPll
<1>6. SetRef \in Seq(Insn) /\ Len(SetRef) = 3
  BY DEF Insn, SetRef
<1>7. SetSys \in Seq(Insn) /\ Len(SetSys) = 4
  BY DEF Insn, SetSys
<1>8. SetGated("usb", "pll_usb") \in Seq(Insn) /\ Len(SetGated("usb", "pll_usb")) = 5
  BY DEF Insn, SetGated
<1>9. SetGated("adc", "pll_usb") \in Seq(Insn) /\ Len(SetGated("adc", "pll_usb")) = 5
  BY DEF Insn, SetGated
<1>10. SetGated("peri", "sys") \in Seq(Insn) /\ Len(SetGated("peri", "sys")) = 5
  BY DEF Insn, SetGated
<1>11. SetGated("hstx", "sys") \in Seq(Insn) /\ Len(SetGated("hstx", "sys")) = 5
  BY DEF Insn, SetGated
<1>12. RiscvTicks \in Seq(Insn) /\ Len(RiscvTicks) = 1
  BY DEF Insn, RiscvTicks
<1>13. SetReset("uart0") \in Seq(Insn) /\ Len(SetReset("uart0")) = 2
  BY DEF Insn, SetReset
<1>14. SetUart0Pinmux \in Seq(Insn) /\ Len(SetUart0Pinmux) = 4
  BY DEF Insn, SetUart0Pinmux
<1>15. LedPin \in Seq(Insn) /\ Len(LedPin) = 2
  BY DEF Insn, LedPin
<1>16. UartInit \in Seq(Insn) /\ Len(UartInit) = 1
  BY DEF Insn, UartInit
<1> QED
  BY <1>1, <1>2, <1>3, <1>4, <1>5, <1>6, <1>7, <1>8, <1>9, <1>10, <1>11, <1>12, <1>13,
     <1>14, <1>15, <1>16

\* The instructions and their places.
LEMMA ProgramIs ==
  /\ Done = 56
  /\ Program[1] = Xosc /\ Program[2] = Poll("xosc", "xosc")
  /\ Program[3] = Unreset("pll_usb") /\ Program[4] = Poll("reset", "pll_usb")
  /\ Program[5] = Unreset("pll_sys") /\ Program[6] = Poll("reset", "pll_sys")
  /\ Program[7] = Write("pll_usb", "ref", 1)
  /\ Program[8] = Write("pll_usb", "fb", 100)
  /\ Program[9] = Write("pll_usb", "power", TRUE)
  /\ Program[10] = Poll("lock", "pll_usb")
  /\ Program[11] = Write("pll_usb", "post", 5 * 5)
  /\ Program[12] = Write("pll_usb", "out", TRUE)
  /\ Program[13] = Write("pll_sys", "ref", 1)
  /\ Program[14] = Write("pll_sys", "fb", 125)
  /\ Program[15] = Write("pll_sys", "power", TRUE)
  /\ Program[16] = Poll("lock", "pll_sys")
  /\ Program[17] = Write("pll_sys", "post", 5 * 2)
  /\ Program[18] = Write("pll_sys", "out", TRUE) /\ Program[19] = Delay
  /\ Program[20] = Ctrl("ref", "xosc", "none") /\ Program[21] = Div("ref", 1)
  /\ Program[22] = Ctrl("sys", "ref", "pll_sys")
  /\ Program[23] = Ctrl("sys", "ref", "pll_sys")
  /\ Program[24] = Ctrl("sys", "aux", "pll_sys") /\ Program[25] = Div("sys", 1)
  /\ Program[26] = Gate("usb", FALSE) /\ Program[27] = Delay
  /\ Program[28] = Ctrl("usb", "none", "pll_usb") /\ Program[29] = Gate("usb", TRUE)
  /\ Program[30] = Div("usb", 1) /\ Program[31] = Gate("adc", FALSE)
  /\ Program[32] = Delay /\ Program[33] = Ctrl("adc", "none", "pll_usb")
  /\ Program[34] = Gate("adc", TRUE) /\ Program[35] = Div("adc", 1)
  /\ Program[36] = Gate("peri", FALSE) /\ Program[37] = Delay
  /\ Program[38] = Ctrl("peri", "none", "sys") /\ Program[39] = Gate("peri", TRUE)
  /\ Program[40] = Div("peri", 1) /\ Program[41] = Gate("hstx", FALSE)
  /\ Program[42] = Delay /\ Program[43] = Ctrl("hstx", "none", "sys")
  /\ Program[44] = Gate("hstx", TRUE) /\ Program[45] = Div("hstx", 1)
  /\ Program[46] = RiscvTicks[1] /\ Program[47] = Unreset("uart0")
  /\ Program[48] = Poll("reset", "uart0") /\ Program[49] = Pad("tx", {})
  /\ Program[50] = Pad("rx", {"ie"}) /\ Program[51] = Func("tx", "uart")
  /\ Program[52] = Func("rx", "uart") /\ Program[53] = Pad("led", {})
  /\ Program[54] = Func("led", "sio") /\ Program[55] = UartInit[1]
<1> DEFINE t1 == XoscInit
           t2 == t1 \o SetReset("pll_usb")
           t3 == t2 \o SetReset("pll_sys")
           t4 == t3 \o SetPll("pll_usb", 100, 5, 5)
           t5 == t4 \o SetPll("pll_sys", 125, 5, 2)
           t6 == t5 \o SetRef
           t7 == t6 \o SetSys
           t8 == t7 \o SetGated("usb", "pll_usb")
           t9 == t8 \o SetGated("adc", "pll_usb")
           t10 == t9 \o SetGated("peri", "sys")
           t11 == t10 \o SetGated("hstx", "sys")
           t12 == t11 \o RiscvTicks
           t13 == t12 \o SetReset("uart0")
           t14 == t13 \o SetUart0Pinmux
           t15 == t14 \o LedPin
           t16 == Program
<1>1. /\ t1 = XoscInit
      /\ t2 = t1 \o SetReset("pll_usb")
      /\ t3 = t2 \o SetReset("pll_sys")
      /\ t4 = t3 \o SetPll("pll_usb", 100, 5, 5)
      /\ t5 = t4 \o SetPll("pll_sys", 125, 5, 2)
      /\ t6 = t5 \o SetRef
      /\ t7 = t6 \o SetSys
      /\ t8 = t7 \o SetGated("usb", "pll_usb")
      /\ t9 = t8 \o SetGated("adc", "pll_usb")
      /\ t10 = t9 \o SetGated("peri", "sys")
      /\ t11 = t10 \o SetGated("hstx", "sys")
      /\ t12 = t11 \o RiscvTicks
      /\ t13 = t12 \o SetReset("uart0")
      /\ t14 = t13 \o SetUart0Pinmux
      /\ t15 = t14 \o LedPin
      /\ t16 = t15 \o UartInit
  BY Zenon DEF Program
<1>2. t16 = Program
  OBVIOUS
<1> HIDE DEF t1, t2, t3, t4, t5, t6, t7, t8, t9, t10, t11, t12, t13, t14, t15, t16
<1>3. t1 \in Seq(Insn) /\ Len(t1) = 2
  BY <1>1, PartsAre
<1>4. /\ Joint(t2, t1, 2, SetReset("pll_usb"), 2)
      /\ t2 \in Seq(Insn) /\ Len(t2) = 4
  <2>1. Joint(t2, t1, 2, SetReset("pll_usb"), 2)
    BY <1>1, <1>3, PartsAre DEF Joint
  <2>2. t2 \in Seq(Insn) /\ Len(t2) = 2 + 2
    BY <2>1, JointIs, Zenon
  <2> QED
    BY <2>1, <2>2
<1>5. /\ Joint(t3, t2, 4, SetReset("pll_sys"), 2)
      /\ t3 \in Seq(Insn) /\ Len(t3) = 6
  <2>1. Joint(t3, t2, 4, SetReset("pll_sys"), 2)
    BY <1>1, <1>4, PartsAre DEF Joint
  <2>2. t3 \in Seq(Insn) /\ Len(t3) = 4 + 2
    BY <2>1, JointIs, Zenon
  <2> QED
    BY <2>1, <2>2
<1>6. /\ Joint(t4, t3, 6, SetPll("pll_usb", 100, 5, 5), 6)
      /\ t4 \in Seq(Insn) /\ Len(t4) = 12
  <2>1. Joint(t4, t3, 6, SetPll("pll_usb", 100, 5, 5), 6)
    BY <1>1, <1>5, PartsAre DEF Joint
  <2>2. t4 \in Seq(Insn) /\ Len(t4) = 6 + 6
    BY <2>1, JointIs, Zenon
  <2> QED
    BY <2>1, <2>2
<1>7. /\ Joint(t5, t4, 12, SetPll("pll_sys", 125, 5, 2), 6)
      /\ t5 \in Seq(Insn) /\ Len(t5) = 18
  <2>1. Joint(t5, t4, 12, SetPll("pll_sys", 125, 5, 2), 6)
    BY <1>1, <1>6, PartsAre DEF Joint
  <2>2. t5 \in Seq(Insn) /\ Len(t5) = 12 + 6
    BY <2>1, JointIs, Zenon
  <2> QED
    BY <2>1, <2>2
<1>8. /\ Joint(t6, t5, 18, SetRef, 3)
      /\ t6 \in Seq(Insn) /\ Len(t6) = 21
  <2>1. Joint(t6, t5, 18, SetRef, 3)
    BY <1>1, <1>7, PartsAre DEF Joint
  <2>2. t6 \in Seq(Insn) /\ Len(t6) = 18 + 3
    BY <2>1, JointIs, Zenon
  <2> QED
    BY <2>1, <2>2
<1>9. /\ Joint(t7, t6, 21, SetSys, 4)
      /\ t7 \in Seq(Insn) /\ Len(t7) = 25
  <2>1. Joint(t7, t6, 21, SetSys, 4)
    BY <1>1, <1>8, PartsAre DEF Joint
  <2>2. t7 \in Seq(Insn) /\ Len(t7) = 21 + 4
    BY <2>1, JointIs, Zenon
  <2> QED
    BY <2>1, <2>2
<1>10. /\ Joint(t8, t7, 25, SetGated("usb", "pll_usb"), 5)
      /\ t8 \in Seq(Insn) /\ Len(t8) = 30
  <2>1. Joint(t8, t7, 25, SetGated("usb", "pll_usb"), 5)
    BY <1>1, <1>9, PartsAre DEF Joint
  <2>2. t8 \in Seq(Insn) /\ Len(t8) = 25 + 5
    BY <2>1, JointIs, Zenon
  <2> QED
    BY <2>1, <2>2
<1>11. /\ Joint(t9, t8, 30, SetGated("adc", "pll_usb"), 5)
      /\ t9 \in Seq(Insn) /\ Len(t9) = 35
  <2>1. Joint(t9, t8, 30, SetGated("adc", "pll_usb"), 5)
    BY <1>1, <1>10, PartsAre DEF Joint
  <2>2. t9 \in Seq(Insn) /\ Len(t9) = 30 + 5
    BY <2>1, JointIs, Zenon
  <2> QED
    BY <2>1, <2>2
<1>12. /\ Joint(t10, t9, 35, SetGated("peri", "sys"), 5)
      /\ t10 \in Seq(Insn) /\ Len(t10) = 40
  <2>1. Joint(t10, t9, 35, SetGated("peri", "sys"), 5)
    BY <1>1, <1>11, PartsAre DEF Joint
  <2>2. t10 \in Seq(Insn) /\ Len(t10) = 35 + 5
    BY <2>1, JointIs, Zenon
  <2> QED
    BY <2>1, <2>2
<1>13. /\ Joint(t11, t10, 40, SetGated("hstx", "sys"), 5)
      /\ t11 \in Seq(Insn) /\ Len(t11) = 45
  <2>1. Joint(t11, t10, 40, SetGated("hstx", "sys"), 5)
    BY <1>1, <1>12, PartsAre DEF Joint
  <2>2. t11 \in Seq(Insn) /\ Len(t11) = 40 + 5
    BY <2>1, JointIs, Zenon
  <2> QED
    BY <2>1, <2>2
<1>14. /\ Joint(t12, t11, 45, RiscvTicks, 1)
      /\ t12 \in Seq(Insn) /\ Len(t12) = 46
  <2>1. Joint(t12, t11, 45, RiscvTicks, 1)
    BY <1>1, <1>13, PartsAre DEF Joint
  <2>2. t12 \in Seq(Insn) /\ Len(t12) = 45 + 1
    BY <2>1, JointIs, Zenon
  <2> QED
    BY <2>1, <2>2
<1>15. /\ Joint(t13, t12, 46, SetReset("uart0"), 2)
      /\ t13 \in Seq(Insn) /\ Len(t13) = 48
  <2>1. Joint(t13, t12, 46, SetReset("uart0"), 2)
    BY <1>1, <1>14, PartsAre DEF Joint
  <2>2. t13 \in Seq(Insn) /\ Len(t13) = 46 + 2
    BY <2>1, JointIs, Zenon
  <2> QED
    BY <2>1, <2>2
<1>16. /\ Joint(t14, t13, 48, SetUart0Pinmux, 4)
      /\ t14 \in Seq(Insn) /\ Len(t14) = 52
  <2>1. Joint(t14, t13, 48, SetUart0Pinmux, 4)
    BY <1>1, <1>15, PartsAre DEF Joint
  <2>2. t14 \in Seq(Insn) /\ Len(t14) = 48 + 4
    BY <2>1, JointIs, Zenon
  <2> QED
    BY <2>1, <2>2
<1>17. /\ Joint(t15, t14, 52, LedPin, 2)
      /\ t15 \in Seq(Insn) /\ Len(t15) = 54
  <2>1. Joint(t15, t14, 52, LedPin, 2)
    BY <1>1, <1>16, PartsAre DEF Joint
  <2>2. t15 \in Seq(Insn) /\ Len(t15) = 52 + 2
    BY <2>1, JointIs, Zenon
  <2> QED
    BY <2>1, <2>2
<1>18. /\ Joint(t16, t15, 54, UartInit, 1)
      /\ t16 \in Seq(Insn) /\ Len(t16) = 55
  <2>1. Joint(t16, t15, 54, UartInit, 1)
    BY <1>1, <1>17, PartsAre DEF Joint
  <2>2. t16 \in Seq(Insn) /\ Len(t16) = 54 + 1
    BY <2>1, JointIs, Zenon
  <2> QED
    BY <2>1, <2>2
<1>19. Starts(t16)
  BY <1>2, <1>18 DEF Starts
<1>20. Starts(t15) /\ Has(54, UartInit)
  BY <1>19, <1>18, Splits
<1>21. Starts(t14) /\ Has(52, LedPin)
  BY <1>20, <1>17, Splits
<1>22. Starts(t13) /\ Has(48, SetUart0Pinmux)
  BY <1>21, <1>16, Splits
<1>23. Starts(t12) /\ Has(46, SetReset("uart0"))
  BY <1>22, <1>15, Splits
<1>24. Starts(t11) /\ Has(45, RiscvTicks)
  BY <1>23, <1>14, Splits
<1>25. Starts(t10) /\ Has(40, SetGated("hstx", "sys"))
  BY <1>24, <1>13, Splits
<1>26. Starts(t9) /\ Has(35, SetGated("peri", "sys"))
  BY <1>25, <1>12, Splits
<1>27. Starts(t8) /\ Has(30, SetGated("adc", "pll_usb"))
  BY <1>26, <1>11, Splits
<1>28. Starts(t7) /\ Has(25, SetGated("usb", "pll_usb"))
  BY <1>27, <1>10, Splits
<1>29. Starts(t6) /\ Has(21, SetSys)
  BY <1>28, <1>9, Splits
<1>30. Starts(t5) /\ Has(18, SetRef)
  BY <1>29, <1>8, Splits
<1>31. Starts(t4) /\ Has(12, SetPll("pll_sys", 125, 5, 2))
  BY <1>30, <1>7, Splits
<1>32. Starts(t3) /\ Has(6, SetPll("pll_usb", 100, 5, 5))
  BY <1>31, <1>6, Splits
<1>33. Starts(t2) /\ Has(4, SetReset("pll_sys"))
  BY <1>32, <1>5, Splits
<1>34. Starts(t1) /\ Has(2, SetReset("pll_usb"))
  BY <1>33, <1>4, Splits
<1>35. /\ Program[1] = Xosc /\ Program[2] = Poll("xosc", "xosc")
  <2>1. Program[1] = t1[1] /\ Program[2] = t1[2]
    BY <1>3, <1>34 DEF Starts
  <2> QED
    BY <1>1, <2>1 DEF XoscInit
<1>36. /\ Program[3] = Unreset("pll_usb") /\ Program[4] = Poll("reset", "pll_usb")
  <2>1. /\ Program[3] = SetReset("pll_usb")[1] /\ Program[4] = SetReset("pll_usb")[2]
    BY <1>34, PartsAre DEF Has
  <2> QED
    BY <2>1 DEF SetReset
<1>37. /\ Program[5] = Unreset("pll_sys") /\ Program[6] = Poll("reset", "pll_sys")
  <2>1. /\ Program[5] = SetReset("pll_sys")[1] /\ Program[6] = SetReset("pll_sys")[2]
    BY <1>33, PartsAre DEF Has
  <2> QED
    BY <2>1 DEF SetReset
<1>38. /\ Program[7] = Write("pll_usb", "ref", 1)
      /\ Program[8] = Write("pll_usb", "fb", 100)
      /\ Program[9] = Write("pll_usb", "power", TRUE)
      /\ Program[10] = Poll("lock", "pll_usb")
      /\ Program[11] = Write("pll_usb", "post", 5 * 5)
      /\ Program[12] = Write("pll_usb", "out", TRUE)
  <2>1. /\ Program[7] = SetPll("pll_usb", 100, 5, 5)[1]
        /\ Program[8] = SetPll("pll_usb", 100, 5, 5)[2]
        /\ Program[9] = SetPll("pll_usb", 100, 5, 5)[3]
        /\ Program[10] = SetPll("pll_usb", 100, 5, 5)[4]
        /\ Program[11] = SetPll("pll_usb", 100, 5, 5)[5]
        /\ Program[12] = SetPll("pll_usb", 100, 5, 5)[6]
    BY <1>32, PartsAre DEF Has
  <2> QED
    BY <2>1 DEF SetPll
<1>39. /\ Program[13] = Write("pll_sys", "ref", 1)
      /\ Program[14] = Write("pll_sys", "fb", 125)
      /\ Program[15] = Write("pll_sys", "power", TRUE)
      /\ Program[16] = Poll("lock", "pll_sys")
      /\ Program[17] = Write("pll_sys", "post", 5 * 2)
      /\ Program[18] = Write("pll_sys", "out", TRUE)
  <2>1. /\ Program[13] = SetPll("pll_sys", 125, 5, 2)[1]
        /\ Program[14] = SetPll("pll_sys", 125, 5, 2)[2]
        /\ Program[15] = SetPll("pll_sys", 125, 5, 2)[3]
        /\ Program[16] = SetPll("pll_sys", 125, 5, 2)[4]
        /\ Program[17] = SetPll("pll_sys", 125, 5, 2)[5]
        /\ Program[18] = SetPll("pll_sys", 125, 5, 2)[6]
    BY <1>31, PartsAre DEF Has
  <2> QED
    BY <2>1 DEF SetPll
<1>40. /\ Program[19] = Delay /\ Program[20] = Ctrl("ref", "xosc", "none")
      /\ Program[21] = Div("ref", 1)
  <2>1. /\ Program[19] = SetRef[1] /\ Program[20] = SetRef[2]
        /\ Program[21] = SetRef[3]
    BY <1>30, PartsAre DEF Has
  <2> QED
    BY <2>1 DEF SetRef
<1>41. /\ Program[22] = Ctrl("sys", "ref", "pll_sys")
      /\ Program[23] = Ctrl("sys", "ref", "pll_sys")
      /\ Program[24] = Ctrl("sys", "aux", "pll_sys") /\ Program[25] = Div("sys", 1)
  <2>1. /\ Program[22] = SetSys[1] /\ Program[23] = SetSys[2]
        /\ Program[24] = SetSys[3] /\ Program[25] = SetSys[4]
    BY <1>29, PartsAre DEF Has
  <2> QED
    BY <2>1 DEF SetSys
<1>42. /\ Program[26] = Gate("usb", FALSE) /\ Program[27] = Delay
      /\ Program[28] = Ctrl("usb", "none", "pll_usb")
      /\ Program[29] = Gate("usb", TRUE) /\ Program[30] = Div("usb", 1)
  <2>1. /\ Program[26] = SetGated("usb", "pll_usb")[1]
        /\ Program[27] = SetGated("usb", "pll_usb")[2]
        /\ Program[28] = SetGated("usb", "pll_usb")[3]
        /\ Program[29] = SetGated("usb", "pll_usb")[4]
        /\ Program[30] = SetGated("usb", "pll_usb")[5]
    BY <1>28, PartsAre DEF Has
  <2> QED
    BY <2>1 DEF SetGated
<1>43. /\ Program[31] = Gate("adc", FALSE) /\ Program[32] = Delay
      /\ Program[33] = Ctrl("adc", "none", "pll_usb")
      /\ Program[34] = Gate("adc", TRUE) /\ Program[35] = Div("adc", 1)
  <2>1. /\ Program[31] = SetGated("adc", "pll_usb")[1]
        /\ Program[32] = SetGated("adc", "pll_usb")[2]
        /\ Program[33] = SetGated("adc", "pll_usb")[3]
        /\ Program[34] = SetGated("adc", "pll_usb")[4]
        /\ Program[35] = SetGated("adc", "pll_usb")[5]
    BY <1>27, PartsAre DEF Has
  <2> QED
    BY <2>1 DEF SetGated
<1>44. /\ Program[36] = Gate("peri", FALSE) /\ Program[37] = Delay
      /\ Program[38] = Ctrl("peri", "none", "sys")
      /\ Program[39] = Gate("peri", TRUE) /\ Program[40] = Div("peri", 1)
  <2>1. /\ Program[36] = SetGated("peri", "sys")[1]
        /\ Program[37] = SetGated("peri", "sys")[2]
        /\ Program[38] = SetGated("peri", "sys")[3]
        /\ Program[39] = SetGated("peri", "sys")[4]
        /\ Program[40] = SetGated("peri", "sys")[5]
    BY <1>26, PartsAre DEF Has
  <2> QED
    BY <2>1 DEF SetGated
<1>45. /\ Program[41] = Gate("hstx", FALSE) /\ Program[42] = Delay
      /\ Program[43] = Ctrl("hstx", "none", "sys")
      /\ Program[44] = Gate("hstx", TRUE) /\ Program[45] = Div("hstx", 1)
  <2>1. /\ Program[41] = SetGated("hstx", "sys")[1]
        /\ Program[42] = SetGated("hstx", "sys")[2]
        /\ Program[43] = SetGated("hstx", "sys")[3]
        /\ Program[44] = SetGated("hstx", "sys")[4]
        /\ Program[45] = SetGated("hstx", "sys")[5]
    BY <1>25, PartsAre DEF Has
  <2> QED
    BY <2>1 DEF SetGated
<1>46. /\ Program[46] = RiscvTicks[1]
  BY <1>24, PartsAre DEF Has, RiscvTicks
<1>47. /\ Program[47] = Unreset("uart0") /\ Program[48] = Poll("reset", "uart0")
  <2>1. /\ Program[47] = SetReset("uart0")[1] /\ Program[48] = SetReset("uart0")[2]
    BY <1>23, PartsAre DEF Has
  <2> QED
    BY <2>1 DEF SetReset
<1>48. /\ Program[49] = Pad("tx", {}) /\ Program[50] = Pad("rx", {"ie"})
      /\ Program[51] = Func("tx", "uart") /\ Program[52] = Func("rx", "uart")
  <2>1. /\ Program[49] = SetUart0Pinmux[1] /\ Program[50] = SetUart0Pinmux[2]
        /\ Program[51] = SetUart0Pinmux[3] /\ Program[52] = SetUart0Pinmux[4]
    BY <1>22, PartsAre DEF Has
  <2> QED
    BY <2>1 DEF SetUart0Pinmux
<1>49. /\ Program[53] = Pad("led", {}) /\ Program[54] = Func("led", "sio")
  <2>1. /\ Program[53] = LedPin[1] /\ Program[54] = LedPin[2]
    BY <1>21, PartsAre DEF Has
  <2> QED
    BY <2>1 DEF LedPin
<1>50. /\ Program[55] = UartInit[1]
  BY <1>20, PartsAre DEF Has, UartInit
<1>51. Done = 56
  BY <1>2, <1>18 DEF Done
<1> QED
  BY <1>35, <1>36, <1>37, <1>38, <1>39, <1>40, <1>41, <1>42, <1>43,
     <1>44, <1>45, <1>46, <1>47, <1>48, <1>49, <1>50, <1>51

\* The places of the instructions of each kind.
LEMMA Kinds ==
  ASSUME pc \in 1 .. 56
  PROVE  /\ Done = 56
         /\ At("xosc") => pc = 1
         /\ At("poll") => pc \in {2, 4, 6, 10, 16, 48}
         /\ At("unreset") => pc \in {3, 5, 47}
         /\ At("pll") => pc \in {7, 8, 9, 11, 12, 13, 14, 15, 17, 18}
         /\ At("delay") => pc \in {19, 27, 32, 37, 42}
         /\ At("ctrl") => pc \in {20, 22, 23, 24, 28, 33, 38, 43}
         /\ At("div") => pc \in {21, 25, 30, 35, 40, 45}
         /\ At("gate") => pc \in {26, 29, 31, 34, 36, 39, 41, 44}
         /\ At("ticks") => pc = 46
         /\ At("pad") => pc \in {49, 50, 53}
         /\ At("func") => pc \in {51, 52, 54}
         /\ At("uart") => pc = 55
<1>1. /\ Done = 56
      /\ Program[1].do = "xosc"
      /\ \A n \in {2, 4, 6, 10, 16, 48} : Program[n].do = "poll"
      /\ \A n \in {3, 5, 47} : Program[n].do = "unreset"
      /\ \A n \in {7, 8, 9, 11, 12, 13, 14, 15, 17, 18} : Program[n].do = "pll"
      /\ \A n \in {19, 27, 32, 37, 42} : Program[n].do = "delay"
      /\ \A n \in {20, 22, 23, 24, 28, 33, 38, 43} : Program[n].do = "ctrl"
      /\ \A n \in {21, 25, 30, 35, 40, 45} : Program[n].do = "div"
      /\ \A n \in {26, 29, 31, 34, 36, 39, 41, 44} : Program[n].do = "gate"
      /\ Program[46].do = "ticks"
      /\ \A n \in {49, 50, 53} : Program[n].do = "pad"
      /\ \A n \in {51, 52, 54} : Program[n].do = "func"
      /\ Program[55].do = "uart"
  BY ProgramIs DEF Xosc, Poll, Unreset, Write, Gate, Ctrl, Div, Delay, Pad, Func,
     RiscvTicks, UartInit
<1> QED
  BY <1>1 DEF At

\* The parts of the invariant that a step leaves alone: it changes none of the
\* variables of that part, and is not at an instruction that the part tells apart.
LEMMA Untouched ==
  ASSUME IInv, pc' \in 1 .. 56, pc' \in {pc, pc + 1}
  PROVE  /\ UNCHANGED <<xosc, reset>> /\ (pc' = pc \/ pc \notin {1, 2, 4, 6, 48})
            => Polled'
         /\ UNCHANGED pll /\ (pc' = pc \/ pc \notin {8, 10, 11, 12, 14, 16, 17, 18})
            => PllsAreSet'
         /\ UNCHANGED <<src, sel>> /\ (pc' = pc \/ pc \notin {20, 22, 24, 27})
            => MuxesAreSet'
         /\ pc' > 22 \/ UNCHANGED <<src, sel, aux>> => FromReset'
         /\ UNCHANGED aux /\ (pc' = pc \/ pc \notin {22, 28, 33, 38, 43}) => AuxIsSet'
         /\ /\ UNCHANGED <<aux, enabled, running>>
            /\ \/ pc' = pc
               \/ pc \notin {26, 27, 29, 31, 32, 34, 36, 37, 39, 41, 42, 44}
            => GatesFollow'
         /\ UNCHANGED div /\ (pc' = pc \/ pc \notin {21, 25, 40}) => DividersAreSet'
         /\ /\ UNCHANGED <<ticks, uart, pins>>
            /\ pc' = pc \/ pc \notin {49, 50, 51, 52}
            => LateDevices'
<1>0. pc \in 1 .. 56
  BY DEF IInv, Shape
<1>1. UNCHANGED <<xosc, reset>> /\ (pc' = pc \/ pc \notin {1, 2, 4, 6, 48}) => Polled'
  BY <1>0 DEF IInv, Polled
<1>2. UNCHANGED pll /\ (pc' = pc \/ pc \notin {8, 10, 11, 12, 14, 16, 17, 18})
      => PllsAreSet'
  BY <1>0 DEF IInv, PllsAreSet
<1>3. UNCHANGED <<src, sel>> /\ (pc' = pc \/ pc \notin {20, 22, 24, 27}) => MuxesAreSet'
  BY <1>0 DEF IInv, MuxesAreSet
<1>8. pc' > 22 \/ UNCHANGED <<src, sel, aux>> => FromReset'
  BY <1>0 DEF IInv, FromReset
<1>4. UNCHANGED aux /\ (pc' = pc \/ pc \notin {22, 28, 33, 38, 43}) => AuxIsSet'
  BY <1>0 DEF IInv, AuxIsSet, Gated, Closes
<1>5. ASSUME UNCHANGED <<aux, enabled, running>>,
             \/ pc' = pc
             \/ pc \notin {26, 27, 29, 31, 32, 34, 36, 37, 39, 41, 42, 44}
      PROVE  GatesFollow'
  BY <1>0, <1>5 DEF IInv, GatesFollow, Gated, Closes
<1>6. UNCHANGED div /\ (pc' = pc \/ pc \notin {21, 25, 40}) => DividersAreSet'
  BY <1>0 DEF IInv, DividersAreSet
<1>7. ASSUME UNCHANGED <<ticks, uart, pins>>, pc' = pc \/ pc \notin {49, 50, 51, 52}
      PROVE  LateDevices'
  BY <1>0, <1>7 DEF IInv, LateDevices
<1> QED
  BY <1>1, <1>2, <1>3, <1>4, <1>5, <1>6, <1>7, <1>8

\* Moving on is to one of the places.
LEMMA Moves ==
  ASSUME IInv, NEW action, Step(action)
  PROVE  /\ At(action) /\ pc \in 1 .. 55 /\ pc' = pc + 1 /\ pc' \in 1 .. 56
BY Kinds DEF Step, At, IInv, Shape

-----------------------------------------------------------------------------
(* Every step keeps the invariant                                          *)

\* The crystal is started.
LEMMA StartXoscKeeps == ASSUME IInv, StartXosc PROVE IInv'
<1>1. pc = 1 /\ pc' = 2
  BY Kinds, Moves DEF StartXosc
<1>2. /\ xosc' = IF xosc = "off" THEN "starting" ELSE xosc
      /\ UNCHANGED <<reset, pll, src, sel, aux, enabled, running, div, ticks, pins,
                     uart>>
  BY DEF StartXosc
<1>3. Shape'
  BY <1>1, <1>2 DEF IInv, Shape
<1>4. Polled'
  BY <1>1, <1>2 DEF IInv, Polled, Shape
<1> QED
  BY <1>1, <1>2, <1>3, <1>4, Untouched DEF IInv

\* A poll lets main by when what it waits for is there.
LEMMA PollBitKeeps == ASSUME IInv, PollBit PROVE IInv'
<1>1. pc \in {2, 4, 6, 10, 16, 48} /\ pc' = pc + 1 /\ pc' \in 1 .. 56
  BY Kinds, Moves DEF PollBit
<1>2. UNCHANGED <<tree, ticks, pins, uart>>
  BY DEF PollBit
<1>3. UNCHANGED <<xosc, reset, pll, src, sel, aux, enabled, running, div, ticks, pins,
                  uart>>
  BY <1>2 DEF tree
<1>4. Shape'
  BY <1>1, <1>3 DEF IInv, Shape
<1>5. /\ pc = 2 => xosc = "stable"
      /\ pc = 4 => reset["pll_usb"] = "done"
      /\ pc = 6 => reset["pll_sys"] = "done"
      /\ pc = 10 => pll["pll_usb"].locked
      /\ pc = 16 => pll["pll_sys"].locked
      /\ pc = 48 => reset["uart0"] = "done"
  <2>1. /\ Now.what = "xosc" => xosc = "stable"
        /\ Now.what = "reset" => reset[Now.of] = "done"
        /\ Now.what = "lock" => pll[Now.of].locked
    BY DEF PollBit
  <2>2. /\ pc = 2 => Now.what = "xosc"
        /\ pc = 4 => Now.what = "reset" /\ Now.of = "pll_usb"
        /\ pc = 6 => Now.what = "reset" /\ Now.of = "pll_sys"
        /\ pc = 10 => Now.what = "lock" /\ Now.of = "pll_usb"
        /\ pc = 16 => Now.what = "lock" /\ Now.of = "pll_sys"
        /\ pc = 48 => Now.what = "reset" /\ Now.of = "uart0"
    BY ProgramIs DEF Now, Poll
  <2> QED
    BY <2>1, <2>2
<1>6. Polled'
  BY <1>1, <1>3, <1>5 DEF IInv, Polled
<1>7. PllsAreSet'
  BY <1>1, <1>3, <1>5 DEF IInv, PllsAreSet
<1> QED
  BY <1>1, <1>3, <1>4, <1>6, <1>7, Untouched DEF IInv

\* A block is let out of reset.
LEMMA ClearResetKeeps == ASSUME IInv, ClearReset PROVE IInv'
<1>1. pc \in {3, 5, 47} /\ pc' = pc + 1 /\ pc' \in 1 .. 56
  BY Kinds, Moves DEF ClearReset
<1>2. /\ reset' = [reset EXCEPT ![Now.of] = IF @ = "held" THEN "leaving" ELSE @]
      /\ UNCHANGED <<xosc, pll, src, sel, aux, enabled, running, div, ticks, pins,
                     uart>>
  BY DEF ClearReset
<1>3. reset \in [Blocks -> {"held", "leaving", "done"}]
  BY DEF IInv, Shape
<1>4. /\ reset' \in [Blocks -> {"held", "leaving", "done"}]
      /\ \A b \in Blocks : reset[b] = "done" => reset'[b] = "done"
  BY <1>2, <1>3
<1>5. Shape'
  BY <1>1, <1>2, <1>4 DEF IInv, Shape
<1>6. Polled'
  BY <1>1, <1>2, <1>4 DEF IInv, Polled, Blocks, Plls
<1> QED
  BY <1>1, <1>2, <1>5, <1>6, Untouched DEF IInv

\* A register of a PLL that is out of reset takes the write.
LEMMA WritePllKeeps == ASSUME IInv, WritePll PROVE IInv'
<1>1. pc \in {7, 8, 9, 11, 12, 13, 14, 15, 17, 18} /\ pc' = pc + 1 /\ pc' \in 1 .. 56
  BY Kinds, Moves DEF WritePll
<1>2. /\ pll' = IF reset[Now.of] = "done" THEN [pll EXCEPT ![Now.of][Now.reg] = Now.val]
                ELSE pll
      /\ UNCHANGED <<xosc, reset, src, sel, aux, enabled, running, div, ticks, pins,
                     uart>>
  BY DEF WritePll
<1>3. /\ pc \in 7 .. 12 => Now.of = "pll_usb" /\ reset["pll_usb"] = "done"
      /\ pc \in 13 .. 18 => Now.of = "pll_sys" /\ reset["pll_sys"] = "done"
  BY <1>1, ProgramIs DEF Now, Write, IInv, Polled
<1>4. /\ pc \in {7, 13} => Now.reg = "ref" /\ Now.val = 1
      /\ pc = 8 => Now.reg = "fb" /\ Now.val = 100
      /\ pc = 14 => Now.reg = "fb" /\ Now.val = 125
      /\ pc \in {9, 15} => Now.reg = "power" /\ Now.val = TRUE
      /\ pc = 11 => Now.reg = "post" /\ Now.val = 25
      /\ pc = 17 => Now.reg = "post" /\ Now.val = 10
      /\ pc \in {12, 18} => Now.reg = "out" /\ Now.val = TRUE
  BY ProgramIs DEF Now, Write
<1>5. pll \in [Plls -> PllRegs]
  BY DEF IInv, Shape
<1>6. ASSUME NEW p \in Plls, NEW r \in {"ref", "fb", "power", "post", "out"}, NEW v,
             pll' = [pll EXCEPT ![p][r] = v],
             CASE r = "ref" -> v = 1 [] r = "fb" -> v \in Nat
               [] r = "post" -> v \in Nat \ {0} [] OTHER -> v = TRUE
      PROVE  /\ pll' \in [Plls -> PllRegs]
             /\ pll'[p] = [pll[p] EXCEPT ![r] = v]
             /\ \A q \in Plls \ {p} : pll'[q] = pll[q]
  <2>1. [pll[p] EXCEPT ![r] = v] \in PllRegs
    BY <1>5, <1>6 DEF PllRegs
  <2> QED
    BY <1>5, <1>6, <2>1
<1>7. /\ pc \in 7 .. 12 => pll' = [pll EXCEPT !["pll_usb"][Now.reg] = Now.val]
      /\ pc \in 13 .. 18 => pll' = [pll EXCEPT !["pll_sys"][Now.reg] = Now.val]
  BY <1>2, <1>3
<1>8. /\ Now.reg \in {"ref", "fb", "power", "post", "out"}
      /\ CASE Now.reg = "ref" -> Now.val = 1 [] Now.reg = "fb" -> Now.val \in Nat
           [] Now.reg = "post" -> Now.val \in Nat \ {0} [] OTHER -> Now.val = TRUE
  BY <1>1, <1>4
<1>9. /\ pll' \in [Plls -> PllRegs]
      /\ pc \in 7 .. 12 =>
           /\ pll'["pll_usb"] = [pll["pll_usb"] EXCEPT ![Now.reg] = Now.val]
           /\ pll'["pll_sys"] = pll["pll_sys"]
      /\ pc \in 13 .. 18 =>
           /\ pll'["pll_sys"] = [pll["pll_sys"] EXCEPT ![Now.reg] = Now.val]
           /\ pll'["pll_usb"] = pll["pll_usb"]
  <2>1. CASE pc \in 7 .. 12
    BY <1>6, <1>7, <1>8, <2>1 DEF Plls
  <2>2. CASE pc \in 13 .. 18
    BY <1>6, <1>7, <1>8, <2>2 DEF Plls
  <2> QED
    BY <1>1, <2>1, <2>2
<1>10. Shape'
  BY <1>1, <1>2, <1>9 DEF IInv, Shape
<1>11. PllsAreSet'
  <2>1. /\ pll["pll_usb"] \in PllRegs /\ pll["pll_sys"] \in PllRegs
    BY <1>5 DEF Plls
  <2>2. CASE pc \in 7 .. 12
    BY <1>1, <1>4, <1>9, <2>1, <2>2 DEF IInv, PllsAreSet, PllRegs
  <2>3. CASE pc \in 13 .. 18
    BY <1>1, <1>4, <1>9, <2>1, <2>3 DEF IInv, PllsAreSet, PllRegs
  <2> QED
    BY <1>1, <2>2, <2>3
<1> QED
  BY <1>1, <1>2, <1>10, <1>11, Untouched DEF IInv

\* A gate is told to close before, and to open after, its clock has its source.
LEMMA WriteEnableKeeps == ASSUME IInv, WriteEnable PROVE IInv'
<1>1. pc \in {26, 29, 31, 34, 36, 39, 41, 44} /\ pc' = pc + 1 /\ pc' \in 1 .. 56
  BY Kinds, Moves DEF WriteEnable
<1>2. /\ enabled' = IF Now.on THEN enabled \cup {Now.of} ELSE enabled \ {Now.of}
      /\ UNCHANGED <<xosc, reset, pll, src, sel, aux, running, div, ticks, pins, uart>>
  BY DEF WriteEnable
<1>3. /\ Program[26] = Gate("usb", FALSE) /\ Program[29] = Gate("usb", TRUE)
      /\ Program[31] = Gate("adc", FALSE) /\ Program[34] = Gate("adc", TRUE)
      /\ Program[36] = Gate("peri", FALSE) /\ Program[39] = Gate("peri", TRUE)
      /\ Program[41] = Gate("hstx", FALSE) /\ Program[44] = Gate("hstx", TRUE)
  BY ProgramIs
<1>4. /\ Now.of \in Gated
      /\ pc = IF Now.on THEN Closes(Now.of) + 3 ELSE Closes(Now.of)
  BY <1>1, <1>3 DEF Now, Gate, Closes, Gated
<1>5. Shape'
  BY <1>1, <1>2, <1>4 DEF IInv, Shape
<1>6. GatesFollow'
  BY <1>1, <1>2, <1>4 DEF IInv, GatesFollow, AuxIsSet, Closes, Gated
<1> QED
  BY <1>1, <1>2, <1>5, <1>6, Untouched DEF IInv

\* A divider becomes 1.
LEMMA WriteDivKeeps == ASSUME IInv, WriteDiv PROVE IInv'
<1>1. pc \in {21, 25, 30, 35, 40, 45} /\ pc' = pc + 1 /\ pc' \in 1 .. 56
  BY Kinds, Moves DEF WriteDiv
<1>2. /\ div' = [div EXCEPT ![Now.of] = Now.val]
      /\ UNCHANGED <<xosc, reset, pll, src, sel, aux, enabled, running, ticks, pins,
                     uart>>
  BY DEF WriteDiv
<1>3. /\ Now.of \in Clock /\ Now.val = 1
      /\ pc = 21 => Now.of = "ref"
      /\ pc = 25 => Now.of = "sys"
      /\ pc = 40 => Now.of = "peri"
  BY <1>1, ProgramIs DEF Now, Div, Clock, Muxes, Gated
<1>4. div \in [Clock -> Nat \ {0}] /\ div' \in [Clock -> Nat \ {0}]
  BY <1>2, <1>3 DEF IInv, Shape
<1>5. \A c \in Clock : div'[c] = IF c = Now.of THEN 1 ELSE div[c]
  BY <1>2, <1>3, <1>4
<1>6. Shape'
  BY <1>1, <1>2, <1>4 DEF IInv, Shape
<1>7. DividersAreSet'
  BY <1>1, <1>3, <1>5 DEF IInv, DividersAreSet, Clock, Muxes, Gated
<1> QED
  BY <1>1, <1>2, <1>6, <1>7, Untouched DEF IInv

\* A source is chosen, for a gated clock with its gate closed.
LEMMA WriteCtrlKeeps == ASSUME IInv, WriteCtrl PROVE IInv'
<1>1. pc \in {20, 22, 23, 24, 28, 33, 38, 43} /\ pc' = pc + 1 /\ pc' \in 1 .. 56
  BY Kinds, Moves DEF WriteCtrl
<1>2. /\ src' = IF Now.of \in Muxes THEN [src EXCEPT ![Now.of] = Now.src] ELSE src
      /\ aux' = IF Now.aux = "none" THEN aux ELSE [aux EXCEPT ![Now.of] = Now.aux]
      /\ enabled' = enabled \ {Now.of}
      /\ UNCHANGED <<xosc, reset, pll, sel, running, div, ticks, pins, uart>>
  BY DEF WriteCtrl
<1>3. /\ Program[20] = Ctrl("ref", "xosc", "none")
      /\ Program[22] = Ctrl("sys", "ref", "pll_sys")
      /\ Program[23] = Ctrl("sys", "ref", "pll_sys")
      /\ Program[24] = Ctrl("sys", "aux", "pll_sys")
      /\ Program[28] = Ctrl("usb", "none", "pll_usb")
      /\ Program[33] = Ctrl("adc", "none", "pll_usb")
      /\ Program[38] = Ctrl("peri", "none", "sys")
      /\ Program[43] = Ctrl("hstx", "none", "sys")
  BY ProgramIs
<1>4. /\ src \in [Muxes -> {"rosc", "xosc", "ref", "aux"}]
      /\ aux \in [Gated \cup {"sys"} -> {"rosc", "sys", "pll_usb", "pll_sys"}]
      /\ enabled \subseteq Gated
  BY DEF IInv, Shape
<1>5. CASE pc = 20
  <2>1. src' = [src EXCEPT !["ref"] = "xosc"] /\ aux' = aux /\ enabled' = enabled
    <3>1. Now.of = "ref" /\ Now.src = "xosc" /\ Now.aux = "none"
      BY <1>3, <1>5 DEF Now, Ctrl
    <3>2. "ref" \notin enabled
      BY <1>4 DEF Gated
    <3> QED
      BY <1>2, <3>1, <3>2 DEF Muxes
  <2>2. Shape'
    <3>1. src' \in [Muxes -> {"rosc", "xosc", "ref", "aux"}]
      BY <1>4, <2>1
    <3>2. UNCHANGED <<xosc, reset, pll, sel, aux, enabled, running, div, pins>>
      BY <1>2, <2>1
    <3> QED
      BY <1>1, <3>1, <3>2 DEF IInv, Shape
  <2>3. MuxesAreSet'
    BY <1>1, <1>2, <1>4, <1>5, <2>1 DEF IInv, MuxesAreSet, Muxes
  <2>4. FromReset'
    BY <1>1, <1>2, <1>4, <1>5, <2>1 DEF IInv, FromReset, Muxes
  <2> QED
    BY <1>1, <1>2, <1>5, <2>1, <2>2, <2>3, <2>4, Untouched DEF IInv
<1>6. CASE pc \in {22, 23, 24}
  <2>1. /\ src' = [src EXCEPT !["sys"] = IF pc = 24 THEN "aux" ELSE "ref"]
        /\ aux' = [aux EXCEPT !["sys"] = "pll_sys"] /\ enabled' = enabled
    <3>1. /\ Now.of = "sys" /\ Now.src = IF pc = 24 THEN "aux" ELSE "ref"
          /\ Now.aux = "pll_sys"
      BY <1>3, <1>6 DEF Now, Ctrl
    <3>2. "sys" \notin enabled
      BY <1>4 DEF Gated
    <3> QED
      BY <1>2, <3>1, <3>2 DEF Muxes
  <2>2. Shape'
    <3>1. /\ src' \in [Muxes -> {"rosc", "xosc", "ref", "aux"}]
          /\ aux' \in [Gated \cup {"sys"} -> {"rosc", "sys", "pll_usb", "pll_sys"}]
      BY <1>4, <2>1
    <3> QED
      BY <1>1, <1>2, <2>1, <3>1 DEF IInv, Shape
  <2>3. MuxesAreSet'
    BY <1>1, <1>2, <1>4, <1>6, <2>1 DEF IInv, MuxesAreSet, Muxes
  <2>4. /\ aux'["sys"] = "pll_sys" /\ \A c \in Gated : aux'[c] = aux[c]
    BY <1>4, <2>1 DEF Gated
  <2>5. AuxIsSet'
    BY <1>1, <1>6, <2>4 DEF IInv, AuxIsSet, Closes, Gated
  <2>6. GatesFollow'
    BY <1>1, <1>2, <1>6, <2>1, <2>4 DEF IInv, GatesFollow, Closes, Gated
  <2> QED
    BY <1>1, <1>2, <1>6, <2>2, <2>3, <2>5, <2>6, Untouched DEF IInv
<1>7. CASE pc \in {28, 33, 38, 43}
  <2>1. /\ Now.of \in Gated /\ pc = Closes(Now.of) + 2 /\ Now.aux = Given(Now.of)
    BY <1>3, <1>7 DEF Now, Ctrl, Closes, Given, Gated
  <2>2. src' = src /\ aux' = [aux EXCEPT ![Now.of] = Given(Now.of)]
    BY <1>2, <2>1 DEF Given, Gated, Muxes
  <2>3. Given(Now.of) \in {"sys", "pll_usb"}
    BY DEF Given
  <2>4. /\ aux' \in [Gated \cup {"sys"} -> {"rosc", "sys", "pll_usb", "pll_sys"}]
        /\ aux'[Now.of] = Given(Now.of) /\ aux'["sys"] = aux["sys"]
        /\ \A c \in Gated \ {Now.of} : aux'[c] = aux[c]
    BY <1>4, <2>1, <2>2, <2>3 DEF Gated
  <2>5. Shape'
    BY <1>1, <1>2, <1>4, <2>2, <2>4 DEF IInv, Shape
  <2>6. AuxIsSet'
    BY <1>1, <1>7, <2>1, <2>4 DEF IInv, AuxIsSet, Closes, Gated
  <2>7. GatesFollow'
    BY <1>1, <1>2, <1>7, <2>1, <2>4 DEF IInv, GatesFollow, Closes, Gated
  <2> QED
    BY <1>1, <1>2, <1>7, <2>2, <2>5, <2>6, <2>7, Untouched DEF IInv
<1> QED
  BY <1>1, <1>5, <1>6, <1>7

\* The delay is long enough for the gate that was told to close.
LEMMA DelayLongKeeps == ASSUME IInv, DelayLong PROVE IInv'
<1>1. pc \in {19, 27, 32, 37, 42} /\ pc' = pc + 1 /\ pc' \in 1 .. 56
  BY Kinds, Moves DEF DelayLong
<1>2. UNCHANGED <<xosc, reset, pll, src, sel, aux, enabled, running, div, ticks, pins,
                  uart>>
  BY DEF DelayLong, tree
<1>3. running = enabled /\ sel = src
  BY DEF DelayLong
<1>4. Shape'
  BY <1>1, <1>2 DEF IInv, Shape
<1>5. MuxesAreSet'
  BY <1>1, <1>2, <1>3 DEF IInv, MuxesAreSet
<1>6. GatesFollow'
  BY <1>1, <1>2, <1>3 DEF IInv, GatesFollow, Closes, Gated
<1> QED
  BY <1>1, <1>2, <1>4, <1>5, <1>6, Untouched DEF IInv

\* The tick is set for 12 MHz.
LEMMA InitTicksKeeps == ASSUME IInv, InitTicks PROVE IInv'
<1>1. pc = 46 /\ pc' = 47
  BY Kinds, Moves DEF InitTicks
<1>2. /\ ticks' = 12
      /\ UNCHANGED <<xosc, reset, pll, src, sel, aux, enabled, running, div, pins,
                     uart>>
  BY <1>1, ProgramIs DEF InitTicks, Now, RiscvTicks, tree
<1>3. Shape'
  BY <1>1, <1>2 DEF IInv, Shape
<1>4. LateDevices'
  BY <1>1, <1>2 DEF IInv, LateDevices
<1> QED
  BY <1>1, <1>2, <1>3, <1>4, Untouched DEF IInv

\* The UART is set for 150 MHz, out of reset and behind its pins.
LEMMA InitUartKeeps == ASSUME IInv, InitUart PROVE IInv'
<1>1. pc = 55 /\ pc' = 56
  BY Kinds, Moves DEF InitUart
<1>2. /\ uart' = 5208
      /\ UNCHANGED <<xosc, reset, pll, src, sel, aux, enabled, running, div, ticks,
                     pins>>
  <2>1. Now.val = 5208
    BY <1>1, ProgramIs DEF Now, UartInit, BaudDiv
  <2>2. reset["uart0"] = "done"
    BY <1>1 DEF IInv, Polled
  <2> QED
    BY <2>1, <2>2 DEF InitUart, tree
<1>3. Shape'
  BY <1>1, <1>2 DEF IInv, Shape
<1>4. LateDevices'
  BY <1>1, <1>2 DEF IInv, LateDevices
<1> QED
  BY <1>1, <1>2, <1>3, <1>4, Untouched DEF IInv

\* A pad is configured.
LEMMA SetConfigKeeps == ASSUME IInv, SetConfig PROVE IInv'
<1>1. pc \in {49, 50, 53} /\ pc' = pc + 1 /\ pc' \in 1 .. 56
  BY Kinds, Moves DEF SetConfig
<1>2. /\ pins' = [pins EXCEPT ![Now.of].pad = Now.bits]
      /\ UNCHANGED <<xosc, reset, pll, src, sel, aux, enabled, running, div, ticks,
                     uart>>
  BY DEF SetConfig, tree
<1>3. /\ pc = 49 => Now.of = "tx" /\ Now.bits = {}
      /\ pc = 50 => Now.of = "rx" /\ Now.bits = {"ie"}
      /\ pc = 53 => Now.of = "led" /\ Now.bits = {}
  BY ProgramIs DEF Now, Pad
<1>4. pins \in [Pins -> PinRegs]
  BY DEF IInv, Shape
<1>5. /\ pins' \in [Pins -> PinRegs]
      /\ \A p \in Pins : /\ pins'[p].func = pins[p].func
                         /\ pins'[p].pad = IF p = Now.of THEN Now.bits ELSE pins[p].pad
  <2>1. Now.of \in Pins /\ Now.bits \in SUBSET {"iso", "ie"}
    BY <1>1, <1>3 DEF Pins
  <2> QED
    BY <1>2, <1>4, <2>1 DEF PinRegs
<1>6. Shape'
  BY <1>1, <1>2, <1>5 DEF IInv, Shape
<1>7. LateDevices'
  BY <1>1, <1>2, <1>3, <1>5 DEF IInv, LateDevices, Pins
<1> QED
  BY <1>1, <1>2, <1>6, <1>7, Untouched DEF IInv

\* A pin gets its function.
LEMMA SetPinfuncKeeps == ASSUME IInv, SetPinfunc PROVE IInv'
<1>1. pc \in {51, 52, 54} /\ pc' = pc + 1 /\ pc' \in 1 .. 56
  BY Kinds, Moves DEF SetPinfunc
<1>2. /\ pins' = [pins EXCEPT ![Now.of].func = Now.func]
      /\ UNCHANGED <<xosc, reset, pll, src, sel, aux, enabled, running, div, ticks,
                     uart>>
  BY DEF SetPinfunc, tree
<1>3. /\ pc = 51 => Now.of = "tx" /\ Now.func = "uart"
      /\ pc = 52 => Now.of = "rx" /\ Now.func = "uart"
      /\ pc = 54 => Now.of = "led" /\ Now.func = "sio"
  BY ProgramIs DEF Now, Func
<1>4. pins \in [Pins -> PinRegs]
  BY DEF IInv, Shape
<1>5. /\ pins' \in [Pins -> PinRegs]
      /\ \A p \in Pins : /\ pins'[p].pad = pins[p].pad
                        
                         /\ pins'[p].func = IF p = Now.of THEN Now.func
                                            ELSE pins[p].func
  <2>1. Now.of \in Pins /\ Now.func \in {"null", "uart", "sio"}
    BY <1>1, <1>3 DEF Pins
  <2> QED
    BY <1>2, <1>4, <2>1 DEF PinRegs
<1>6. Shape'
  BY <1>1, <1>2, <1>5 DEF IInv, Shape
<1>7. LateDevices'
  BY <1>1, <1>2, <1>3, <1>5 DEF IInv, LateDevices, Pins
<1> QED
  BY <1>1, <1>2, <1>6, <1>7, Untouched DEF IInv

\* The hardware follows in its own time.
LEMMA HardwareKeeps == ASSUME IInv, Hardware PROVE IInv'
<1>0. pc \in 1 .. 56
  BY DEF IInv, Shape
<1>1. CASE XoscStable
  <2>1. /\ xosc = "starting" /\ xosc' = "stable"
        /\ UNCHANGED <<pc, reset, pll, src, sel, aux, enabled, running, div, ticks,
                       pins,
                       uart>>
    BY <1>1 DEF XoscStable
  <2>2. Shape'
    BY <2>1 DEF IInv, Shape
  <2>3. Polled'
    BY <2>1 DEF IInv, Polled
  <2> QED
    BY <1>0, <2>1, <2>2, <2>3, Untouched DEF IInv
<1>2. ASSUME NEW b \in Blocks, LeaveReset(b) PROVE IInv'
  <2>1. /\ reset[b] = "leaving" /\ reset' = [reset EXCEPT ![b] = "done"]
        /\ UNCHANGED <<pc, xosc, pll, src, sel, aux, enabled, running, div, ticks,
                       pins, uart>>
    BY <1>2 DEF LeaveReset
  <2>2. reset \in [Blocks -> {"held", "leaving", "done"}]
    BY DEF IInv, Shape
  <2>3. /\ reset' \in [Blocks -> {"held", "leaving", "done"}]
        /\ \A c \in Blocks : reset[c] = "done" => reset'[c] = "done"
    BY <2>1, <2>2
  <2>4. Shape'
    BY <2>1, <2>3 DEF IInv, Shape
  <2>5. Polled'
    BY <2>1, <2>3 DEF IInv, Polled, Blocks, Plls
  <2> QED
    BY <1>0, <2>1, <2>4, <2>5, Untouched DEF IInv
<1>3. ASSUME NEW p \in Plls, Lock(p) PROVE IInv'
  <2>1. /\ pll' = [pll EXCEPT ![p].locked = TRUE]
        /\ UNCHANGED <<pc, xosc, reset, src, sel, aux, enabled, running, div, ticks,
                       pins,
                       uart>>
    BY <1>3 DEF Lock
  <2>2. pll \in [Plls -> PllRegs] /\ \A q \in Plls : pll[q] \in PllRegs
    BY DEF IInv, Shape
  <2>3. [pll[p] EXCEPT !.locked = TRUE] \in PllRegs
    BY <2>2 DEF PllRegs
  <2>4. /\ pll' \in [Plls -> PllRegs]
        /\ \A q \in Plls : pll'[q] = IF q = p THEN [pll[p] EXCEPT !.locked = TRUE]
                                     ELSE pll[q]
    BY <2>1, <2>2, <2>3
  <2>5. Shape'
    BY <2>1, <2>4 DEF IInv, Shape
  <2>6. PllsAreSet'
    BY <2>1, <2>2, <2>4 DEF IInv, PllsAreSet, PllRegs, Plls
  <2> QED
    BY <1>0, <2>1, <2>5, <2>6, Untouched DEF IInv
<1>4. ASSUME NEW c \in Gated, GateFollows(c) PROVE IInv'
  <2>1. /\ (c \in running) # (c \in enabled)
        /\ running' = IF c \in enabled THEN running \cup {c} ELSE running \ {c}
        /\ UNCHANGED <<pc, xosc, reset, pll, src, sel, aux, enabled, div, ticks, pins,
                       uart>>
    BY <1>4 DEF GateFollows
  <2>2. Shape'
    BY <2>1 DEF IInv, Shape
  <2>3. GatesFollow'
    BY <1>0, <2>1 DEF IInv, GatesFollow, AuxIsSet, Closes, Gated
  <2> QED
    BY <1>0, <2>1, <2>2, <2>3, Untouched DEF IInv
<1>5. ASSUME NEW m \in Muxes, MuxFollows(m) PROVE IInv'
  <2>1. /\ sel' = [sel EXCEPT ![m] = src[m]]
        /\ UNCHANGED <<pc, xosc, reset, pll, src, aux, enabled, running, div, ticks,
                       pins,
                       uart>>
    BY <1>5 DEF MuxFollows
  <2>2. /\ src \in [Muxes -> {"rosc", "xosc", "ref", "aux"}]
        /\ sel \in [Muxes -> {"rosc", "xosc", "ref", "aux"}]
    BY DEF IInv, Shape
  <2>3. /\ sel' \in [Muxes -> {"rosc", "xosc", "ref", "aux"}]
        /\ sel'[m] = src[m] /\ \A n \in Muxes \ {m} : sel'[n] = sel[n]
        /\ sel = src => sel' = src
    BY <2>1, <2>2
  <2>4. Shape'
    BY <2>1, <2>3 DEF IInv, Shape
  <2>5. MuxesAreSet'
    BY <2>1, <2>3 DEF IInv, MuxesAreSet, Shape, Muxes
  <2>6. FromReset'
    BY <2>1, <2>3 DEF IInv, FromReset, Muxes
  <2> QED
    BY <1>0, <2>1, <2>4, <2>5, <2>6, Untouched DEF IInv
<1> QED
  BY <1>1, <1>2, <1>3, <1>4, <1>5 DEF Hardware

\* The boot ROM leaves the invariant true.
LEMMA InitHolds == ASSUME Init PROVE IInv
<1>1. /\ pc = 1 /\ xosc = "off" /\ ticks = 0 /\ uart = 0
      /\ sel = src /\ (src["sys"] = "aux" => aux["sys"] = "rosc")
      /\ enabled \in SUBSET {c \in Gated : aux[c] # "pll_usb"} /\ running = enabled
  BY DEF Init
<1>2. reset \in [Blocks -> {"held", "leaving", "done"}]
  BY DEF Init
<1>3. pll \in [Plls -> PllRegs]
  BY DEF Init, PllRegs
<1>4. src \in [Muxes -> {"rosc", "xosc", "ref", "aux"}]
      /\ src["ref"] = "rosc" /\ src["sys"] \in {"ref", "aux"}
  BY DEF Init, Muxes
<1>5. /\ aux \in [Gated \cup {"sys"} -> {"rosc", "sys", "pll_usb", "pll_sys"}]
      /\ \A c \in Gated : aux[c] \in {"rosc", Given(c)}
  BY DEF Init, Gated, Given
<1>6. div \in [Clock -> Nat \ {0}]
  BY DivAssumption DEF Init
<1>7. /\ pins \in [Pins -> PinRegs]
      /\ \A p \in {"tx", "rx"} : pins[p].func = "null"
  BY DEF Init, Pins, PinRegs
<1>8. Shape
  BY <1>1, <1>2, <1>3, <1>4, <1>5, <1>6, <1>7 DEF Shape
<1>9. Polled /\ PllsAreSet /\ DividersAreSet
  BY <1>1 DEF Polled, PllsAreSet, DividersAreSet
<1>10. MuxesAreSet /\ FromReset
  BY <1>1, <1>4 DEF MuxesAreSet, FromReset
<1>11. AuxIsSet
  BY <1>1, <1>5 DEF AuxIsSet, Closes, Gated
<1>12. GatesFollow
  BY <1>1 DEF GatesFollow, Closes, Gated
<1>13. LateDevices
  BY <1>1, <1>7 DEF LateDevices
<1> QED
  BY <1>8, <1>9, <1>10, <1>11, <1>12, <1>13 DEF IInv

\* IInv holds in every reachable state.
LEMMA Inductive == Spec => []IInv
<1>1. ASSUME IInv, [Next]_vars PROVE IInv'
  <2>1. CASE Driver
    BY <1>1, <2>1, StartXoscKeeps, PollBitKeeps, ClearResetKeeps, WritePllKeeps,
       WriteEnableKeeps, WriteCtrlKeeps, WriteDivKeeps, DelayLongKeeps, InitTicksKeeps,
       InitUartKeeps, SetConfigKeeps, SetPinfuncKeeps DEF Driver
  <2>2. CASE Hardware
    BY <1>1, <2>2, HardwareKeeps
  <2>3. CASE UNCHANGED vars
    <3>1. UNCHANGED <<pc, xosc, reset, pll, src, sel, aux, enabled, running, div, ticks,
                      pins, uart>>
      BY <2>3 DEF vars, tree
    <3>2. Shape' /\ pc \in 1 .. 56
      BY <1>1, <3>1 DEF IInv, Shape
    <3> QED
      BY <1>1, <3>1, <3>2, Untouched DEF IInv
  <2> QED
    BY <1>1, <2>1, <2>2, <2>3 DEF Next
<1> QED
  BY <1>1, InitHolds, PTL DEF Spec

-----------------------------------------------------------------------------
(* What the invariant says                                                 *)

\* A divided rate is not the greater.
LEMMA Divided == \A k \in Nat, n \in Nat \ {0} : k \div n \in Nat /\ k \div n <= k
OBVIOUS

\* What the sources run at: the PLLs, once they are steady, at 48 and 150 MHz.
LEMMA SourceRates ==
  ASSUME IInv
  PROVE  /\ RateOfSource("rosc") = 11 /\ RateOfSource("xosc") = 12
         /\ pc >= 13 => RateOfSource("pll_usb") = 48
         /\ pc >= 19 => RateOfSource("pll_sys") = 150
<1>1. RateOfSource("rosc") = 11 /\ RateOfSource("xosc") = 12
  BY DEF RateOfSource
<1>2. /\ pll["pll_usb"] \in PllRegs /\ pll["pll_sys"] \in PllRegs
  BY DEF IInv, Shape, Plls
<1>3. ASSUME pc >= 13 PROVE RateOfSource("pll_usb") = 48
  <2>1. pll["pll_usb"].fb = 100 /\ pll["pll_usb"].post = 25 /\ pll["pll_usb"].ref = 1
    BY <1>2, <1>3 DEF IInv, Shape, PllsAreSet, PllRegs
  <2> QED
    BY <2>1 DEF RateOfSource
<1>4. ASSUME pc >= 19 PROVE RateOfSource("pll_sys") = 150
  <2>1. pll["pll_sys"].fb = 125 /\ pll["pll_sys"].post = 10 /\ pll["pll_sys"].ref = 1
    BY <1>2, <1>4 DEF IInv, Shape, PllsAreSet, PllRegs
  <2> QED
    BY <2>1 DEF RateOfSource
<1> QED
  BY <1>1, <1>3, <1>4

\* And when they are steady.
LEMMA SourcesAreSteady ==
  ASSUME IInv
  PROVE  /\ Steady("rosc")
         /\ pc >= 3 => Steady("xosc")
         /\ pc >= 13 => Steady("pll_usb")
         /\ pc >= 19 => Steady("pll_sys")
<1>1. pc \in 1 .. 56
  BY DEF IInv, Shape
<1> QED
  BY <1>1 DEF Steady, IInv, Polled, PllsAreSet, Plls

\* clk_ref and clk_sys have steady sources, and so has whatever follows them.
LEMMA MuxesAreSteady == ASSUME IInv PROVE Ref /\ Sys
<1>1. /\ pc \in 1 .. 56
      /\ sel["ref"] \in {"rosc", IF pc <= 20 THEN "rosc" ELSE "xosc"}
      /\ sel["sys"] \in {"ref", "aux"}
      /\ sel["sys"] = "aux" =>
           aux["sys"] = "rosc" \/ (pc >= 23 /\ aux["sys"] = "pll_sys")
  BY DEF IInv, Shape, MuxesAreSet, FromReset, AuxIsSet
<1>2. SourceOf("ref") = sel["ref"]
      /\ SourceOf("sys") = IF sel["sys"] = "aux" THEN aux["sys"] ELSE sel["sys"]
  BY <1>1 DEF SourceOf, Gated
<1>3. Ref
  BY <1>1, <1>2, SourcesAreSteady DEF Ref
<1>4. Sys
  BY <1>1, <1>2, <1>3, SourcesAreSteady DEF Sys
<1> QED
  BY <1>3, <1>4

\* A gated clock that runs has the ring oscillator, clk_sys or a PLL that main has
\* set up.
LEMMA GatedSources ==
  ASSUME IInv, NEW c \in running
  PROVE  /\ c \in Gated
         /\ \/ aux[c] = "rosc"
            \/ aux[c] = "sys" /\ c \in {"peri", "hstx"}
            \/ aux[c] = "pll_usb" /\ c \in {"usb", "adc"} /\ pc >= 13
<1>1. c \in Gated /\ pc \in 1 .. 56
  BY DEF IInv, Shape
<1> QED
  BY <1>1 DEF IInv, AuxIsSet, GatesFollow, Given, Gated, Closes

\* So no running clock hangs on a source that is not steady,
LEMMA SteadyThen == ASSUME IInv PROVE RunningClocksAreSteady
<1>1. /\ pc \in 1 .. 56
      /\ sel["ref"] \in {"rosc", IF pc <= 20 THEN "rosc" ELSE "xosc"}
      /\ sel["sys"] \in {"ref", "aux"}
      /\ sel["sys"] = "aux" =>
           aux["sys"] = "rosc" \/ (pc >= 23 /\ aux["sys"] = "pll_sys")
  BY DEF IInv, Shape, MuxesAreSet, FromReset, AuxIsSet
<1>2. Good(SourceOf("ref"))
  BY <1>1, SourcesAreSteady DEF SourceOf, Good, Gated
<1>3. Good(SourceOf("sys"))
  BY <1>1, SourcesAreSteady, MuxesAreSteady DEF SourceOf, Good, Gated
<1>4. ASSUME NEW c \in running PROVE Good(SourceOf(c))
  <2>1. /\ c \in Gated
        /\ \/ aux[c] \in {"rosc", "sys"}
           \/ aux[c] = "pll_usb" /\ pc >= 13
    BY <1>1, GatedSources
  <2>2. Steady("rosc") /\ Sys /\ (pc >= 13 => Steady("pll_usb"))
    BY SourcesAreSteady, MuxesAreSteady
  <2> QED
    BY <2>1, <2>2 DEF SourceOf, Good
<1> QED
  BY <1>2, <1>3, <1>4 DEF RunningClocksAreSteady, Muxes

\* RunningClocksAreSteady for any dividers and sources that were left, and whenever
\* the crystal, the PLLs, the gates and the multiplexers get there.
THEOREM RunningClocksAreSteadyAlways == Spec => []RunningClocksAreSteady
BY Inductive, SteadyThen, PTL

\* The rates of clk_ref and clk_sys, which are at most those of their sources.
LEMMA MuxRates ==
  ASSUME IInv
  PROVE  /\ Rate("ref") \in Nat /\ Rate("ref") <= 12
         /\ SysRate \in Nat /\ SysRate <= 150
<1>1. /\ pc \in 1 .. 56
      /\ sel["ref"] \in {"rosc", IF pc <= 20 THEN "rosc" ELSE "xosc"}
      /\ sel["sys"] \in {"ref", "aux"}
      /\ sel["sys"] = "aux" =>
           aux["sys"] = "rosc" \/ (pc >= 23 /\ aux["sys"] = "pll_sys")
      /\ div["ref"] \in Nat \ {0} /\ div["sys"] \in Nat \ {0}
  BY DEF IInv, Shape, MuxesAreSet, FromReset, AuxIsSet, Clock, Muxes
<1>2. SourceOf("ref") = sel["ref"]
      /\ SourceOf("sys") = IF sel["sys"] = "aux" THEN aux["sys"] ELSE sel["sys"]
  BY <1>1 DEF SourceOf, Gated
<1>3. RateOfSource(SourceOf("ref")) \in {11, 12}
  BY <1>1, <1>2, SourceRates
<1>4. RefRate \in Nat /\ RefRate <= 12
  BY <1>1, <1>3, Divided DEF RefRate
<1>5. SourceOf("sys") = "ref" \/ RateOfSource(SourceOf("sys")) \in {11, 150}
  BY <1>1, <1>2, SourceRates
<1>6. SysRate \in Nat /\ SysRate <= 150
  <2> DEFINE r == IF SourceOf("sys") = "ref" THEN RefRate
                  ELSE RateOfSource(SourceOf("sys"))
  <2>1. r \in Nat /\ r <= 150
    BY <1>4, <1>5
  <2>2. SysRate = r \div div["sys"]
    BY DEF SysRate
  <2> HIDE DEF r
  <2> QED
    BY <1>1, <2>1, <2>2, Divided
<1> QED
  BY <1>4, <1>6 DEF Rate

\* none is faster than it may be,
LEMMA SlowThen == ASSUME IInv PROVE NeverTooFast
<1>1. ASSUME NEW c \in running
      PROVE  Rate(c) <= IF c \in {"usb", "adc"} THEN 48 ELSE 150
  <2>1. c \in Gated /\ div[c] \in Nat \ {0}
    BY DEF IInv, Shape, Clock
  <2> DEFINE r == IF aux[c] = "sys" THEN SysRate ELSE RateOfSource(aux[c])
  <2>2. Rate(c) = r \div div[c]
    BY <2>1 DEF Rate, Gated
  <2>3. r \in Nat /\ r <= IF c \in {"usb", "adc"} THEN 48 ELSE 150
    <3>1. \/ aux[c] = "rosc"
          \/ aux[c] = "sys" /\ c \in {"peri", "hstx"}
          \/ aux[c] = "pll_usb" /\ c \in {"usb", "adc"} /\ pc >= 13
      BY GatedSources, <1>1
    <3>2. SysRate \in Nat /\ SysRate <= 150
      BY MuxRates
    <3> QED
      BY <3>1, <3>2, SourceRates
  <2> HIDE DEF r
  <2>4. r \div div[c] \in Nat /\ r \div div[c] <= r
    BY <2>1, <2>3, Divided
  <2> QED
    BY <2>2, <2>3, <2>4
<1>2. Rate("ref") <= 12 /\ Rate("sys") <= 150
  BY MuxRates DEF Rate
<1> QED
  BY <1>1, <1>2 DEF NeverTooFast

\* NeverTooFast, in the same generality: whatever the dividers were, they only slow
\* a clock.
THEOREM NeverTooFastAlways == Spec => []NeverTooFast
BY Inductive, SlowThen, PTL

\* and timer and UART are set for the clocks they have.
LEMMA TimersThen == ASSUME IInv PROVE TimersAreRight
<1>1. ASSUME running = enabled, sel = src, ticks # 0 PROVE Rate("ref") = ticks
  <2>1. pc \in 47 .. 56 /\ ticks = 12
    BY <1>1 DEF IInv, Shape, LateDevices
  <2>2. SourceOf("ref") = "xosc" /\ div["ref"] = 1
    BY <1>1, <2>1 DEF IInv, MuxesAreSet, DividersAreSet, SourceOf, Gated
  <2>3. RateOfSource("xosc") = 12
    BY SourceRates
  <2> QED
    BY <2>1, <2>2, <2>3 DEF Rate, RefRate
<1>2. ASSUME running = enabled, sel = src, uart # 0
      PROVE  /\ "peri" \in running
             /\ Rate("peri") = 150 /\ uart = 5208
  <2>1. pc = 56 /\ uart = 5208
    BY <1>2 DEF IInv, LateDevices
  <2>2. "peri" \in running
    BY <1>2, <2>1 DEF IInv, GatesFollow, Gated, Closes
  <2>3. aux["peri"] = "sys" /\ div["peri"] = 1
    BY <2>1 DEF IInv, AuxIsSet, DividersAreSet, Gated, Closes, Given
  <2>4. SourceOf("sys") = "pll_sys" /\ div["sys"] = 1
    BY <1>2, <2>1 DEF IInv, MuxesAreSet, AuxIsSet, DividersAreSet, SourceOf, Gated
  <2>5. SysRate = 150
    BY <2>1, <2>4, SourceRates DEF SysRate
  <2>6. Rate("peri") = SysRate \div 1
    BY <2>3 DEF Rate
  <2> QED
    BY <2>1, <2>2, <2>5, <2>6
<1>3. (4 * 1000000 * 150) \div 5208 = 115207
  OBVIOUS
<1> QED
  BY <1>1, <1>2, <1>3 DEF TimersAreRight

\* TimersAreRight, in the same generality.
THEOREM TimersAreRightAlways == Spec => []TimersAreRight
BY Inductive, TimersThen, PTL

\* UartMeetsItsPins: UART0 is joined to pins that are ready for it.
THEOREM UartMeetsItsPinsAlways == Spec => []UartMeetsItsPins
<1>1. ASSUME IInv PROVE UartMeetsItsPins
  <2>1. pc \in 1 .. 56
    BY <1>1 DEF IInv, Shape
  <2> QED
    BY <1>1, <2>1 DEF IInv, Polled, LateDevices, UartMeetsItsPins
<1> QED
  BY <1>1, Inductive, PTL

\* AuxChangesAtRest: when main gives the auxiliary multiplexer of a gated clock
\* another source, the gate behind it has closed.
THEOREM AuxChangesAtRestAlways == Spec => AuxChangesAtRest
<1> DEFINE Rest == \A c \in Gated : aux'[c] # aux[c] => c \notin running
<1>1. ASSUME IInv, [Next]_vars PROVE Rest
  <2>1. CASE WriteCtrl
    <3>1. pc \in {20, 22, 23, 24, 28, 33, 38, 43}
      BY <1>1, <2>1, Kinds, Moves DEF WriteCtrl
    <3>2. aux' = IF Now.aux = "none" THEN aux ELSE [aux EXCEPT ![Now.of] = Now.aux]
      BY <2>1 DEF WriteCtrl
    <3>3. aux \in [Gated \cup {"sys"} -> {"rosc", "sys", "pll_usb", "pll_sys"}]
      BY <1>1 DEF IInv, Shape
    <3>4. CASE pc \in {20, 22, 23, 24}
      <4>1. /\ pc = 20 => Now.aux = "none"
            /\ pc \in {22, 23, 24} => Now.of = "sys"
        BY ProgramIs DEF Now, Ctrl
      <4> QED
        BY <3>2, <3>3, <3>4, <4>1 DEF Gated
    <3>5. CASE pc \in {28, 33, 38, 43}
      <4>1. Now.of \in Gated /\ pc = Closes(Now.of) + 2
        BY <3>5, ProgramIs DEF Now, Ctrl, Closes, Gated
      <4>2. \A c \in Gated : aux'[c] # aux[c] => c = Now.of
        BY <3>2, <3>3
      <4>3. Now.of \notin running
        BY <1>1, <4>1 DEF IInv, GatesFollow
      <4> QED
        BY <4>2, <4>3
    <3> QED
      BY <3>1, <3>4, <3>5
  <2>2. CASE ~WriteCtrl
    <3>1. aux' = aux
      BY <1>1, <2>2
      DEF Next, Driver, Hardware, StartXosc, PollBit, ClearReset, WritePll, WriteEnable,
          WriteDiv, DelayLong, InitTicks, InitUart, SetConfig, SetPinfunc, XoscStable,
          LeaveReset, Lock, GateFollows, MuxFollows, vars, tree
    <3> QED
      BY <3>1
  <2> QED
    BY <2>1, <2>2
<1>2. Spec => [][Rest]_vars
  BY <1>1, Inductive, PTL DEF Spec
<1> QED
  BY <1>2 DEF AuxChangesAtRest
=============================================================================
