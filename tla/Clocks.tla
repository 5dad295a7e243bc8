------------------------------- MODULE Clocks -------------------------------
(***************************************************************************)
(* How the bootloader brings up the clocks and UART0 (clocks.h, resets.h,   *)
(* ticks.h, pads.h, gpio.h, uart_init and the start of main), against the   *)
(* hardware, which needs time for everything it is told: the crystal        *)
(* starts, a block leaves reset, a PLL locks, a clock stops behind its      *)
(* gate, a multiplexer changes over.  The driver waits for some of these    *)
(* with a poll, for others with a delay, and for others not at all.         *)
(*                                                                         *)
(* The core runs from clk_sys: if that stops, so does the driver.           *)
(***************************************************************************)
EXTENDS Integers, Sequences

CONSTANTS
  MaxDiv   \* bound: dividers that earlier programs may have left

ASSUME DivAssumption == MaxDiv \in Nat \ {0}

Plls == {"pll_usb", "pll_sys"}
Muxes == {"ref", "sys"}
Gated == {"usb", "adc", "peri", "hstx"}
Clock == Muxes \cup Gated
Blocks == Plls \cup {"uart0"}
Sources == {"rosc", "xosc"} \cup Plls \cup Clock
Pins == {"tx", "rx", "led"}

VARIABLES
  pc,      \* index into Program
  xosc,    \* "off", "starting" or "stable"
  reset,   \* of each block: "held", "leaving" or "done"
  pll,     \* of each PLL its registers, and whether it has locked
  src,     \* of each multiplexer: what it was told to select,
  sel,     \*   and what it selects
  aux,     \* the auxiliary source of each clock that has one
  enabled, \* the gated clocks that are told to run,
  running, \*   and those that do
  div,
  ticks,   \* cycles of clk_ref in a tick of the RISC-V timer, 0 when off
  pins,    \* of each pin its pad's bits and its function
  uart     \* the divisor of UART0 in 64ths, 0 when off

tree == <<xosc, reset, pll, src, sel, aux, enabled, running, div>>
vars == <<pc, tree, ticks, pins, uart>>

-----------------------------------------------------------------------------
(* The driver                                                              *)

Poll(what, of) == [do |-> "poll", what |-> what, of |-> of]
Xosc == [do |-> "xosc"]
Unreset(b) == [do |-> "unreset", of |-> b]
Write(p, reg, val) == [do |-> "pll", of |-> p, reg |-> reg, val |-> val]
Gate(c, on) == [do |-> "gate", of |-> c, on |-> on]
Ctrl(c, s, a) == [do |-> "ctrl", of |-> c, src |-> s, aux |-> a]
Div(c, n) == [do |-> "div", of |-> c, val |-> n]
Delay == [do |-> "delay"]
Pad(p, bits) == [do |-> "pad", of |-> p, bits |-> bits]
Func(p, f) == [do |-> "func", of |-> p, func |-> f]

XoscInit == <<Xosc, Poll("xosc", "xosc")>>
\* Mutant: does not wait for the block.
SetReset_NoPoll(b) == <<Unreset(b)>>
SetReset(b) == <<Unreset(b), Poll("reset", b)>>
\* Mutant: the output is on before the PLL has locked.
SetPll_NoLock(p, fb, d1, d2) ==
  <<Write(p, "ref", 1), Write(p, "fb", fb), Write(p, "power", TRUE),
    Write(p, "post", d1 * d2), Write(p, "out", TRUE)>>
\* Mutant: the second post divider is forgotten.
SetPll_OnePost(p, fb, d1, d2) ==
  <<Write(p, "ref", 1), Write(p, "fb", fb), Write(p, "power", TRUE), Poll("lock", p),
    Write(p, "post", d1), Write(p, "out", TRUE)>>
\* set_usb_pll, set_sys_pll: REFDIV, FBDIV, power, lock, post dividers, output.
SetPll(p, fb, d1, d2) ==
  <<Write(p, "ref", 1), Write(p, "fb", fb), Write(p, "power", TRUE), Poll("lock", p),
    Write(p, "post", d1 * d2), Write(p, "out", TRUE)>>
\* Mutant: the gate is not given time to stop the clock.
SetGated_NoDelay(c, a) ==
  <<Gate(c, FALSE), Ctrl(c, "none", a), Gate(c, TRUE), Div(c, 1)>>
\* set_perif_clock_clk_sys and the three like it.
SetGated(c, a) ==
  <<Gate(c, FALSE), Delay, Ctrl(c, "none", a), Gate(c, TRUE), Div(c, 1)>>
\* Its write of ENABLE does nothing: clk_ref has no gate.
SetRef == <<Delay, Ctrl("ref", "xosc", "none"), Div("ref", 1)>>
\* Mutant: the divider is left as it is.
SetSys_NoDiv == <<Ctrl("sys", "ref", "pll_sys"), Ctrl("sys", "ref", "pll_sys"),
                  Ctrl("sys", "aux", "pll_sys")>>
\* The polls of SELECTED are commented out.
SetSys == <<Ctrl("sys", "ref", "pll_sys"), Ctrl("sys", "ref", "pll_sys"),
            Ctrl("sys", "aux", "pll_sys"), Div("sys", 1)>>
RiscvTicks == <<[do |-> "ticks", val |-> 12]>>

\* 8 * F_PERIPH / BAUD + 1, in 128ths, of which UARTIBRD has the whole and
\* UARTFBRD six bits of the fraction.
BaudDiv == (8 * 150000000) \div 115200 + 1
UartInit == <<[do |-> "uart", val |-> (BaudDiv \div 128) * 64 + ((BaudDiv % 128) \div 2)]>>

\* Mutant: RX is configured like TX.
SetUart0Pinmux_NoInput ==
  <<Pad("tx", {}), Pad("rx", {}), Func("tx", "uart"), Func("rx", "uart")>>
SetUart0Pinmux == <<Pad("tx", {}), Pad("rx", {"ie"}), Func("tx", "uart"), Func("rx", "uart")>>
LedPin == <<Pad("led", {}), Func("led", "sio")>>

Program ==
  XoscInit
  \o SetReset("pll_usb") \o SetReset("pll_sys")
  \o SetPll("pll_usb", 100, 5, 5) \o SetPll("pll_sys", 125, 5, 2)
  \o SetRef \o SetSys
  \o SetGated("usb", "pll_usb") \o SetGated("adc", "pll_usb")
  \o SetGated("peri", "sys") \o SetGated("hstx", "sys")
  \o RiscvTicks
  \o SetReset("uart0") \o SetUart0Pinmux \o LedPin
  \o UartInit

Done == Len(Program) + 1
At(action) == pc < Done /\ Program[pc].do = action
Now == Program[pc]

-----------------------------------------------------------------------------
(* The clock tree                                                          *)

\* An oscillator or a PLL that can be used.
Steady(s) == \/ s = "rosc"
             \/ s = "xosc" /\ xosc = "stable"
             \/ s \in Plls /\ reset[s] = "done" /\ pll[s].locked /\ pll[s].out

\* What a clock has for its source now.
SourceOf(c) == IF c \in Gated THEN aux[c]
               ELSE IF sel[c] = "aux" THEN aux[c] ELSE sel[c]

\* clk_ref is behind an oscillator, clk_sys may be behind clk_ref, and the
\* gated clocks may be behind clk_sys.
Ref == Steady(SourceOf("ref"))
Sys == IF SourceOf("sys") = "ref" THEN Ref ELSE Steady(SourceOf("sys"))
Good(s) == CASE s = "ref" -> Ref [] s = "sys" -> Sys [] OTHER -> Steady(s)

\* MHz; the ring oscillator runs at no known rate below 12 MHz.
RateOfSource(s) == CASE s = "rosc" -> 11
                     [] s = "xosc" -> 12
                     [] OTHER -> (12 * pll[s].fb) \div (pll[s].ref * pll[s].post)
RefRate == RateOfSource(SourceOf("ref")) \div div["ref"]
SysRate == (IF SourceOf("sys") = "ref" THEN RefRate
            ELSE RateOfSource(SourceOf("sys"))) \div div["sys"]
Rate(c) == CASE c = "ref" -> RefRate
             [] c = "sys" -> SysRate
             [] OTHER -> (IF aux[c] = "sys" THEN SysRate ELSE RateOfSource(aux[c]))
                         \div div[c]

-----------------------------------------------------------------------------
(* Steps of the driver                                                     *)

Step(action) == At(action) /\ Sys /\ pc' = pc + 1

StartXosc ==
  /\ Step("xosc")
  /\ xosc' = IF xosc = "off" THEN "starting" ELSE xosc
  /\ UNCHANGED <<reset, pll, src, sel, aux, enabled, running, div, ticks, pins, uart>>

\* loop_until_bit_is_set.
PollBit ==
  /\ Step("poll")
  /\ CASE Now.what = "xosc" -> xosc = "stable"
       [] Now.what = "reset" -> reset[Now.of] = "done"
       [] Now.what = "lock" -> pll[Now.of].locked
  /\ UNCHANGED <<tree, ticks, pins, uart>>

ClearReset ==
  /\ Step("unreset")
  /\ reset' = [reset EXCEPT ![Now.of] = IF @ = "held" THEN "leaving" ELSE @]
  /\ UNCHANGED <<xosc, pll, src, sel, aux, enabled, running, div, ticks, pins, uart>>

\* A block in reset does not take a write.
WritePll ==
  /\ Step("pll")
  /\ pll' = IF reset[Now.of] = "done" THEN [pll EXCEPT ![Now.of][Now.reg] = Now.val]
            ELSE pll
  /\ UNCHANGED <<xosc, reset, src, sel, aux, enabled, running, div, ticks, pins, uart>>

WriteEnable ==
  /\ Step("gate")
  /\ enabled' = IF Now.on THEN enabled \cup {Now.of} ELSE enabled \ {Now.of}
  /\ UNCHANGED <<xosc, reset, pll, src, sel, aux, running, div, ticks, pins, uart>>

\* CLOCKS_BASE[..._CTRL_REG] = ...: the whole register, ENABLE among it.
WriteCtrl ==
  /\ Step("ctrl")
  /\ src' = IF Now.of \in Muxes THEN [src EXCEPT ![Now.of] = Now.src] ELSE src
  /\ aux' = IF Now.aux = "none" THEN aux ELSE [aux EXCEPT ![Now.of] = Now.aux]
  /\ enabled' = enabled \ {Now.of}
  /\ UNCHANGED <<xosc, reset, pll, sel, running, div, ticks, pins, uart>>

WriteDiv ==
  /\ Step("div")
  /\ div' = [div EXCEPT ![Now.of] = Now.val]
  /\ UNCHANGED <<xosc, reset, pll, src, sel, aux, enabled, running, ticks, pins, uart>>

\* delay(10000) is longer than a gate or a multiplexer takes.
DelayLong ==
  /\ Step("delay")
  /\ running = enabled /\ sel = src
  /\ UNCHANGED <<tree, ticks, pins, uart>>

InitTicks ==
  /\ Step("ticks")
  /\ ticks' = Now.val % 512
  /\ UNCHANGED <<tree, pins, uart>>

InitUart ==
  /\ Step("uart")
  /\ uart' = IF reset["uart0"] = "done" THEN Now.val ELSE uart
  /\ UNCHANGED <<tree, ticks, pins>>

\* set_config and set_pinfunc write the whole of a pad's and of a pin's register.
SetConfig ==
  /\ Step("pad")
  /\ pins' = [pins EXCEPT ![Now.of].pad = Now.bits]
  /\ UNCHANGED <<tree, ticks, uart>>

SetPinfunc ==
  /\ Step("func")
  /\ pins' = [pins EXCEPT ![Now.of].func = Now.func]
  /\ UNCHANGED <<tree, ticks, uart>>

Driver == StartXosc \/ PollBit \/ ClearReset \/ WritePll \/ WriteEnable \/ WriteCtrl
          \/ WriteDiv \/ DelayLong \/ InitTicks \/ InitUart \/ SetConfig \/ SetPinfunc

-----------------------------------------------------------------------------
(* Steps of the hardware                                                   *)

XoscStable ==
  /\ xosc = "starting"
  /\ xosc' = "stable"
  /\ UNCHANGED <<pc, reset, pll, src, sel, aux, enabled, running, div, ticks, pins, uart>>

LeaveReset(b) ==
  /\ reset[b] = "leaving"
  /\ reset' = [reset EXCEPT ![b] = "done"]
  /\ UNCHANGED <<pc, xosc, pll, src, sel, aux, enabled, running, div, ticks, pins, uart>>

Lock(p) ==
  /\ pll[p].power /\ ~pll[p].locked /\ xosc = "stable"
  /\ pll' = [pll EXCEPT ![p].locked = TRUE]
  /\ UNCHANGED <<pc, xosc, reset, src, sel, aux, enabled, running, div, ticks, pins, uart>>

\* A gate opens or closes on an edge of its clock.
GateFollows(c) ==
  /\ (c \in running) # (c \in enabled)
  /\ running' = IF c \in enabled THEN running \cup {c} ELSE running \ {c}
  /\ UNCHANGED <<pc, xosc, reset, pll, src, sel, aux, enabled, div, ticks, pins, uart>>

\* Where a multiplexer would take its clock from.
Ahead(m) == Good(IF src[m] = "aux" THEN aux[m] ELSE src[m])

\* The glitchless multiplexer stops one clock on its edge, then starts the other.
MuxFollows(m) ==
  /\ sel[m] # src[m]
  /\ Ahead(m)
  /\ sel' = [sel EXCEPT ![m] = src[m]]
  /\ UNCHANGED <<pc, xosc, reset, pll, src, aux, enabled, running, div, ticks, pins, uart>>

Hardware == \/ XoscStable
            \/ \E b \in Blocks : LeaveReset(b)
            \/ \E p \in Plls : Lock(p)
            \/ \E c \in Gated : GateFollows(c)
            \/ \E m \in Muxes : MuxFollows(m)

\* The boot ROM runs from the ring oscillator, with the PLLs in reset: clk_sys has
\* it through its auxiliary multiplexer, as CLK_SYS_CTRL's reset value says, or
\* through clk_ref.  The gated clocks may be in use, from it or from clk_sys.
Init ==
  /\ pc = 1
  /\ xosc = "off"
  /\ reset = [b \in Blocks |-> "held"]
  /\ pll = [p \in Plls |-> [ref |-> 1, fb |-> 0, power |-> FALSE, post |-> 49,
                            out |-> FALSE, locked |-> FALSE]]
  /\ \E s \in {"ref", "aux"} : src = [ref |-> "rosc", sys |-> s]
  /\ sel = src
  /\ \E a \in {"pll_sys", "rosc"}, e \in {"pll_usb", "rosc"}, f \in {"sys", "rosc"} :
       aux = [sys |-> a, usb |-> e, adc |-> "pll_usb", peri |-> f, hstx |-> "sys"]
  /\ src["sys"] = "aux" => aux["sys"] = "rosc"
  /\ enabled \in SUBSET {c \in Gated : aux[c] # "pll_usb"}
  /\ running = enabled
  /\ \E n \in 1 .. MaxDiv : div = [c \in Clock |-> n]
  /\ ticks = 0 /\ uart = 0
  /\ pins = [p \in Pins |-> [pad |-> {"iso"}, func |-> "null"]]

Next == Driver \/ Hardware

Spec == Init /\ [][Next]_vars

\* The core runs, and the hardware takes its time but no more.
Fairness == /\ WF_vars(Driver)
            /\ WF_vars(XoscStable)
            /\ \A b \in Blocks : WF_vars(LeaveReset(b))
            /\ \A p \in Plls : WF_vars(Lock(p))
            /\ \A c \in Gated : WF_vars(GateFollows(c))
            /\ \A m \in Muxes : WF_vars(MuxFollows(m))

FairSpec == Spec /\ Fairness

-----------------------------------------------------------------------------
(* Properties                                                              *)

\* UART0 is joined to its pins once it is out of reset, when it does not pull TX
\* low, and is switched on when nothing keeps it from its pins, so that no first
\* character is lost and RX is not taken for a start bit.
UartMeetsItsPins ==
  /\ \A p \in {"tx", "rx"} : pins[p].func = "uart" => reset["uart0"] = "done"
  /\ uart # 0 => /\ \A p \in {"tx", "rx"} : pins[p].func = "uart" /\ "iso" \notin pins[p].pad
                 /\ "ie" \in pins["rx"].pad

\* No clock that runs, clk_sys above all, hangs on an oscillator that is not
\* stable or a PLL that is in reset, unlocked or has its output off: the order
\* of main and the polls of xosc_init, set_reset and set_*_pll see to it.
RunningClocksAreSteady == \A c \in Muxes \cup running : Good(SourceOf(c))

\* An auxiliary multiplexer has no glitch protection: that of a gated clock
\* changes only while the clock stands, which takes ENABLE cleared and the delay
\* after it.  Of clk_sys it is not so: from CLK_SYS_CTRL's reset value the first
\* write of set_sys_clock_pll_sys changes SRC and AUXSRC at once.
AuxChangesAtRest == [][\A c \in Gated : aux'[c] # aux[c] => c \notin running]_vars

\* No step, an intermediate one either, gives a clock more than its rate.
NeverTooFast ==
  /\ Rate("ref") <= 12 /\ Rate("sys") <= 150
  /\ \A c \in running : Rate(c) <= IF c \in {"usb", "adc"} THEN 48 ELSE 150

\* The timer and the UART are set for the clock they have from then on: a tick
\* is 1 us, and the baud rate is within 1% of 115200, once the gate of clk_peri
\* and the multiplexers have followed.
TimersAreRight ==
  LET settled == running = enabled /\ sel = src
      baud == (4 * 1000000 * Rate("peri")) \div uart
  IN settled =>
       /\ ticks # 0 => Rate("ref") = ticks
       /\ uart # 0 => "peri" \in running /\ 114048 <= baud /\ baud <= 116352

\* main gets past the clocks with all of them running: no poll spins for ever,
\* and clk_sys, which the core runs from, never stops.
ClocksComeUp == <>[](/\ pc = Done /\ running = Gated
                      /\ Rate("sys") = 150 /\ ticks # 0 /\ uart # 0)
=============================================================================
