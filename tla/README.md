# Models of pi-pico2-linux

Linux on a Raspberry Pi Pico 2: a bootloader that brings the RP2350 and its
PSRAM up and starts a kernel, and patches that let Linux run on the chip's two
Hazard3 (RISC-V) cores although atomic instructions fault in PSRAM and the
interrupt controller is no PLIC. This directory holds TLA+ models of the parts
with behaviour worth checking, TLC configurations for them, and proofs.

`B` below is `package/pico2-bootloader/bootloader/src`, `P` is
`board/raspberrypi/raspberrypi-pico2/patches/linux`.

## Inventory

| Part | Source | State | Operations | Modelled in |
|---|---|---|---|---|
| Interrupt controller driver | P/0005, P/0006 | the CSRs MEIEA, MEICONTEXT (levels, `mreteirq`), `mie`; per handler a saved MEICONTEXT | mask, unmask, chained handler, probe | `SimpleIntc` |
| Atomic primitives | P/0003, P/0002 | one word of memory, the registers of the context that runs, its trap | `fetch_add_unless`, `inc_unless_negative`, `dec_unless_positive`, `dec_if_positive`, `cmpxchg`, futex cmpxchg; lr/sc and AMOs through the trap | `AtomicOps` |
| Emulation of atomic instructions | P/0002 | `pt_regs`, the word addressed by rs1 | `do_trap_error`, `do_exinsn`, `do_atomic` | `EmulatedHart` |
| PSRAM setup | B/qmi.c | QMI direct-mode registers and FIFOs, the chip's mode | `setup_psram` | `PsramSetup`, in main in `PsramBoot` |
| Boot flow | B/main.c, B/image.c, B/byteswap.h, B/string.c | main's sizes, PSRAM contents, UART FIFO | test, headers, check, copy, jump, prompts | `Boot`; with every message in `Session` |
| Start-up | B/rp2350-crt.S, B/rp2350.lds | RAM, a0 to a2 | `_reloc`, `_copy`, `_set`, `_run_calls`, `halt` | `Startup` |
| Memory functions | B/string.c | memory, the loops' pointers | `memcpy`, `memmove`, `memset`, `memcmp` | `MemOps` |
| Clocks, PLLs, resets, ticks, pins | B/clocks.h, resets.h, ticks.h, pads.h, gpio.h | the clock tree, PLL, reset, tick, pad and pin registers | register sequences with polls and delays | `Clocks` |
| Console | B/uart.c, B/string.c, `wait_for_input` | the UART's FIFOs | init, send, getc, puts, `_putchar`, the prompt | `Console`, driven by `Session` (init in `Clocks`) |
| printf | B/printf.c | the place in the format, the arguments left, the conversion buffer, the caller's buffer | `_vsnprintf` with its parser and its output functions | `Printf` |
| Demo for PSRAM | demo/src | a saved register file | enter, run, return | `DemoCall`, its return also in `Boot` |
| Flash layout | rp2350.lds, Makefile, genimage.cfg, main.c:183-191 | addresses | link, pad, append, find | `FlashLayout` |
| Device tree, other build files | dts, configs | none | build-time data | not modelled |
| Character helpers, register headers | B/string.c, power.h, linux/ | none | predicates, constants | not modelled |

### How the parts interact

* The boot ROM starts `_start`; start-up copies the program to RAM and calls
  `main`; `main` brings up clocks and UART, calls `setup_psram`, tests that PSRAM
  executes, copies the kernel there and jumps. If `main` returns, start-up code halts.
* All output goes character by character through `uart_send`, which the core
  polls; a prompt is printed again until a key is in the receive FIFO.
* Device tree and kernel are found by position: the device tree behind the
  bootloader in flash, the kernel behind the device tree.
* In Linux, an external interrupt enters the chained handler of the
  interrupt controller, which calls the flow handler of each pending line,
  which masks, serves and unmasks it. The timer and every faulting atomic
  instruction are traps of their own, and *every* trap other than an external
  interrupt clears `mreteirq`, a bit the external handler would count on.
* Atomic primitives run in tasks and in interrupt handlers on one hart; their
  `lw`/`sw` are ordinary instructions, an AMO is a trap into the emulation.

### What is hard here

Interleavings of traps with the interrupt handler and of interrupts with
primitives; hardware state behind the code's back (the level stack, the QMI
shifter and its FIFOs, the chip's SPI or QPI mode across a restart, clocks that
change over when they are ready); polls that must end; off-by-one and aliasing in a
few lines of assembly and in the emulation. `PROJECT.json` lists each of these hazards at its line, with the
property that watches it or the reason why none does.

### What makes each part correct

* Interrupt controller: levels always popped, enables exact, no interrupt lost,
  handlers end, and as a whole: it is the delivery Linux assumes (`IrqDelivery`).
* Atomic primitives: a call is one atomic update of the word (`AtomicCell`), which holds
  of all but what the task does in two steps with interrupts on.
* Emulation: the same registers and memory as the instruction set (`IsaHart`).
* PSRAM setup: the ID that is tested is the chip's; accepted chips end in the
  programmed mode from any earlier mode; it returns.
* Boot: nothing is copied outside PSRAM and Linux starts with a whole image, where the
  sizes do not overflow; it does start if there is an image.
* Start-up: main sees the program as it was linked.
* Clocks: nothing runs from a source that is not ready, nor too fast; the UART meets
  its pins in order; it ends.
* Console: output in order and complete, one answer per key; with it, main is still
  what `Boot` says.
* printf, memory functions: what C says of them, inside their buffers.
* Demo: the caller's registers come back. Flash layout: the payload is found.

## Modules

### `SimpleIntc`, with the abstract `IrqDelivery`

One hart, a stack of at most three trap frames (`frame`, `depth`): an interrupt
from the task, an interrupt in the softirqs of that one, an emulated instruction
on top of any. A frame has a program counter through the handler:
`entry` -> `SaveContext` (`csr_read_set(CSR_MEICONTEXT, 0x02)`, 0006:40) ->
`loop` -> `Dispatch` (MEINEXT read, `simple_intc_mask`) -> `ServiceDevice` ->
`Unmask` -> `loop` ... -> `LoopEnd` -> `RestoreContext` (0006:57-60) ->
`irqexit` -> softirqs -> `mret`. `EnableBit` is the window arithmetic of
0005:81-82, so that `meiea` is a set of (window, bit) pairs, not of lines.

The environment is modelled from how the driver relies on it: traps push
(`TakeExternal`) or spoil (`TakeParent`, `TakeException`) the level stack, `mret`
pops it only while `mreteirq` is set; the timer driver clears and sets
`mie.mtie`; softirqs run with interrupts on only in the outermost interrupt;
drivers request and free lines in task context; devices are level triggered and
may withdraw. `Stale` are lines left enabled by an earlier boot stage. All lines
have the priority 0 of reset, because the driver never writes MEIPRA. Level
fields are not cut to their width: no level above 1 occurs. The kernel's
spinlock around MEIEA is left out, as each access is one CSR instruction on the
one hart that runs.

`IrqDelivery` is what Linux assumes: a gate, one line served at a time, parent
interrupts that stay armed until they fire, and fire only with the gate open.
The mapping takes the gate from `meicontext.preempt` and `armed` from `mie`
together with the enables a running handler still holds in its local variable.

### `AtomicOps`, with the abstract `AtomicCell`

A task and an interrupt handler (which the task cannot interrupt) call the
primitives. `LoadAndTest` is the `lw` and the branch of patch 0003, `Store` the `sw`.
What still is an atomic instruction takes a trap: `Fault`, then `ReadRd` (the read for
rd, 0002:34) and `Emulate` (the switch, in which `*dst += rs2` reads the word once
more, and the return) are steps of their own. That no interrupt comes between
them is not built into the actions: `Interruptible` says when an interrupt can
come, and a trap from the kernel runs with interrupts off. lr and sc are two
traps, between which an interrupt can come, and the emulated sc always succeeds.
The task makes each call with interrupts on or off (`irqsOn`), as the kernel does.

`AtomicCell` gives each operation as one step, from the lr/sc sequences that the
patch deletes. `IsAtomic`, with `Late <- {}`, is that and nothing else; the finding
`atomic_race` refutes it. `LosesOnlyToInterrupts` says exactly how much of it is left: of
the same module with `Late <- TwoSteps`, open calls of these kinds may `Look` at the word and
update later the value they found (`HappenLate`). A call is open if it is the task's and
interrupts are on; every other call, and every AMO, is still one step. The 1- and 2-byte forms are left out: their new text names
instructions that do not exist (`s` without a width), and nothing on this
configuration uses them.

### `EmulatedHart`, with the abstract `IsaHart`

The trap copies the registers to `pt_regs`; `Emulate` is `do_atomic` with reads
and writes in the order of the code, and `epc += 4`; the return copies back.
Register 0 shares its slot of `pt_regs` with `epc`, as in the kernel, which is why
`regs_get_register_p` treats it apart. `WordOf`, from bits to a word, is a choice and
not a sum, so that the proofs can reason about it. Misaligned addresses and a second fault
inside the emulation are not modelled; a trap from user mode is a signal, as before.

### `PsramSetup`, and `PsramBoot` over it and `Boot`

The driver is straight-line code but for one early return, so it is the sequence
`Program` of accesses, one action per kind of access; the QMI (shifter, FIFOs,
cooldown) and the chip (SPI or QPI mode, reset enable, READ ID) run beside it.
`Restart` resets the RP2350 and not the chip, at any point, also in the middle of
a frame. Assumed of the hardware: BUSY covers frames that are queued but not
started (the code relies on that at qmi.c:129 and 180), and an interrupted frame
gives the chip no command. Clock dividers and timings are not modelled. The write
that makes the window writable (qmi.c:228) indexes the register array with the
bit mask; the address it hits is the set alias of the control register, so
the write has the intended effect and is modelled so.

`PsramBoot` is `main` with this driver: where `Boot` has setup_psram as one step that
finds what is fitted, `Setup` runs the driver access by access beside the QMI and
the chip, and `Return` goes on with the size it returned (`AfterSetup`). `GoOn` is the
rest of main and the user; `RestartBoard` resets both, and neither PSRAM's contents
nor the chip's mode. `Capacity` says what the chips hold, so that `ImplementsBoot`
joins the two: what `Boot` takes `fitted` to be is what the driver finds.

### `Boot`, and `Session` over it

`Boot` is `main` from the PSRAM setup on. Sizes are blocks; the headers in flash hold
them in bytes, the device tree's four in big-endian order and the image's eight
in little-endian, and main loads and swaps them as image.c does (`Bswap32`,
`KernelSize`, the cut to `SizeLimit`, which is the width of `size_t`). A byte has `Byte`
values. The headers may name any size: an image's is cut at image.c:48, and the sum at
main.c:122 wraps. A copy that this lets through goes on over the end of PSRAM. `Window` is
how far it gets, the 16 MiB of addresses at `PSRAM_LOCATION`: up to there a write behind the
chip's end reaches an address that the chip has, or is lost (`Written`); behind it the
store faults, and main has set no trap handler (`Fault`). Not modelled is what main reads
when a tree's size sends it to look for a header where no flash is.
PSRAM keeps what it holds across a restart, so a copy that a restart
interrupted is still there. `uart_getc` is the head of a FIFO that somebody fills at
any time.

`Console` is uart.c, `puts`, `_putchar` and `wait_for_input` with both FIFOs, the
terminal and the user as its environment; it has actions but no behaviour of its
own. `uart_send` is two actions, poll and write, as the FIFO drains between them.
Characters are line feed, carriage return or anything that shows; the terminal is
only a cursor. `due` is what main has printed and the terminal not yet got.

`Session` composes the two: between two steps of `Boot`, main makes the calls in
`script`, each with the text main.c or image.c gives it, cut down to its line
feeds, carriage returns and one character for the rest. A step of `Boot` waits for
them, the UART takes its time, the user types whenever he likes, and `Restart` comes
at any character: the FIFOs and all variables are lost, PSRAM and the terminal
stay. That `Session` implements `Boot` is the claim that the console changes nothing
of what main does: `keys` of `Boot` are the receive FIFO, and a key that
`wait_for_input` has taken but main not looked at counts as looked at. The SDK
build's `getchar_timeout_us` is not modelled. `KeysAssumption`: the keys that are typed
are those that `Boot` tells apart.

### `Startup`, `FlashLayout`, `DemoCall`, composed in `Program`

Addresses in words. `_copy` is one action per word, with the extra round of its
`bge`; `_set` stores where the code stores, from address 0; `_run_calls` with
entries is lost, as it calls through a register nobody has set.

`FlashLayout` is the build's part and main's search, with sizes in bytes.
`RelocBytes` counts the instructions of `.reloc`; the build has no compressed ones
(`-march=rv32imazicsr`), and the linker cannot shorten a `la` or the `call`, which go
from flash to RAM. Padding inside sections is part of their sizes. genimage is taken to place partitions without an offset back to back, as
`main` relies on.

In `DemoCall`, `Program` is start.S, one action per kind of instruction; C code is
one step that leaves the preserved registers and may change any set of the others
(`Clobber`).

The module `Program` puts them in order: build, start-up, main's search, the demo or
not, main's return, the halt. It ties the sizes together: the binary that `Link`
makes has the sections that start-up finds. The SDK's build has its own start-up
code, one step that is assumed right.

### `Clocks`

The driver is the sequence `Program` of register writes, polls and delays, from
`xosc_init` to `uart_init`; `SetPll`, `SetGated` and their like are the functions of
clocks.h, `SetUart0Pinmux` and `LedPin` those of main.c over pads.h and gpio.h. The
clock tree runs beside it and follows each write after any time. The core itself
runs from clk_sys: a step of the driver needs it (`Sys`). A pin is its pad's
isolation and input bits and its function. Assumed of the boot ROM: clk_ref runs
from the ring oscillator, clk_sys from clk_ref or, which is the reset value of its control
register, from the ring oscillator through its auxiliary multiplexer; PLLs and UART0 are in
reset, pads are isolated; gated clocks and dividers are as an earlier program left them.
From that reset value the write at clocks.h:139 changes both multiplexers of clk_sys at once
(see *Seen while modelling*), so `AuxChangesAtRest` speaks of the gated clocks only.
Assumed of `delay(10000)`: it outlasts the changeover of a gate or a multiplexer,
which takes a few cycles of either clock.

### `MemOps`

One memory and one call at a time; each round of a loop is an action. `call` and
`old` remember the call and the memory before it, for the properties.

### `Printf`

`_vsnprintf` goes through its format: `Literal` is one character, `Directive` all from a %
to the conversion's end, `Terminate` the NUL. Within a directive the record `p` goes from
`EvalFlags` over `EvalWidth`, `EvalPrecision` and `EvalLength` to `Converted`, each taking
from the format and, for `*`, from the arguments what the code takes, and `EvalSpecifier`
the specifier and its argument; nothing else can happen between them. A call's format is a
character, a directive and `%i`, whose argument 7 tells whether the directive took its own
arguments and no more. Sizes are scaled down together: `Bits`, `ShortBits` and `CharBits`
for int, short and char, `BufSize` for the 32 bytes of the conversion buffer. `Capacity`
is how much memory is looked at from the start of snprintf's buffer on, `Counts` what it
is told of its size. `sprintf_` is `snprintf_` with room for everything. `Directives` are
those the format may have; `DirectivesAssumption` says that they are written as C writes
them, with numbers that are unsigned ints, and have arguments of the types that they ask
for. `CInteger` and `CString` are the C standard's text, and `Plain` says for which
directives the library does the same; the formats that the bootloader has (`%d`, `%x`,
`%lX`, `%08x` and their like) are among them. `%ll` and `%j` are both long long on rv32
(`intmax_t` has 64 bits, so printf.c:670-673 takes its second alternative), which
printf_config.h:3 switches off: an integer conversion with them prints nothing and takes no
argument. The model has that (`LongLong`), and they are not `Plain`. For `%c` and `%p`, whose text is the
implementation's, only the buffers are checked.

## Runs

| Run | Bounds | Shows |
|---|---|---|
| `simple_intc` | lines 17 and 33 (bit 1 of windows 1 and 2), the timer, each line asserted at most twice | `TypeOK` (three frames suffice), `GateOpen`, `MaskDiscipline`, that the driver implements `IrqDelivery`; every requested line is served (`IrqServed`), an armed timer fires (`TimerFires`), traps return (`HandlerReturns`) |
| `atomic_ops` | 2-bit words, every primitive, two calls per context, the task's with interrupts on or off | nothing but the task's two-step calls with interrupts on updates a value that is no longer there (`LosesOnlyToInterrupts`); calls return (`CallReturns`) |
| `atomic_race` | the same, increments only | `IsAtomic` violated: of two increments one is lost |
| `emulated_hart` | x0, x1, x2; two words of 2 bits | emulation = instruction set for seven instructions |
| `emulated_minmax` | the same with min and max | violated: skipped, not done |
| `psram_boot` | a chip of each density and none, receive FIFO of 4, two restarts, one key, flash without a kernel, with one of 2, and with one whose size wraps; a window of 8 | `IdIsTheChips`, `Outcome`, `CsMovesBetweenFrames`, `SetupReturns`; that main with the driver is `Boot` (`ImplementsBoot`) |
| `boot` | PSRAM 0, 1, 2, 4, 8 in a window of 12; trees of 0, 1, 2, 6, images of 0 to 17, bytes of one bit; one restart, two keys | `CopyFits`, `LinuxIsWhole`, `PromptMeansNoKernel`, `BootEnds` |
| `program` | sections of 0 to 3 words, every remainder of RAM modulo 16, odd sizes for the SDK's build; C code that changes any of three registers | `MainSeesImage`, `PayloadIsFound`, `CallerKeepsRegisters`, `ComesToHalt` |
| `clocks` | clk_sys from either multiplexer, gated clocks in every state, dividers 1 and 2 | `RunningClocksAreSteady`, `NeverTooFast`, `TimersAreRight`, `UartMeetsItsPins`, `AuxChangesAtRest`, `ClocksComeUp` |
| `mem_ops` | four bytes, two values either side of 127, every call | `MovesExactly`, `FillsExactly`, `ComparesFirstDifference` |
| `session` | transmit FIFO of 3, receive FIFO of 2; no tree, only a tree, a kernel that fits, one that does not, one whose size wraps; PSRAM of 2 or none; two restarts | `NothingIsDropped`, `LinesStartAtTheLeft`, `ImplementsBoot`, `SessionEnds` |
| `printf` | int of 5 bits, conversion buffer of 5, every set of flags, width and precision in the format or as arguments, snprintf with room for 0, 1, 3, 20 | `BufferHolds`, `PrintsAsC`, `SnprintfKeepsItsPromise` |

Why the bounds are enough. Two lines sharing a bit position in different windows
are the least that can be confused; two assertions let a line rise again while
it is handled and after. One task and one handler are all the interleaving one
hart has without nested interrupts; 2-bit words have a sign, a zero and both
overflows. Three registers allow every coincidence of rd, rs1 and rs2, with and
without x0. The FIFO has the hardware's depth; the second restart finds whatever
the first left. Image sizes include missing, equal to and one more than a PSRAM.
`program` includes empty sections and every order of the extra word; alignment is
to 16, so sizes modulo 16 are all there is to the layout. Four bytes give
`mem_ops` every kind of overlap, and the proofs cover the rest. With bytes of one
bit `size_t` has four, so a size that is read in the wrong byte order or loses its
upper half shows: images of 16 and 17 are cut to 0 and 1, those of 14 and 10 wrap around
with trees of 2 and 6 and are copied, over the end of every PSRAM, up to and beyond the
window. In `session` both FIFOs fill up, a key comes in every state, and
the second restart finds what the first left. A restart may leave a line feed
without its carriage return, so `LinesStartAtTheLeft` speaks of sessions before
one. `printf` has widths and precisions below, at and
above the conversion buffer, whose 5 places just hold a binary int as 32 do, and
the smallest int.

The deadlock check is off where the system stops by design: a hart that is
dead, a boot that ended, calls that are used up.

### Fairness

* `SimpleIntc`: the hart executes its instructions. Strong fairness, because an
  exception can be taken over and over above any code; an emulated instruction
  is skipped by `epc += 4`, so it does not come back. Interrupts that are enabled
  infinitely often are taken (the hart samples them at every instruction);
  irq-off sections and softirqs end. No fairness for devices, requests or timers
  being armed. Assertions are bounded, which a device that interrupts faster than
  it is served would break.
* `AtomicOps`: a context's instructions execute, the handler returns. Strong fairness,
  because the handler may stop the task again and again.
* `PsramBoot`: the core runs setup_psram and the QMI shifts; nothing is asked of the
  rest of main, nor of the reset button.
* `Clocks`: the core runs while clk_sys does; the crystal, each reset, PLL, gate and
  multiplexer does what it was told after some time.
* `Session`: the core runs, the UART transmits, and the user types in the end; the
  user's program need not return.
* `Boot`, `Program`: the code runs, and somebody types in the end. A payload is
  not required to return. A hart that has faulted stays where it is.

## Proofs

`SimpleIntc_proofs` proves, for every set of lines below 512, every set of stale
lines and parent interrupts, and every bound on assertions:

* `Inductive`: `IInv` is an invariant;
* `TypeCorrect`, `GateOpenAlways`, `MaskDisciplineAlways`: `TypeOK`, `GateOpen`,
  `MaskDiscipline`;
* `ImplementsDelivery`: `DeliverySpec`, i.e. every step is a step of
  `IrqDelivery` or leaves its variables alone.

They rest on the named assumptions of `SimpleIntc` only. Argument: `TypeOK` is
not inductive, since the depth bound depends on what kind of frame lies where and
on interrupts being off in them. `IInv` adds `Nesting` (which frames can be
stacked, and where interrupts are enabled), `Levels` (the value of `meicontext` at
each pc of the handler, and what it must have saved), `Masking` (the enable bits
follow `started` and the line in service) and `Parents` (an open handler has all
parent enables in its saved copy or set again since). `EnableBitInjective` is the
arithmetic that keeps two lines from sharing a bit. `TypeStep`, `NestingStep`,
`LevelsStep`, `MaskingStep` and `ParentsStep` each prove one part preserved, action
by action; `DeliveryStep` is the refinement step.

`Library_proofs` is about the bootloader's own library. Of `MemOps` it proves, for every
size of memory and every set of byte values:

* `Inductive`: `IInv` is an invariant;
* `MovesExactlyAlways`, `FillsExactlyAlways`, `ComparesFirstDifferenceAlways`: the
  properties of the run `mem_ops`.

The properties speak of finished calls only, so `IInv` adds what each loop has done
when `len` bytes are left: which part of the target is written, that the part of
the source still to be read is untouched (this is where the direction matters), and
that the bytes compared so far were equal.

Of `Printf` it proves the three properties of the run `printf`, for ints of every width, a
conversion buffer of every size, every directive and argument, and every room for snprintf:

* `PrintfInvAlways`: `PrintfInv` is an invariant;
* `BufferHoldsAlways`: `BufferHolds`, the conversion of an integer stays in its buffer;
* `SnprintfKeepsItsPromiseAlways`: `SnprintfKeepsItsPromise`, what it returns and what it leaves
  in the caller's buffer and behind it;
* `PrintsAsCAlways`: `PrintsAsC`, plain directives print what C says, and the next directive
  finds its argument.

The properties speak of calls that are over. `PrintfInv` says how they get there:
`Progress` (at each place in the format, which arguments are left and what has been
printed), `Sending` (what was said has been counted and, but for the NUL of a `%c`, sent on),
`Filling` and `Ended` (a caller's buffer holds as much of it as there is room for, first
without a NUL and then with it), and `InBuf` of the conversion buffer. Four steps need
more than the invariant:

* *The parser reads what was written.* `Shape` says what is where in the format of a
  call, `AtoiReads` that `_atoi` gives back a number whose digits are written there,
  and `FirstEvaluated` and `SecondEvaluated` that the directive and the `%i` behind it are
  evaluated to the fields they were made from, with the arguments that are theirs.
* *The number is C's.* `NumberIs` gives the buffer at the end of `_ntoa_format`: digits,
  zeros up to precision and width, prefix and sign. `CutZeros` and `KeptIs` are its hard
  part, the zeros that make way for a prefix; that these are no digits is what `Plain`
  asks. `IntegerIsC` turns it round and puts it in its field. `StringIsC` is the same for `%s`.
* *The buffer is enough.* `PushFits`, `ZeroPadFits`, `HashFits` and `FormatFits` assume nothing of
  width and precision: the loops look at the room before they write.
* *Nothing else is sent.* `ShownIs`: the output functions drop a NUL and nothing more.

Recursion over the rounds of a loop is done by hand: `RecursionExists` gives the function,
`Smallest` and `Upwards` are the inductions, stated for sets of numbers because the
library's take an operator. The assumptions are `PrintfAssumption` (three widths in order, int
wide enough for the 7 of a call, a conversion buffer of at least one place),
`DirectivesAssumption`, and `PowersAssumption`: that a power of two is twice the one before
and not 0, which the provers do not know. TLC evaluates all three for the run `printf`.

`AtomicOps_proofs` proves, for every width of the word, set of operations and number
of calls, whether the task has interrupts on or off:

* `Inductive`: `IInv` is an invariant;
* `LosesOnlyToInterruptsAlways`: `LosesOnlyToInterrupts`, i.e. every step is a step of
  `AtomicCell` with `Late <- TwoSteps`, or leaves it alone.

Nothing is assumed of how the kernel calls the primitives; what cannot be had without that,
`IsAtomic`, is what `atomic_race` refutes. `IInv` adds to the shape of the state where
a call and its trap can be (`Places`), that the handler starts only where the task has
interrupts on and no trap is open (`Exclusion`), and that therefore what was loaded is what is
there, unless the handler could come in (`Current`). `OnlyOneInTheMiddle` gives the reason:
whoever does not run and stands between a load and its store is open. So a store in a call
that is not open is `Happen`, and one in an open call `HappenLate`.

`EmulatedHart_proofs` proves, for registers of every width, every set of registers
and every memory:

* `Inductive`: `pt_regs` holds the registers, with `epc` in the place of x0;
* `EmulatesIsaWithoutMinMax`: `EmulatesIsa` where only lr, sc, swap, add, xor, and, or are
  executed (`Emulated`); `emulated_minmax` has the counterexample for the others.

`SavedAreRead` and `SwitchIsIsa` are the two halves of a step: the operands are those of
the instruction, and the switch computes the same word; `EmulateExecutes` puts them
together with rd, which may be rs1, rs2 or x0.

`Program_proofs` proves, for all sizes of code, data, tree and kernel, every layout,
either build, every caller of the payload and any C code in it:

* `ProgramFindsPayload`, `ProgramSeesImage`, `ProgramKeepsRegisters`: `PayloadIsFound`,
  `MainSeesImage` and `CallerKeepsRegisters` of the run `program`;
* `MainSeesImageAlways`, `DemoKeepsRegisters`: the latter two of `Startup` and `DemoCall`
  by themselves.

It has one invariant for each of the three modules, and shows that a step of `Program`
is a step of the module or none of its (`FlashStep`, `DemoStep`, `ProgramKeepsStartup`).
`FlashInv`: main's rounding up to 16 changes nothing, because the code before .text
takes 176 bytes, a multiple of 16, and the end of .data in RAM is aligned to 16
(`BinaryIsMultiple`). `StartupInv`: `Copying` says how far a copy has got and that its
pointers, in flash and in RAM, move together, and `Copied` that .data stays while .text
is copied, whose word too many is the same word that .data has there, because the
sections are as far apart in flash as in RAM. `DemoInv`: `Saving` and `Restoring` say
which registers are the caller's, which are in the save area, and which have been
taken back, at each instruction of start.S; `DemoProgramIs` reads the instructions and
their places off the sequence.

`PsramBoot_proofs` proves, of `Boot` by itself, for every flash, whatever sizes its headers
name, any number of values of a byte, every size of PSRAM and of its window, any number of
keys and restarts:

* `Inductive`: `IInv` is an invariant;
* `CopyFitsAlways`, `LinuxIsWholeAlways`, `PromptMeansNoKernelAlways`: `CopyFits`,
  `LinuxIsWhole`, `PromptMeansNoKernel`.

`HeadersAreUnderstood` is about what image.c computes: loading four bytes in the wrong
order and swapping them gives the size, and the cut to 32 bits leaves the remainder
of an image's. `CopyFits` has the premise that the sum main compares does not wrap, and
`LinuxIsWhole` speaks of the image's blocks if both sizes together fit into `size_t`
(`SizesFit`): otherwise neither is so, in the code as in the model. `IInv` adds that main's variables are what flash and
PSRAM say they are from the step on that reads them (`Locals`), that a copy that has
begun fits (`Fits`), that what has been copied is there (`SoFar`, of a PSRAM that a
restart leaves as it is), and that main jumps when it has copied all of something and
asks when there is nothing (`Decided`).

Of `PsramBoot` it proves, for every set of chips by their two ID bytes, every depth of
the receive FIFO and any number of restarts:

* `BoardInductive`: `BInv` is an invariant;
* `TypeCorrect`: the types of `PsramSetup`; one frame at most is queued and the receive
  FIFO never overflows;
* `IdIsTheChipsAlways`, `OutcomeAlways`, `CsMovesBetweenFramesAlways`: `IdIsTheChips`,
  `Outcome`, `CsMovesBetweenFrames`;
* `BoardImplementsBoot`: `ImplementsBoot`, from which `BoardStartsLinux` draws `CopyFits` and
  `LinuxIsWhole` for main with the driver;
* `BoardImplementsSetup`: driver, QMI and chip do on the board what `PsramSetup` says.

Argument: the driver is a sequence of 62 accesses, which `ProgramIs` reads off the
concatenation of its parts, and `QInv` says what is so in front of each. `Queues`: a frame
may be on its way only right behind its write, an answer may wait only from there to
its read, so no poll lets the driver by too early and no answer of one command is
taken for another's. `Windows`: what the chip has seen since its CS fell, in particular how
many bytes of READ ID; `Modes`: the chip's mode, which is unknown until the quad exit has
ended and known from there; `Answers` and `Results` follow. A restart satisfies `QInv` at
its first place whatever the chip was told, since only `Windows` and `Modes` speak of the chip
and neither does so there. `Joined` adds that what is fitted is what the chip holds, so
`Return` is the step `SetupPsram` of `Boot` (`SizeIsFitted`) and every step before it none.

`Session_proofs` proves, for every depth of both FIFOs, every payload and PSRAM, any keys
and any number of restarts:

* `Inductive`: `IInv` is an invariant;
* `NothingIsDroppedAlways`: `NothingIsDropped`;
* `LinesStartAtTheLeftAlways`: `LinesStartAtTheLeft`;
* `SessionImplementsBoot`: `ImplementsBoot`, the refinement of `Boot` by main with its console.

`IInv` is `Sending` (between calls and while a key is waited for nothing is left to send;
room that a poll saw is still there at the write; what is due is the FIFO and then the
rest of the text) and `Waiting` (the calls still in `script` are those that main may make
at this place: it waits only where `Boot` takes a key, as its last call, and looks at
the answer before it says more). `StepSimulates` then has one case for each step: a key
that is taken is `Boot`'s `Answer` or `LeaveMain`, each step of main is `Boot`'s of that name, a
typed key is `Type`, and what the UART does is nothing to `Boot`. That a text with its
carriage returns is a sequence of characters rests on `PartsAreJoined`, an induction
over the number of its parts, which is made with the least number for which the claim
would fail (`Smallest`).

`LinesStartAtTheLeft` needs a second invariant, `LinesInv`. A text is `Closed` if behind each of
its line feeds the cursor is brought back before anything is shown. What printf sends is
closed whatever the text (`PrintfIsClosed`, again by a least part), and so are the few texts
of puts (`PutsAreClosed`), but for the banner, whose line feeds find the cursor at the left
(`BannerIsNeat`). So what is due is always `Neat`: a closed text behind it keeps it so
(`SayKeepsNeat`), and so does a character that leaves the UART (`ShiftKeepsNeat`).
`MessagesAreNeat` goes through main's messages. The premise `restarts = 0` is needed: a
restart may leave the cursor in the middle of a line or below its end, and the banner sends
only line feeds before its text.

`Clocks_proofs` proves, for whatever dividers, sources and gates an earlier program left
and at any speed of crystal, PLLs, gates and multiplexers:

* `RunningClocksAreSteadyAlways`, `NeverTooFastAlways`, `TimersAreRightAlways`,
  `UartMeetsItsPinsAlways`: the invariants of the run `clocks`;
* `AuxChangesAtRestAlways`: its action property `AuxChangesAtRest`.

`ProgramIs` again gives the instructions and their places. `IInv` says from which
instruction on what is so: after which poll the crystal and a block are there (`Polled`),
which PLL registers have been written (`PllsAreSet`), from where clk_ref and clk_sys have
changed over (`MuxesAreSet`), that until then clk_sys is still as reset or as the boot ROM
left it (`FromReset`), which gate has closed before its source is chosen
(`AuxIsSet`, `GatesFollow`), which dividers are 1 (`DividersAreSet`), and what timer, pins and
UART are set to (`LateDevices`). `Untouched` says once which parts a step leaves alone, and
there is a lemma for each kind of instruction and one for the hardware. Where the
code only delays (`DelayLong`), the proof uses what the model assumes of the delay.

Model-checked only: all liveness (`IrqServed`, `TimerFires`, `HandlerReturns`, `CallReturns`,
`SetupReturns`, `BootEnds`, `SessionEnds`, `ComesToHalt`, `ClocksComeUp`), since the prover handles
neither ENABLED nor fairness. Every invariant and every safety action property of a run that passes is
stated by a theorem.

## What is not modelled, and why

The character helpers (no state), the register headers, power.h and linux/
(constants and macros), the device tree and the kernel configurations (data), the
build beyond the flash layout, floating point and long long in printf (not
built). `hexdump` is its line breaks in `Session`; the bytes it shows are data. The
pin that PSRAM's chip select needs (main.c:158) is not followed into `PsramSetup`,
which starts with it set. A format that ends inside a directive, which C leaves
undefined, does not occur. With `#` and no precision printf drops digits for the
prefix when a number is exactly as wide as its field (printf.c:244), and `%hhd` takes
char as unsigned; neither is used here, so `Plain` leaves these directives out and
`LosesDigits` names the first.
An unmapped line that an earlier boot stage left enabled (`Stale`) and that stays
asserted keeps the loop at 0006:43 going, since nothing masks it. The run
`simple_intc` has no such line, because liveness would fail; the proofs of safety
are for any set of them.

## Findings

1. `atomic_race`: the `lw`/`sw` replacements lose updates of an interrupt handler.
2. `emulated_minmax`: AMO min and max are skipped without being done.

Seen while modelling, plain enough to need no run: "Press any key to reset."
(main.c:144) ends in the halt loop of `_entry`, nothing resets the chip; and main
starts Linux on any PSRAM that holds the image, 1 to 4 MiB ones too
(qmi.c:218-225), while the memory node of the device tree always says 8 MiB
(raspberrypi-pico2.dts:37-40). An image size of 2^32 or more is cut (image.c:48) and
`deviceTreeSize + kernelSize` may wrap (main.c:122): with headers that say so, Linux is
started with a part of its image, or the copy leaves PSRAM; both are in the model of `Boot`,
and `CopyFits` and `LinuxIsWhole` say what holds otherwise. From the reset value of
CLK_SYS_CTRL the write at clocks.h:139 changes SRC and AUXSRC of clk_sys in one go, while it
still runs from the auxiliary side, and the poll at 140 that might have separated them from
what follows is commented out. `_set` (rp2350-crt.S:27) never clears .bss, and `_run_calls`
(rp2350-crt.S:70) would call through a register nobody has set; the bootloader has neither
.bss nor constructors, so neither comes into play.

## Plan

Order: what the running system depends on first.

1. Done: `SimpleIntc` with `IrqDelivery`; `AtomicOps` with the accesses of its traps;
   `EmulatedHart`, `Boot` with its headers in bytes, `Clocks` with pins, `Printf` with its
   parser, `MemOps`; `Startup`, `FlashLayout` and `DemoCall` composed in `Program`; `Boot` and
   `Console` composed in `Session`, `Boot` and `PsramSetup` in `PsramBoot`. Proofs of the
   safety of all of them and of the refinements of `IrqDelivery`, `AtomicCell` and, twice, `Boot`.
2. Compose `Boot` over `MemOps`' `memcpy` and `FlashLayout`'s addresses, so that the copy
   that `Boot` counts in blocks is the one `MemOps` proves in bytes.
3. `PsramSetup` across the jump: the memory window as Linux uses it after setup, and
   the chip select's pin.
4. `AtomicOps` with `SimpleIntc`'s task stack as its scheduler, so that softirqs, too, call
   primitives.
5. `Printf` with a format of several directives: the proof goes from one directive to the next
   already, and would need `Shape` for each.
