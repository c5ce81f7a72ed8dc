# PolyOS: specifications and proofs

PolyOS is a small x86_64 kernel in C: it boots under Limine, sets up the
descriptor tables, the exception and interrupt handlers, a text terminal on the
framebuffer and a serial port, and then echoes what is typed. This directory
holds TLA+ models of it, the TLC configurations that check them, and TLAPS
proofs. File names below are relative to `kernel/arch/x86_64/` unless they
start with another directory.

## 1. Inventory

There is one processor and there are no threads. Concurrency comes from
interrupts (keyboard, timer, spurious ones), from exceptions and the
non-maskable interrupt, and from the devices, which act at any moment.

| Component | State | Operations | Talks to | Model |
|---|---|---|---|---|
| Keyboard driver, `keyboard.c` | ring of 256 characters, head, tail, shift flag | `keyboard_handle_scancode` (in the interrupt), `keyboard_getchar` (in the main loop), `keyboard_init` | shared ring, no lock | `Keyboard`, `KeyQueue` |
| Interrupt controllers, `irq.c` | two 8259A chips | `pic_remap`, 16 handlers, `irq_eoi` | ports; registers handlers in idt.c; calls the keyboard driver | `Pic`, `Interrupts` |
| Dispatcher, `idt.c` | 256 gates, table of handlers | `idt_init`, `idt_register_handler`, `interrupt_dispatch` | called by isr_stubs.S; calls handlers; prints and halts | `Interrupts`, `Descriptors` (gates), `Console` |
| Exceptions, `exceptions.c` | none | `exceptions_init`, one handler per vector | dispatcher, framebuffer | `Interrupts`, `Console` |
| Entry and exit, `isr_stubs.S` | the stack frame | 256 stubs, `isr_common` | dispatcher | `IsrFrame`; `Interrupts` (frame as a whole) |
| Boot and main loop, `kernel/kernel/kernel.c` | none | `_start`, `kernel_main` | calls everything | `Interrupts`, `Descriptors`, `Console`, `Format` |
| Terminal, `tty.c` | 80 x 40 cells, dirty flags, cursor, two colours | print, new line, tab, scroll, clear, render, set cursor and colours | serial port, font, framebuffer | `Terminal`, `Console` |
| Serial port, `serial.c` | the port's registers | `serial_init`, `serial_putchar` | port | `Serial`, `Console` |
| Segments, `gdt.c` | 7 entries, TSS | `gdt_init`, `gdt_set_kernel_stack` | processor | `Descriptors`, `IsrFrame` |
| Framebuffer and font, `video.c`, `font.c` | pixels, blend flag | initialise, put, read, blend, clear, draw a glyph | bootloader, hardware | `Video` |
| C library, `libc/` | none | `vsprintf` and its callers; `atoi` and relatives; memory and strings | terminal | `Format`, `Numbers`, `Memory` |

What is hard, and what makes each part correct:

- *Keyboard*: the handler runs between any two memory accesses of
  `keyboard_getchar`. Correct: a FIFO queue that loses a key only when full; the
  slot being read is never overwritten; the shift flag cannot stick.
- *Interrupts*: the initialisation order; the window in which the controllers are
  half programmed; spurious interrupts; non-specific acknowledgement; edges that
  are forgotten. Correct: a device never stops the kernel, each interrupt finds
  its handler and is acknowledged once, the keyboard cannot die, and timer and
  keyboard are served for ever.
- *Terminal*: wrapping and scrolling at the edges, the dirty flags. Correct: cells
  not flagged are shown, the cursor stays inside, no text is lost.
- *Console*: the echo goes to two devices while keys arrive, and an exception
  prints through the same code it interrupted. Correct: echo complete and in
  order on both, no byte lost in the port, the panic message whole.
- *Framebuffer and font*: padded rows, clipping at the edges (negative coordinates
  arrive as large unsigned ones), rounding in the blend. Correct: a cell shows its
  glyph until something else is drawn on it, nothing is written outside the rows,
  a channel stays in its byte.
- *Entry and exit*: an interrupt comes between any two instructions, and three
  places must agree on the frame. Correct: the interrupted code notices nothing,
  the handler reads each register under its name, C finds the stack aligned.
- *Descriptors*: an address is scattered over fields, and a table is used as soon
  as it is loaded. Correct: loading never faults, and every vector leads to its own
  stub with interrupts masked.
- *C library*: digits are written backwards into a buffer without a check, the
  smallest integers have no positive counterpart, formats may be malformed, copied
  regions overlap. Correct: no buffer is overrun, what is written is what the format
  says, numbers read back as printed, a copy never reads what it has overwritten.

`PROJECT.json` lists the hazards line by line.

## 2. Modules

| Module | What it is |
|---|---|
| `KeyQueue` | abstract: what the keyboard driver promises its caller |
| `Keyboard` | the driver, one step per access of the ring |
| `KeyboardProofs` | its theorems, with the refinement of `KeyQueue` |
| `Pic` | one 8259A as operators on a record (hardware, external) |
| `Interrupts` | boot order, controllers, dispatcher, handlers |
| `InterruptsProofs` | its theorems |
| `Terminal` | the terminal, one step per operation |
| `TerminalProofs` | its theorems |
| `Serial` | the writes of serial_init, and the 16550 as operators on a record |
| `Console` | composition: `KeyQueue` as the driver, `Terminal`, `Serial`, the texts of the boot, main loop, exceptions |
| `ConsoleProofs` | its theorems |
| `Descriptors` | the tables of gdt.c and idt.c, their loading, and how the processor reads them |
| `IsrFrame` | composition: the tables of `Descriptors`, then isr_stubs.S, instruction by instruction |
| `IsrFrameProofs` | the theorems about both |
| `Video` | the framebuffer, blending, glyphs, and the terminal's cells made of them |
| `VideoProofs` | theorems about blending, the pixels and the cells |
| `Numbers` | reading numbers and absolute values, with the width of the integers |
| `Format` | vsprintf, one step per turn of its loops |
| `FormatProofs` | theorems about the digit buffers, about reading a format, about what is written and about reading numbers back |
| `Memory` | the six functions of libc/string, one step per byte |
| `MemoryProofs` | the theorems about copying and comparing |
| `MC*` | the constants of the runs; `MCLibc` puts `Format` and `Memory` into one run |

Definitions named `Bad...` are variants with a plausible mistake; no
specification uses them. Each property is violated when one of them takes the
place of the definition it varies, which shows what the property guards.

### Keyboard

`kb_buffer`, `kb_head`, `kb_tail` and `shiftHeld` are the statics of
keyboard.c; `held` is the real keyboard. `KeyDown` and `KeyUp` are one run of the
handler (`keyboard_handle_scancode` with `kb_buffer_push` inside), atomic because
its gate clears the interrupt flag. `keyboard_getchar` is `Call`, `LoadHead`,
`ReturnNone` or `LoadTail`, then `ReadSlot` and `ReleaseSlot` in either order:
the variables are neither volatile nor separated by a barrier, so the compiler may
swap the last two. The two translation tables are constants. `ShiftKeys` is
whatever sends the shift codes; an extended key that brackets itself in them while
Num Lock is on counts as one while it is down. What is not modelled is the
opposite bracketing (a release code sent while a shift key is held), which can
only clear the flag, and the prefix byte 0xE0, which the driver ignores as a
release.

`KeyQueue` is what keyboard.h promises. The mapping: the queue is the ring from
tail to head; the answer is fixed at the access that decides it, the load of
`kb_head` that finds the ring empty or the release of the slot.

### Interrupts and Pic

`Start` is the list of initialisations of `_start`; each is an action guarded by
its turn. `RemapWrite` is one port write of `pic_remap`, so devices act between
any two. `handlers` is the table of idt.c, and `Registered` what
`idt_register_handler` makes of it. `frames` is the stack of interrupt
frames; `stage` says where the frame's code is: `interrupt_dispatch`, the
keyboard handler's read of the port (`irq1_keyboard`), the two writes of
`irq_eoi` (`irq_eoi`, `EoiMaster`), `Iret`, or `Panic`. The environment is
`Tick`, `KeyByte`, `SlaveEdge` (requests), `Noise` and `CascadeNoise` (requests
that are gone at the acknowledgement), `Raise` (exceptions and the non-maskable
interrupt). `Pic` models the chip as far as irq.c uses it: four initialisation
words, masks, edge-triggered requests, fixed priority, non-specific end of
interrupt.

### Terminal

The statics of tty.c, and `screen`, what was last drawn of each cell. Operations
are atomic: the only thing that can come in between is an exception, which never
returns, or the keyboard handler, which does not touch the terminal. Pixels are
abstracted to the cell they draw. The guard `terminal_isSafe` is the macro
SAFETY_CHECK; an operation it refuses is a stuttering step. `isInit` is the static of
video.c that `terminal_render` asks for: before `video_initialize` it draws nothing.
Its place and scale are those of its only call, the corner and 2; in `Video` the
scale is a constant. `Console` renders only in kernel_main, which runs only with a
framebuffer, and takes `isInit` to be true.

### Serial and Console

`boot` tells which text is printed: what comes before `serial_init`, what comes
before the gates are loaded, what comes before `terminal_clear`, and the greeting
of kernel_main. Between them are `SerialInit` (one write of `serial_init` each),
`LoadGates`, `terminal_clear` and `SetCursor`. `stack` holds the boot or kernel_main,
and the exceptions on top of it; each entry has the text it still has to print and
its next step: `terminal_write` (the terminal's part of one character),
`wait_transmit` (the poll), `serial_putchar` (the write of the byte), `Printed`
(the boot or kernel_main goes on, an exception halts). An exception is the kernel's
own only once the gates are loaded. The driver is `KeyQueue`, which
`KeyboardProofs` shows it to implement. `typed`, `sent` and `line` are histories.

`Serial` is the port as far as the code uses it: the latch that turns two registers
into the divisor, line format, FIFO reset, a holding and a shift register. A byte
carries the settings it was given under, and becomes `Changed` when they change
before it is out; what arrives as intended has the settings of `serial_init`
(`Wanted`). The text that `terminal_initialize` prints comes before `serial_init`
and is sent as the firmware left the port.

### Descriptors

An entry or a gate is a record of its fields, each cut from the address as the code
cuts it. `BYTE` is the number of values of a byte of an address (256 in the code), so
that the run can take a smaller one and the proof covers all; selectors, limits and
flags are the code's. The steps are those of `gdt_init` (`FillGdt`, `lgdt`, the
far return `lretq`, `MovSs`, `ltr`), of `idt_init` (`SetGate` for each vector, `lidt`)
and `gdt_set_kernel_stack`; a step whose selector does not fit the table goes to
`"fault"`. `HasGate`, `IsKernelCode`, `IsKernelData`, `IsFreeTss` and `Offset` are
the processor: presence, privilege, type, limit, interrupt-stack index.

### IsrFrame

The module starts at the bootloader's hand-over, with the steps of `Descriptors`;
then interrupts are on. An interrupt finds its gate, an interrupt gate masks
interrupts, and a return needs the segments that its frame names.

The program is a sequence of instructions for each vector (`Code`: the stub, then
`isr_common`), `ip` the place in it, and one action executes one kind of
instruction. The stack is a sequence of 8-byte words; a word carries where it
comes from (`<<"value", "rax">>`, `<<"number", 33>>`, ...), so that a register
restored from another's word is told apart. `Interrupted` and `Iretq` are the
processor: it aligns the stack to 16 bytes, pushes five words and for some vectors
an error code. `contexts` is a history of what each interrupt found. Of
`interrupt_dispatch` the module keeps what matters here: which fields it reads,
that it halts below vector 32, and that it changes the registers a C function may
change. As compiled (gcc, the Makefile's flags) irq.c and keyboard.c use no SSE
register, and the run assumes so; that the entry code relies on it is the finding
of run `saves_all_regs`. The red zone is off, so nothing lives beyond the stack
pointer. The interrupted code does not change registers in the model, which makes
its steps pushes and pops; it need not, as the words are symbolic.

### Video

`fb` is the framebuffer, one colour per index, with the padding that the pitch
leaves at the end of each row; `enableBlend` is the switch of video.c. A colour is
the record `color32`; the code's `uint32_t` is the same four bytes.
`font_drawChar` gives each address what the one `video_putPixel` for it writes
(`Stored`): no two pixels of a glyph have the same address (`PixelUnique`,
`IndicesUnique` in `VideoProofs`), so the code's order of the loops does not matter. `DrawCell` is what
`terminal_render` does for one dirty cell; which cells are dirty is the business
of `Terminal`. `drawn` is a history: the character and colours last drawn of each
cell, cleared where something else is put. The module shows that `screen` in
`Terminal` and `Console` is a sound abstraction of the pixels.

`video_initialize` is a step with the bootloader's answer (`Responses`): without a
framebuffer, or without 32 bits a pixel, it fails, and `_start` calls `kms`, which
halts. A glyph is read bit by bit from bytes packed as in the font file (`IsSet`),
if the file has the magic number of one; `Picture` says independently which pixels
they stand for.

The terminal's colours are opaque (`Opaque`), as are the two that
`terminal_initialize` sets. `terminal_setBackground` accepts any, and kernel_main turns
blending on (kernel/kernel/kernel.c:33): a translucent colour would show what was there
before, but the kernel draws none. `Memory` is what
is stored at an address, outside of this code; the kernel maps nothing at
the low addresses that a colour makes (`Unmapped` in `MCVideo`).

### Numbers and Format

`IntHalf` and `LongHalf` give the integers their width. Arithmetic that C leaves
undefined (the digits of the smallest number, before the sign is applied) wraps
around, as it does in the machine code that gcc makes of these functions with the
Makefile's flags. `atoi` and its relatives take a pointer, `<<s>>` to the string `s` or
`Null`, which reads as 0. A format is a sequence of pieces, each a
text or a directive; `vsprintf` reads the characters they make. `Ordinary`, `Char`,
`String`, the six `Take...` (va_arg with the width of the directive), `Unknown`,
`LongUnknown` and `Return` are the branches of its loop; `uint_to_str`,
`ulong_to_str` and `ulonglong_to_str` produce one digit a step, and `Converted`
is what `int_to_str` and its relatives add. `call` is a history. `Reference` says what the
text should be without the loops: the digit of each power of the base
(`Numeral`). `Demonstration` is the part of kernel_main that reads strings as
numbers and prints these with their absolute values.

### Memory

`now` is the call in progress, `i` its loop variable, `before` the memory at its
start. `memmove` goes down where the destination is above the source (`Down`).

## 3. Runs

| Run | Bounds | What it shows |
|---|---|---|
| `keyboard` | ring of 4, a letter with two characters, a key without, two shift keys | `QueueSpec`, `ChosenSlotIsStable`, `LossOnlyWhenFull`, `ShiftNotStuck`, `EveryCharTaken` |
| `interrupts` | vectors 2, 8, 13; one slave device; three nested frames | `HandlerInstalled`, `NothingLeftInService`, `HandlersDoNotNest`, `KeyboardNotStuck`, `OwnAcknowledge`, `KeyServed`, `RequestServed` |
| `terminal` | 3 x 2 cells, tab stop 2, two characters, cursor positions inside, below and right | `CleanIsShown`, `CursorStaysInside`, `TextKept` |
| `console` | 3 x 2 cells, four texts, queue of 2, 2 keys of a letter, new line and tab, two nested exceptions | `EchoedInOrder`, `LineCarries`, `ScreenShowsEcho`, `MessageSent`, `EveryKeyShown`, `ExceptionHalts` |
| `video` | 27 x 6 pixels and one of padding, 2 x 2 cells of 18 x 4 pixels (glyphs of 9 x 2 at scale 2), two colours, one character with a code beyond the font, six pixels put directly, three answers of the bootloader | `CellsShowGlyphs`, `PaddingUntouched` |
| `frame` | bytes of two bits in addresses, vectors 2, 3, 8, 14, 21 and 33, two interrupts on the stack, up to two words below them | `TablesLead`, `FrameMatchesStruct`, `StackAligned`, `Transparent` |
| `libc` | `int` of 5 bits and `long` of 7, formats of up to two pieces and malformed ones; memory of six bytes, every place of source and destination | `DigitBufferHolds`, `Rendered`, `ReadsBack`, `EveryCallReturns`; `RegionMoved`, `Compared` |
| `spurious7`, `spurious15`, `overrun`, `saves_all_regs`, `getpixel` | the smallest that show them | five comments the code does not follow (section 6) |

Every passing run also checks the `TypeOK` of its module.

Why the bounds are enough. A ring of 4 fills, empties and wraps, and has a state
with a gap on each side; the proofs then cover every size. The grid of 3 x 2 has
a first, a middle and a last column, a tab stop that fits and one that does not, a
row that moves up and a row that disappears; again the proofs cover every size.
Vectors 2, 8 and 13 are one exception that can come at any time, one whose
handler halts and one whose handler returns; the interrupts of a kind differ only
in their line, and lines 0, 1, 2, 7, 8 and 15 all occur. Three frames are a
handler, an exception in it and a non-maskable interrupt in that; the proofs cover any
number. In `console` the greeting leaves the cursor in the last row, so that two keys
wrap and scroll, and two waiting characters fill the queue; the first text has two
characters, so that one can be in each of the port's registers when `serial_init`
changes its settings. `ScreenShowsEcho` compares the screen with an
independent definition: an endless page on which every character has its place,
and of which the screen shows the last rows.
The framebuffer of `video` is narrower and lower than its cells, so that one is
drawn whole, one cut at the right, one at the bottom and one at both edges; the
pixels put directly are one with each kind of alpha in the corner of the first
cell and one beyond each edge, on the left with a negative coordinate. Rows of nine
pixels fill two bytes, and the second glyph has its first, eighth and ninth pixel
set in one row and all the others in the next. The character's code is beyond the two
glyphs, so that the code's remainder picks the second.

In `frame`, the vectors are one of the non-maskable interrupt, exceptions with and
without an error code, and the keyboard; a second interrupt finds the stack at
either parity and the registers at every stage of being saved and restored. A
third would find nothing new: whatever interrupts a handler finds a stack of some
parity and some registers, like the second. With two bits to a byte of an address the
stubs lie in all three parts of an offset, and the proof covers every width.

In `libc`, the buffers are as tight for the narrow integers as those of 12, 11 and 21
bytes are for 32 and 64 bits: the smallest and the largest number fill theirs
(`CodeSizesFit` is the same claim about the real sizes). Two pieces show that each
directive leaves the loop where the next one starts; two strings, one longer
by a byte than the other, reach the end of an `int` exactly and pass it.

Deadlock is not checked where the kernel really stops (`interrupts`, `console`,
`frame`, `video` and the runs derived from them, where it halts, and `libc`, where a
behaviour is one call) and in `terminal`, whose driver is any caller.

## 4. Fairness

- `Keyboard`: weak fairness of the main loop's steps. The loop never ends and an
  interrupt handler returns to it. Nothing is assumed of the keys.
- `Interrupts`: weak fairness of the processor, which executes its next
  instruction or takes the interrupt that is due. Nothing is assumed of the
  devices, except that the timer does not tick twice before kernel_main has run
  once (`ran`): its period of 55 ms is longer than the service of what is pending.
  The initialisations that print (`OtherInit`) wait for the serial port, so that
  the boot goes on rests on the port becoming ready, as in `Console`.
- `Format`: weak fairness of vsprintf's own steps.
- `Console`: weak fairness of the kernel's steps and of `Transmit`, the port taking
  the next byte or sending one. The latter
  is an assumption about hardware that the code makes too: `wait_transmit` has
  no time limit, and with a port that never becomes ready the kernel hangs.

## 5. Theorems

All are proved by TLAPS for every value of the constants that satisfies the
assumptions the modules name. What these ask:
- `Keyboard`, `KeyQueue`: a ring of at least one slot, translation tables over
  characters (`SizeAssumption`, `KeysAssumption`).
- `Terminal`: at least one cell, a tab stop of at least one, a space among the
  characters (`SizesAssumption`, `DataAssumption`).
- `Interrupts`: exceptions below 32, devices on the lines of the second controller
  (`ConstantsAssumption`).
- `Serial`, `Console`: the texts consist of the keys' characters, the message has one at
  least, NUL and the value that stands for a call on its way are none of them
  (keyboard.h returns 0 for no character, so no text contains it); the space is
  neither a new line nor a tab, which are two characters; the settings that the firmware
  left are told apart from the bytes written (`ConsoleAssumption`, `TerminalAssumption`,
  `SettingsAssumption`).
- `Descriptors`, `IsrFrame`: distinct stubs in the address space, exceptions below 32
  and interrupts from there to 255 (`AddressAssumption`, `VectorAssumption`); bounds
  that are numbers.
- `Video`: a row of the framebuffer holds the screen's, the screen is at most half of an
  `uint32_t` wide and high and the cells fit one, so that neither a pixel of a glyph
  nor the negative coordinate of another wraps around on to the screen; coordinates are
  those an `int` or an `uint32_t` has (`VideoAssumption`).
- `Format`: buffers for which the largest number has room (`SizeAssumption`), integers
  within their width, an `int` no wider than a `long` (`WidthAssumption`); callers that
  pass what the directives ask for, if anything (`CallerAssumption`).
- `Memory`: calls within the memory, with disjoint regions for memcpy; strings end
  within it (`MemoryAssumption`).

`KeyboardProofs`
- `TypeCorrect`, `SlotStable`, `ShiftReleased`, `NoOtherLoss`, `Refinement`.
- The inductive invariant is `Inv`: the types, and `ReaderInv`, which says what
  the reader's copies are worth at each step. Types alone are not inductive: that
  `kb_tail` stays in place while a slot is chosen, and that a call that has seen a
  character still has one when it takes it (`head` may be old, but the ring only
  grows meanwhile), is what the refinement and the stability of the slot rest on.
- The refinement goes through lemmas on the ring as a sequence: the number of
  waiting characters without the remainder (`CountValue`), where each is
  (`StoredElement`), that a push appends (`PushAppends`) and that moving the tail
  takes the head (`ReleaseTakesHead`).
- `ShiftReleased` has an invariant of its own, which is the property itself.

`TerminalProofs`
- `TypeCorrect`, `CleanCellsShown`, `CursorInside`, `NoTextLost`.
- `Inv` is the types with `CleanIsShown`, inductive as it stands. Types are kept by
  every operation alone (`TypeStep`), which `ConsoleProofs` uses; the lemmas
  `NextRowType` and `NextRowClean` cover wrapping, new lines and tabs at once.
  `NextRowKept` and `ScrollKept` carry `NoTextLost`.

`ConsoleProofs`
- `TypeCorrect`, `EchoInOrder`, `LineCarriesAll`, `MessageAlwaysSent`,
  `ScreenAlwaysShowsEcho`.
- `Inv` adds to `EchoedInOrder` and `LineCarries` what each frame of the stack holds
  (`Frames`: only one that prints has text, and one that waits for the port or writes
  to it has a character), how far the boot is (`Course`), the registers of the port
  before each write of `serial_init`, with the fact that no byte given to it
  earlier has the right settings (`PortState`), and that what an exception has sent,
  with what it still has to print, ends with the message (`Announced`). The
  first two are what makes `EchoedInOrder` inductive: a character leaves the queue
  for the echo in one step and the echo for the port in others, and an exception
  may come between any two of them. `LineCarries` needs `PortState`: the byte that the
  port takes must find the holding register empty.
- Most of the work is with sequences: the texts of the boot, one after the other
  (`NextText`, `ConcatSuffix`), and a character that moves from the head of one
  sequence to the end of another (`PassOn`). These lemmas speak of sequences over any set.
- The terminal's part is not proved again: `TerminalProofs` is instantiated with the
  console's variables (`TerminalStep`, `CleanStep`).
- `ScreenAlwaysShowsEcho`, for a grid of any size and texts of any length. The property
  speaks of the moments when the kernel waits for a key; `ScreenInv` says what holds in
  between, while no exception has come: the grid and the cursor, not yet the screen, show
  all that was printed since `terminal_clear` (`Current`), a character from the moment it
  is in the grid, which is before it is sent (`Shown`). That everything printed is shown in
  its place rests on the page: every character's place is behind the ones before
  (`PlacesGrow`), so a character that is appended finds its place empty and takes no
  other's (`PageAppend`), and there is nothing at or behind the end (`PageBehind`), which
  is why the row that scrolling adds must be blank (`RowShown`). `WriteShown` is one
  character's step: printable ones in a row or at its end, new lines and tabs,
  with and without scrolling. The rest of the way to the screen is `CleanIsShown`. The
  start is where the boot meets the loop: when the cursor is set, exactly the boot's texts
  have been sent, by `EchoedInOrder`, and the grid is blank (`SetCursorCurrent`).
  `Induction` is that of `FormatProofs`; `Stepwise` and `PathOf` give the recursive
  function of the places its values.

`InterruptsProofs`
- `TypesAlways`, `HandlerInstalledAlways`, `NothingLeftInServiceAlways`,
  `HandlersDoNotNestAlways`, `KeyboardNotStuckAlways`, `OwnAcknowledgeAlways`.
- None of these is inductive: that nothing is left in service after a return rests on
  what the handler's acknowledgements have done before it. `Inv` relates each place
  where the code can be with the rest: interrupts are on exactly while kernel_main
  runs (`FlagInv`); which tables are loaded and filled at which initialisation
  (`TablesInv`); which word each controller expects at each write of `pic_remap`, and
  the base it has been given (`PicsInv`); an exception never returns, and a device's
  frame is at the bottom (`FramesInv`); what is in service belongs to that frame, and
  until which of its stages (`ServiceInv`); who will read the keyboard's byte (`KeyInv`).
- `TakeInv` covers every way an interrupt or noise is taken, `StageInv` and
  `HandlerStep` every step of a handler, `EdgeInv` every device. `OwnAcknowledge`
  follows: a step that ends a service is not taken by an exception, and below it
  there is one device's frame.

`IsrFrameProofs`
- `TablesLeadAlways`. The invariant `Progress` says, for each step of the boot, which
  entries and which gates are written and which limit is loaded (`LoadProgresses`). That
  an address cut into fields is put together again is division with remainder
  (`OffsetOfGate`, `BaseOfTss`), for any width of a byte.
- `TypeCorrect`, `FrameAlwaysMatches`, `StackAlwaysAligned`, `AlwaysTransparent`, for any
  vectors, any depth of interrupts and any stack below them. None is inductive: that
  the frame is the struct when it is read, and that a return gives everything back,
  rests on every instruction before. `Frames` says, for each interrupt that has not
  returned, where its code is (`InStub`, `InDispatch`), that the stack is the one it
  found with so many words of the frame on it (`Exactly`, `Height`), which these are
  (`Word`), and which registers still are, or are again, those of the interrupted code
  (`Kept`). The state that an inner interrupt found has to satisfy this for the outer
  one too (`Nested`), which is what a return leaves behind.
- There is a lemma for each kind of instruction (`PushRegisterOK`, `CallOK`, `IretqOK`,
  ...). Instructions are counted from the start of `isr_common`, which makes the two
  kinds of stubs one case (`CodeOf`).

`FormatProofs`
- `DigitBufferHoldsAlways`: what has been written of a number and what is left of its
  value bound each other: the value that is left is below the power of the base for
  which there is room. One more digit divides the one and uses up the other
  (`DigitFits`); at the start it is the size of the number against the size of
  its buffer (`ConvertFits`).
- `CodeSizesFit`: the code's sizes meet the assumption.
- `TypeCorrect`: for any format, of directives or not, vsprintf stays inside it, and the
  length of the text inside an `int`. What is written and what is left of the
  arguments keep their types, and so does the record of the call (`CallIsTyped`). `Types` adds that a number in conversion belongs
  to a directive that lies within the format (`Reading`). That a run of ordinary
  characters has an end (`RunEnds`) takes the least place of a set; that the format,
  which is a recursive function of its pieces, is a sequence of characters
  (`FlattenType`) takes induction. The library states induction for operators,
  which the provers cannot instantiate; here it is stated for sets (`Least`,
  `Induction`), and follows from the library's theorem that strict inclusion of finite
  sets is well founded.
- `RenderedAlways`: what vsprintf writes is what `Reference` says. The invariant
  (`RenderInv`) follows the pieces of the format: between two of them, the text of the
  first k is written and the arguments that they take are taken; within a run of ordinary
  characters, which may span several pieces, so much of it (`Covers`); within a
  conversion, the digits written are the last ones of the number and the value left is
  the number without them (`Digits`). A directive of the format is
  read as the caller wrote it because none is the beginning of another
  (`PrefixFree`, `ReadAsWritten`), so that `Unknown` is never reached
  (`NothingUnknown`). That digits produced from the right are those that `Numeral`
  names from the left takes the laws of repeated division (`Quotient`, `DigitsMore`,
  `DigitsDone`), and that the argument the caller gave survives the cut to its width
  takes `WidthAssumption` (`ConvertValue`). Of the callers, `CallerAssumption` says no more
  than what they pass: texts, and integers within their width.
- `ReadsBackAlways`: from `RenderedAlways`'s invariant and the value of a numeral. Reading
  goes through `Value`, the history of a loop whose arithmetic wraps around at each turn;
  wrapping early makes no difference (`WrapAgain`, from `ModPeriod`), so that
  after n digits the value is that of the number's first n digits, wrapped around
  (`ValueOfNumeral`). For the smallest number this is the number itself before
  the sign is applied, and again after it (`ReadText`). What atoll and llabs return is
  within a long for any text (`ReadRange`, `AbsoluteValue`).

`MemoryProofs`
- `RegionMovedIsInvariant`, `ComparedIsInvariant`. The invariant (`LoopInv`) says that the bytes a loop has gone
  over (`Written`, by its direction) hold what they should and all others are as
  before. That a byte still to be read is one of the others is where the direction of
  memmove matters. Of a loop that only reads, it says that the bytes gone over are
  equal, or no NUL (`ScanInv`); that strcmp stays inside the memory needs a NUL in both
  strings (`InMemory`), and that the byte it stops at is the one that `Compared`
  speaks of is `FirstDifference`.

`VideoProofs`
- `BlendBetween`: a blended channel lies between the two it is made of, for all
  bytes, which is why `+ 255 >> 8` may stand for a division by 255: 255 times a
  byte, plus 255, shifted by eight gives the byte back (`ShiftBetween`), and the
  weighted sum lies between 255 times each of the two (`SumBetween`).
  So blending colours gives a colour (`BlendIsColor`).
- `TypeCorrect`, `PaddingAlwaysUntouched`: whatever is drawn, also at a negative
  coordinate, lands on the screen or nowhere. `Inv` adds that nothing is drawn before
  `video_initialize` has accepted the framebuffer (`Unused`).
- `CellsAlwaysShowGlyphs`: each cell shows the bits of its glyph, under the hypothesis
  that the file is a font and `Picture` what its bytes stand for (`FontFile`); with
  any other file the code draws nothing. What is needed is geometry: an
  address has one pixel (`PixelUnique`), a pixel lies in one cell and shows one bit
  (`IndicesUnique`), so that drawing a cell leaves the others alone (`CellsApart`),
  and no coordinate of a cell wraps around (`IndicesFit`).

Only model-checked: liveness (`EveryCharTaken`, `KeyServed`, `RequestServed`,
`EveryKeyShown`, `ExceptionHalts`, `EveryCallReturns`), which is out of the prover's
reach: it needs fairness and ENABLED. Every invariant and every action property that a
passing run checks is a theorem.

## 6. Where comments and code differ

- irq.c:98-99: a spurious IRQ7 "must NOT send EOI". The handler always does
  (`SpuriousNotAcknowledged`, run `spurious7`). It does no harm as long as
  handlers do not nest (`OwnAcknowledge`).
- irq.c:168: "For spurious IRQ15, send EOI to master only". The handler tells
  both (`SpuriousToMasterOnly`, run `spurious15`).
- exceptions.c:92: a coprocessor segment overrun is "Safe to ignore". It stops
  the kernel, because the dispatcher panics after every exception handler that
  returns: in the run, `cso_handler` is registered, returns, and the kernel halts
  (`OverrunIgnored`, run `overrun`).
- isr_stubs.S:70: `isr_common` "saves all regs". It does not save the SSE registers,
  which `_start` enables and which a C function may change (`SavesAllRegs`, run
  `saves_all_regs`). Nothing breaks as long as no handler is compiled to use them.
- video.h:24: `video_getPixel` "Read pixel at xy position, returns color32". It
  uses the pixel's value as an address and reads what is stored there
  (`GetPixelReadsPixel`, run `getpixel`); `video_color32_blend` does the same with
  the blended colour (video.c:111). The kernel calls neither.

Two weaknesses that no text of the repository contradicts: a byte that waits in
the keyboard controller when `pic_remap` starts leaves the keyboard dead
(`KeyboardNotStuck` excludes exactly this byte, variable `early`, so it is listed
as a hazard that no property covers); and with both
shift keys held, releasing one ends the upper case.

## 7. Not modelled

`video_color32_blend` (no state, and the fault of `video_getPixel`); the enabling
of SSE in `_start`; getters; `atof`, which returns 0, and `abort`, neither of which is
called; the buffer of 1024 bytes into which printf formats without passing its size
(libc/stdio/printf.c:17): no call of the kernel comes near it, and whether one could is a
matter of its callers; faults before the kernel's own gates are loaded, which
go to the bootloader's; the bracketing of extended keys described under Keyboard.
Exceptions between two statements of a terminal operation (tty.c:82) are not
modelled, since terminal operations are single steps here. With both shift
keys held, releasing one clears the flag (keyboard.c:55); the model has it, but no
text of the repository says otherwise. The build scripts, the linker
script, the Limine header and the font file are not behaviour of this program.

## 8. What could follow

Terminal operations statement by statement, with an exception between any two.

## 9. Running

    tlc -config MCKeyboard.cfg MCKeyboard
    tlc -config MCInterrupts.cfg MCInterrupts
    tlc -config MCTerminal.cfg MCTerminal
    tlc -config MCConsole.cfg MCConsole
    tlc -config MCIsrFrame.cfg MCIsrFrame
    tlc -config MCVideo.cfg MCVideo
    tlc -config MCLibc.cfg MCLibc
    tlapm KeyboardProofs.tla
    tlapm TerminalProofs.tla
    tlapm InterruptsProofs.tla
    tlapm ConsoleProofs.tla
    tlapm IsrFrameProofs.tla
    tlapm FormatProofs.tla
    tlapm MemoryProofs.tla
    tlapm VideoProofs.tla

The runs of section 6 are `MCSpurious7.cfg`, `MCSpurious15.cfg` and `MCOverrun.cfg`
with module `MCInterrupts`, `MCSavesAllRegs.cfg` with `MCIsrFrame`, and
`MCGetPixel.cfg` with `MCVideo`; TLC stops at a
counterexample.
