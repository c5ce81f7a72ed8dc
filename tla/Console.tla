------------------------------- MODULE Console -------------------------------
(***************************************************************************)
(* The console. _start and what it calls print, set the serial port up on  *)
(* the way and clear the terminal; then kernel_main's loop                 *)
(* (kernel/kernel/kernel.c) takes characters from the keyboard driver,     *)
(* prints each on the terminal and on the serial port (terminal_write in   *)
(* tty.c, serial.c) and renders the terminal. Keys are typed at any time.  *)
(* An exception may come between any two steps: it prints its message      *)
(* through the same terminal and the same port, and stops the kernel       *)
(* (interrupt_dispatch in idt.c).                                          *)
(*                                                                         *)
(* The driver is the queue it is shown to implement (Keyboard, KeyQueue).  *)
(* The terminal's part of each character is one operation of Terminal.     *)
(***************************************************************************)
EXTENDS Serial, SequencesExt

CONSTANTS
  VGA_WIDTH, VGA_HEIGHT, TabStop,   \* as in Terminal
  DefaultBg, DefaultFg, Undrawn, Space,
  Newline, Tab,                     \* the characters terminal_write treats apart
  KeyChars, NUL, Waiting,           \* as in KeyQueue
  Capacity,
  BootTexts,                        \* what is printed before serial_init, from there
                                    \* to the loading of the gates, and from there to
                                    \* terminal_clear
  Greeting,                         \* what kernel_main prints before its loop
  Message,                          \* what an unhandled exception prints
  MaxTyped,                         \* bound on the characters typed
  MaxFrames                         \* bound on kernel_main and nested exceptions

ASSUME ConsoleAssumption ==
  /\ BootTexts \in Seq(Seq(KeyChars)) /\ Len(BootTexts) = 3
  /\ Greeting \in Seq(KeyChars)
  /\ Message \in Seq(Range(Message)) /\ Message # << >>
  /\ {NUL, Waiting} \cap (KeyChars \cup Range(Message)) = {}
  /\ Capacity \in Nat /\ MaxTyped \in Nat /\ MaxFrames \in Nat \ {0}

ASSUME TerminalAssumption ==
  /\ {VGA_WIDTH, VGA_HEIGHT, TabStop} \subseteq Nat \ {0}
  /\ Space \notin {Newline, Tab} /\ Newline # Tab

VARIABLES
  queue, answer,                   \* the driver: what waits, what it last answered
  terminal_row, terminal_column, terminal_buffer, dirty_buffer,
  backgroundColor, foregroundColor,
  screen,                          \* the framebuffer, one entry per cell
  stack,                           \* kernel_main, and the exceptions on top of it
  boot,                            \* which of Texts kernel_main or _start prints
  setup,                           \* the index in serial_init of the next write
  port,                            \* the serial port
  halted,                          \* in an endless hlt loop, interrupts off
  typed, sent, line                \* history: what the driver accepted, what the
                                   \* serial port was given, and what of it arrived
                                   \* as serial_init has set

driver   == <<queue, answer>>
terminal == <<terminal_row, terminal_column, terminal_buffer, dirty_buffer,
              backgroundColor, foregroundColor, screen>>
vars     == <<driver, terminal, stack, boot, setup, port,
              halted, typed, sent, line>>

serial == <<setup, port, line>>

Texts == Append(BootTexts, Greeting)

Characters == (KeyChars \cup Range(Message) \cup {Space}) \ {Newline, Tab}

Driver == INSTANCE KeyQueue WITH Chars <- KeyChars

(* kernel_main, which alone renders, runs only with a framebuffer: without *)
(* one, _start halts.                                                      *)
Term == INSTANCE Terminal WITH
          Colors <- {DefaultBg, DefaultFg}, CursorPositions <- {<<0, 0>>}, isInit <- TRUE

-----------------------------------------------------------------------------
(* What runs is the top of the stack: text is what it still has to print,  *)
(* at says which step it takes next.                                       *)
Running(text, at) == [text |-> text, at |-> at]

Top == stack[Len(stack)]

At(step) == ~halted /\ Top.at = step

Goto(text, at) == stack' = [stack EXCEPT ![Len(stack)] = Running(text, at)]

(* terminal_initialize is about to print.                                  *)
Init ==
  /\ Driver!Init
  /\ Term!terminal_initialize
  /\ stack = <<Running(Texts[1], "write")>>
  /\ boot = 1 /\ setup = 1
  /\ port = Handover
  /\ halted = FALSE
  /\ typed = << >>
  /\ sent = << >> /\ line = << >>

-----------------------------------------------------------------------------
(* kernel_main, or an exception, prints: terminal_write once a character.  *)

(* Variants named Bad... hold a plausible mistake; no specification uses   *)
(* one. They show which mistakes the properties below would notice.        *)

(* No case for tabs. *)
BadTerminalWrite(c) ==
  \/ ~Term!terminal_isSafe /\ UNCHANGED terminal
  \/ c = Newline /\ Term!terminal_newLine
  \/ c # Newline /\ Term!terminal_putchar(c)

(* The terminal's part: a control character or a printable one; with the   *)
(* cursor outside the grid it does nothing.                                *)
TerminalWrite(c) ==
  \/ ~Term!terminal_isSafe /\ UNCHANGED terminal
  \/ c = Newline /\ Term!terminal_newLine
  \/ c = Tab /\ Term!terminal_indent
  \/ c \notin {Newline, Tab} /\ Term!terminal_putchar(c)

terminal_write ==
  /\ At("write")
  /\ Top.text # << >>
  /\ TerminalWrite(Head(Top.text))
  /\ Goto(Top.text, "wait_transmit")
  /\ UNCHANGED <<driver, boot, serial, halted, typed, sent>>

(* Gives the character up if the port is busy. *)
BadWaitGivesUp ==
  /\ At("wait_transmit")
  /\ IF Empty(port) THEN Goto(Top.text, "outb") ELSE Goto(Tail(Top.text), "write")
  /\ UNCHANGED <<driver, terminal, boot, serial, halted, typed, sent>>

(* wait_transmit polls the port until it can take a byte.                  *)
wait_transmit ==
  /\ At("wait_transmit")
  /\ Empty(port)
  /\ Goto(Top.text, "outb")
  /\ UNCHANGED <<driver, terminal, boot, serial, halted, typed, sent>>

serial_putchar ==
  /\ At("outb")
  /\ sent' = Append(sent, Head(Top.text))
  /\ port' = Give(port, Head(Top.text))
  /\ Goto(Tail(Top.text), "write")
  /\ UNCHANGED <<driver, terminal, boot, setup, line, halted, typed>>

AfterText == <<"serial_init", "lidt", "terminal_clear", "render">>

(* An exception returns to what it interrupted. *)
BadPrintedReturns ==
  /\ At("write")
  /\ Top.text = << >>
  /\ IF Len(stack) = 1 THEN Goto(<< >>, AfterText[boot])
                       ELSE stack' = SubSeq(stack, 1, Len(stack) - 1)
  /\ UNCHANGED <<driver, terminal, boot, serial, halted, typed, sent>>

(* kernel_main does not render. *)
BadPrintedNoRender ==
  /\ At("write")
  /\ Top.text = << >>
  /\ IF Len(stack) = 1
     THEN Goto(<< >>, IF boot = 4 THEN "getchar" ELSE AfterText[boot]) /\ UNCHANGED halted
     ELSE halted' = TRUE /\ UNCHANGED stack
  /\ UNCHANGED <<driver, terminal, boot, serial, typed, sent>>

(* All is printed: _start goes on, kernel_main renders, an exception       *)
(* halts.                                                                  *)
Printed ==
  /\ At("write")
  /\ Top.text = << >>
  /\ IF Len(stack) = 1 THEN Goto(<< >>, AfterText[boot]) /\ UNCHANGED halted
                       ELSE halted' = TRUE /\ UNCHANGED stack
  /\ UNCHANGED <<driver, terminal, boot, serial, typed, sent>>

-----------------------------------------------------------------------------
(* The steps of _start between the texts. *)

(* printf sets off the loop above with the next text. It cannot fail: the  *)
(* text fits into an int, and putchar never answers EOF.                   *)
Prints(n) == boot' = n /\ Goto(Texts[n], "write")

SerialInit ==
  /\ At("serial_init")
  /\ IF setup <= Len(serial_init)
     THEN /\ port' = Outb(port, serial_init[setup][1], serial_init[setup][2])
          /\ setup' = setup + 1
          /\ UNCHANGED <<boot, stack>>
     ELSE Prints(2) /\ UNCHANGED <<port, setup>>
  /\ UNCHANGED <<driver, terminal, halted, typed, sent, line>>

(* From here on, exceptions are the kernel's own. (Until exceptions_init   *)
(* has run, all of them only print the message; the model lets the other   *)
(* handlers run already.)                                                  *)
LoadGates ==
  /\ At("lidt")
  /\ Prints(3)
  /\ UNCHANGED <<driver, terminal, serial, halted, typed, sent>>

terminal_clear ==
  /\ At("terminal_clear")
  /\ Term!terminal_clear
  /\ Goto(<< >>, "set_cursor")
  /\ UNCHANGED <<driver, boot, serial, halted, typed, sent>>

(* The cursor goes to the corner, and interrupts are enabled.              *)
SetCursor ==
  /\ At("set_cursor")
  /\ Term!terminal_setCursorPosition(0, 0)
  /\ Prints(4)
  /\ UNCHANGED <<driver, serial, halted, typed, sent>>

-----------------------------------------------------------------------------
(* The rest of kernel_main's loop. *)

Render ==
  /\ At("render")
  /\ Term!terminal_render
  /\ Goto(<< >>, "getchar")
  /\ UNCHANGED <<driver, boot, serial, halted, typed, sent>>

(* keyboard_getchar: a call, then a character or none.                     *)
Getchar ==
  /\ At("getchar")
  /\ \/ Driver!Call /\ UNCHANGED stack
     \/ Driver!Take /\ Goto(<<answer'>>, "write")
     \/ Driver!Nothing /\ UNCHANGED stack
  /\ UNCHANGED <<terminal, boot, serial, halted, typed, sent>>

Kernel ==
  \/ terminal_write \/ wait_transmit \/ serial_putchar \/ Printed
  \/ SerialInit \/ LoadGates \/ terminal_clear \/ SetCursor
  \/ Render \/ Getchar

-----------------------------------------------------------------------------
(* What interrupts it. *)

(* A key press puts a character into the driver's queue; in _start and     *)
(* inside an exception interrupts are off.                                 *)
Key ==
  /\ ~halted
  /\ boot = 4 /\ Len(stack) = 1
  /\ Len(typed) < MaxTyped
  /\ Driver!Typed
  /\ typed' = Append(typed, Last(queue'))
  /\ UNCHANGED <<terminal, stack, boot, serial, halted, sent>>

Enter == stack' = Append(stack, Running(Message, "write"))

Interruptible == ~halted /\ boot >= 3 /\ Len(stack) < MaxFrames

(* Most exceptions.                                                        *)
Exception ==
  /\ Interruptible
  /\ Enter
  /\ UNCHANGED <<driver, terminal, boot, serial, halted, typed, sent>>

(* The non-maskable interrupt also ends a hlt.                             *)
NMI ==
  /\ boot >= 3 /\ Len(stack) < MaxFrames
  /\ Enter
  /\ halted' = FALSE
  /\ UNCHANGED <<driver, terminal, boot, serial, typed, sent>>

(* A division error clears the screen first.                               *)
DivideError ==
  /\ Interruptible
  /\ Enter
  /\ screen' = [p \in Term!Positions |-> Undrawn]
  /\ UNCHANGED <<driver, terminal_row, terminal_column, terminal_buffer, dirty_buffer,
                 backgroundColor, foregroundColor, boot, serial, halted, typed, sent>>

(* A double fault or a machine check halts without a word.                 *)
FatalException ==
  /\ Interruptible
  /\ halted' = TRUE
  /\ stack' = Append(stack, Running(<< >>, "hlt"))
  /\ UNCHANGED <<driver, terminal, boot, serial, typed, sent>>

(* The serial port takes the next byte, and has sent one.                  *)
Take ==
  /\ CanShift(port)
  /\ port' = Shift(port)
  /\ UNCHANGED <<driver, terminal, stack, boot, setup, line, halted, typed, sent>>

Transmitted ==
  /\ port.shifting # << >>
  /\ line' = line \o Good(port.shifting)
  /\ port' = Sent(port)
  /\ UNCHANGED <<driver, terminal, stack, boot, setup, halted, typed, sent>>

Transmit == Take \/ Transmitted

Next ==
  \/ Kernel
  \/ Key \/ Exception \/ NMI \/ DivideError \/ FatalException
  \/ Transmit

(* The kernel runs its next instruction, and the port, which is clocked by *)
(* its own oscillator, sends what it holds.                                *)
Spec == Init /\ [][Next]_vars /\ WF_vars(Kernel) /\ WF_vars(Transmit)

-----------------------------------------------------------------------------
(* Properties. *)

Undisturbed == Len(stack) = 1

(* Every variable has its type. *)
TypeOK ==
  /\ queue \in Seq(KeyChars) /\ Len(queue) <= Capacity
  /\ answer \in KeyChars \cup {NUL, Waiting}
  /\ Term!TypeOK
  /\ Len(stack) \in 1 .. MaxFrames
  /\ \A i \in 1 .. Len(stack) :
       /\ stack[i].text \in Seq(KeyChars \cup Range(Message))
       /\ stack[i].at \in {"write", "wait_transmit", "outb", "hlt", "getchar",
                          "set_cursor"} \cup Range(AfterText)
  /\ boot \in 1 .. 4 /\ setup \in 1 .. Len(serial_init) + 1 /\ halted \in BOOLEAN
  /\ port.dlab \in BOOLEAN /\ Len(port.holding) <= 1 /\ Len(port.shifting) <= 1
  /\ typed \in Seq(KeyChars)
  /\ sent \in Seq(KeyChars \cup Range(Message)) /\ Len(line) <= Len(sent)

(* What has been printed when the first n texts have. *)
BootText(n) ==
  LET two == BootTexts[1] \o BootTexts[2]
      three == two \o BootTexts[3]
  IN << BootTexts[1], two, three, three \o Greeting >>[n]

(* Until an exception comes, every character the driver accepted is in     *)
(* exactly one place, in the order typed: sent on the serial port, in      *)
(* print, or still waiting in the driver.                                  *)
EchoedInOrder ==
  Undisturbed => sent \o stack[1].text \o queue = BootText(boot) \o typed

(* Everything printed since serial_init is on the line, or in the port on  *)
(* its way there, in order and as serial_init has set: no byte is given to *)
(* the port while it still holds one, though exceptions print through the  *)
(* same port between a poll and the write that follows it, and the byte of *)
(* an earlier text that is still on its way when the settings change, and  *)
(* may be lost, takes no other with it.                                    *)
LineCarries ==
  boot >= 2 =>
    line \o Good(port.shifting) \o Good(port.holding) =
      SubSeq(sent, Len(Texts[1]) + 1, Len(sent))

(* A kernel that stops at an unhandled exception has just sent the whole   *)
(* message in one piece, also if it cut into the echo of a character or    *)
(* into the message of another exception.                                  *)
MessageSent ==
  halted /\ Top.at # "hlt" => IsSuffix(Message, sent)

(* The reference for what the screen shows: a page without end, on which   *)
(* each character has its place, and of which the screen is a window that  *)
(* ends with the cursor's row.                                             *)
NextRow(place) == <<place[1] + 1, 0>>

After(place, ch) ==
  LET column == IF ch = Tab THEN TabStop * ((place[2] \div TabStop) + 1) ELSE place[2] + 1
  IN IF ch = Newline \/ column >= VGA_WIDTH THEN NextRow(place) ELSE <<place[1], column>>

PlaceAfter(text, n) ==
  LET place[i \in 0 .. Len(text)] ==
        IF i = 0 THEN <<0, 0>> ELSE After(place[i - 1], text[i])
  IN place[n]

PageChar(text, place) ==
  LET there == { i \in 1 .. Len(text) :
                   text[i] \notin {Newline, Tab} /\ PlaceAfter(text, i - 1) = place }
  IN IF there = {} THEN Space ELSE text[CHOOSE i \in there : TRUE]

FirstRow(text) ==
  LET row == PlaceAfter(text, Len(text))[1]
  IN IF row < VGA_HEIGHT THEN 0 ELSE row - VGA_HEIGHT + 1

View(text, first) ==
  [p \in Term!Positions |->
     [character |-> PageChar(text, <<p[1] + first, p[2]>>),
      bgColor   |-> DefaultBg,
      fgColor   |-> DefaultFg]]

Window(text) == View(text, FirstRow(text))

(* While kernel_main waits for a key, the screen shows the last rows of    *)
(* what was printed since terminal_clear: nothing was lost between the     *)
(* keyboard, the terminal and the flags that tell terminal_render what to  *)
(* draw.                                                                   *)
ScreenShowsEcho ==
  ~halted /\ Undisturbed /\ Top.at = "getchar" =>
    screen = Window(SubSeq(sent, Len(BootText(3)) + 1, Len(sent)))

(* Every character the driver accepts is printed and shown, unless an      *)
(* exception comes.                                                        *)
EveryKeyShown ==
  \A n \in 1 .. MaxTyped :
    (Len(typed) >= n) ~>
      \/ Len(sent) >= Len(BootText(4)) + n /\ Top.at = "getchar"
      \/ ~Undisturbed

(* Every exception stops the kernel: its handler never waits for ever.     *)
ExceptionHalts == ~Undisturbed ~> halted
=============================================================================
